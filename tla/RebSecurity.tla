------------------------------ MODULE RebSecurity ------------------------------
(***************************************************************************)
(* reb_security.c: the sliding nonce window, the ring buffer of accepted   *)
(* nonces and the two decisions built on them.  A C function that reads    *)
(* and updates the context is a predicate (may it succeed?) and an         *)
(* operator giving the context it leaves behind when it does.              *)
(***************************************************************************)
EXTENDS RebTypes

\* Mutant: the window has no upper end.
NonceInWindowUnbounded(ctx, nonce) == nonce > ctx.last_valid_nonce

\* reb_security_is_nonce_in_window
NonceInWindow(ctx, nonce) ==
  /\ nonce > ctx.last_valid_nonce
  /\ nonce - ctx.last_valid_nonce <= REB_NONCE_WINDOW_SIZE

\* reb_security_is_nonce_replayed
NonceReplayed(ctx, nonce) ==
  \E i \in HistorySlots : ctx.nonce_history[i] = nonce

\* Mutant: the write index runs past the end of the ring.
StoreNonceUnwrapped(ctx, nonce) ==
  [ctx EXCEPT !.nonce_history[ctx.nonce_history_index] = nonce,
              !.nonce_history_index = @ + 1]

\* Mutant: the write index stays where it is.
StoreNonceInPlace(ctx, nonce) ==
  [ctx EXCEPT !.nonce_history[ctx.nonce_history_index] = nonce]

\* Mutant: the write index is advanced before the write.
StoreNonceAdvancedFirst(ctx, nonce) ==
  LET next == (ctx.nonce_history_index + 1) % REB_NONCE_HISTORY_SIZE
  IN [ctx EXCEPT !.nonce_history[next] = nonce, !.nonce_history_index = next]

\* reb_security_store_nonce.  With an index outside the ring, which only a record
\* read from uninitialised memory has, no slot changes here and the index is back
\* in the ring; what else the store hits is Overrun of RebServer.
StoreNonce(ctx, nonce) ==
  [ctx EXCEPT !.nonce_history[ctx.nonce_history_index] = nonce,
              !.nonce_history_index = (@ + 1) % REB_NONCE_HISTORY_SIZE]

\* Mutant: only the ring buffer is asked, as if it never forgot.
CommandValidByHistory(in, ctx) ==
  /\ in.remote_command # "NONE"
  /\ in.timestamp_ms # 0
  /\ ~NonceReplayed(ctx, in.nonce)

\* reb_security_validate_remote_command: the checks, in the code's order ...
CommandValid(in, ctx) ==
  /\ in.remote_command # "NONE"
  /\ in.timestamp_ms # 0
  /\ NonceInWindow(ctx, in.nonce)
  /\ ~NonceReplayed(ctx, in.nonce)

\* Mutant: the nonce is remembered and the window not moved.
ConsumeNonceWindowKept(in, ctx) == StoreNonce(ctx, in.nonce)

\* ... and what it does to the context when they all pass.
ConsumeNonce(in, ctx) ==
  StoreNonce([ctx EXCEPT !.last_valid_nonce = in.nonce], in.nonce)

\* reb_security_unlock_allowed, past its validation of the command
UnlockAllowed(in, ctx) == CommandValid(in, ctx) /\ in.tcu_ack_received

\* The uint8_t increments of invalid_unlock_attempts.
CountInvalidAttempts(ctx, n) ==
  [ctx EXCEPT !.invalid_unlock_attempts = (@ + n) % UINT8_MODULUS]
===============================================================================
