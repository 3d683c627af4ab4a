----------------------------- MODULE CanStackProofs -----------------------------
(***************************************************************************)
(* Theorems of CanStack for every size of a byte, every clock and every    *)
(* message and answer that fits its fields.                                *)
(*                                                                         *)
(* The codecs' arithmetic is proved once, for numbers of two and of four   *)
(* bytes (TwoBytes, FourBytes); every message is then followed through its *)
(* own layout.  The monitor's invariant says that what it has recorded is  *)
(* the age of the message, or older for the message that moves the clock.  *)
(***************************************************************************)
EXTENDS CanStack, FiniteSetTheorems, TLAPS

--------------------------------------------------------------------------------
(* Arithmetic of little-endian numbers *)

\* Quotient and remainder are unique.
LEMMA Quotient ==
  ASSUME NEW b \in Nat \ {0}, NEW q \in Nat, NEW r \in 0 .. b - 1
  PROVE  (b * q + r) \div b = q /\ (b * q + r) % b = r
  OBVIOUS

\* A two-byte number splits into two bytes.
LEMMA Split ==
  ASSUME NEW b \in Nat \ {0}, NEW v \in 0 .. b * b - 1
  PROVE  /\ v % b \in 0 .. b - 1
         /\ v \div b \in 0 .. b - 1
         /\ (v \div b) % b = v \div b
         /\ v = (v % b) + b * (v \div b)
<1>1. v \in Nat /\ v % b \in 0 .. b - 1 /\ v \div b \in Nat
  OBVIOUS
<1>2. v = (v % b) + b * (v \div b)
  BY <1>1
<1>3. v \div b \in 0 .. b - 1
  OBVIOUS
<1>4. (v \div b) % b = v \div b
  BY <1>3
<1>5. QED
  BY <1>1, <1>2, <1>3, <1>4

\* The low two bytes of any number, and the rest of it.
LEMMA LowWord ==
  ASSUME NEW b \in Nat \ {0}, NEW v \in Nat
  PROVE  v = ((v % b) + b * ((v \div b) % b)) + b * b * (v \div (b * b))
<1>1. b * b \in Nat \ {0} /\ v % b \in 0 .. b - 1 /\ v \div b \in Nat
  OBVIOUS
<1> DEFINE q == v \div b
           r == v % b
<1>2. v = b * q + r
  OBVIOUS
<1>3. q = b * (q \div b) + (q % b) /\ q \div b \in Nat /\ q % b \in 0 .. b - 1
  BY <1>1
<1> HIDE DEF q, r
<1>4. r \in 0 .. b - 1 /\ q \in Nat
  BY <1>1 DEF q, r
<1> DEFINE low == r + b * (q % b)
<1>5. low \in Nat /\ low <= b * b - 1
  <2>1. b * (q % b) <= b * (b - 1)
    BY <1>3
  <2>2. b * (b - 1) = b * b - b
    OBVIOUS
  <2>3. QED
    BY <1>3, <1>4, <2>1, <2>2
<1>6. v = (b * b) * (q \div b) + low
  <2>1. b * q = b * (b * (q \div b)) + b * (q % b)
    BY <1>3, <1>4
  <2>2. b * (b * (q \div b)) = (b * b) * (q \div b)
    BY <1>3
  <2>3. QED
    BY <1>2, <1>3, <1>4, <2>1, <2>2
<1> HIDE DEF low
<1>7. v \div (b * b) = q \div b
  <2>1. low \in 0 .. b * b - 1
    BY <1>1, <1>5
  <2>2. ((b * b) * (q \div b) + low) \div (b * b) = q \div b
    BY <1>1, <1>3, <2>1, Quotient
  <2>3. QED
    BY <1>6, <2>2
<1>8. v = low + b * b * (v \div (b * b))
  BY <1>1, <1>3, <1>5, <1>6, <1>7
<1>9. QED
  BY <1>8 DEF low, q, r

\* A number below the square of a square keeps its upper half below the square.
LEMMA HighWord ==
  ASSUME NEW b \in Nat \ {0}, NEW v \in 0 .. b * b * b * b - 1
  PROVE  v \div (b * b) \in 0 .. b * b - 1
<1>1. b * b \in Nat \ {0} /\ b * b * b * b = (b * b) * (b * b)
  OBVIOUS
<1>2. v \in 0 .. (b * b) * (b * b) - 1
  BY <1>1
<1>3. QED
  BY <1>1, <1>2, Split

\* can_codec_read_u16_le undoes struct.pack("<H") ...
LEMMA TwoBytes ==
  ASSUME NEW v \in 0 .. BYTE * BYTE - 1
  PROVE  U16Bytes(v)[1] + BYTE * U16Bytes(v)[2] = v
<1>1. BYTE \in Nat \ {0}
  BY CanAssumption DEF REB_DERATE_MAX_PERCENT
<1>2. v = (v % BYTE) + BYTE * (v \div BYTE) /\ (v \div BYTE) % BYTE = v \div BYTE
  BY <1>1, Split
<1>3. U16Bytes(v)[1] = v % BYTE /\ U16Bytes(v)[2] = (v \div BYTE) % BYTE
  BY DEF U16Bytes
<1>4. QED
  BY <1>2, <1>3

\* ... and can_codec_read_u32_le what to_bytes(4, "little") wrote.
LEMMA FourBytes ==
  ASSUME NEW v \in 0 .. BYTE * BYTE * BYTE * BYTE - 1
  PROVE  U32Bytes(v)[1] + BYTE * U32Bytes(v)[2]
           + BYTE * BYTE * (U32Bytes(v)[3] + BYTE * U32Bytes(v)[4]) = v
<1>1. BYTE \in Nat \ {0}
  BY CanAssumption DEF REB_DERATE_MAX_PERCENT
<1> DEFINE high == v \div (BYTE * BYTE)
<1>2. /\ U32Bytes(v)[1] = v % BYTE /\ U32Bytes(v)[2] = (v \div BYTE) % BYTE
      /\ U32Bytes(v)[3] = U16Bytes(high)[1] /\ U32Bytes(v)[4] = U16Bytes(high)[2]
  BY DEF U32Bytes, U16Bytes
<1>3. high \in 0 .. BYTE * BYTE - 1
  BY <1>1, HighWord
<1>4. U16Bytes(high)[1] + BYTE * U16Bytes(high)[2] = high
  BY <1>3, TwoBytes
<1>a. v \in Nat
  OBVIOUS
<1>5. v = ((v % BYTE) + BYTE * ((v \div BYTE) % BYTE)) + BYTE * BYTE * high
  BY <1>1, <1>a, LowWord, Zenon
<1>6. QED
  BY <1>2, <1>4, <1>5

\* The name of a code is the name it is the code of.
LEMMA NameOfCode ==
  ASSUME NEW codes, NEW name \in DOMAIN codes,
         \A other \in DOMAIN codes : codes[other] = codes[name] => other = name
  PROVE  NameOf(codes, codes[name]) = name
  BY Zenon DEF NameOf
--------------------------------------------------------------------------------
(* The frame of the bridge: accepted, and its data handed on untouched *)

\* The table of can_ids.c, by direction.
LEMMA RxIdsAre ==
  /\ RxIds = {"REB_CMD", "TCU_TO_REB", "VEHICLE_STATE", "BCM_INTRUSION_STATUS",
              "PANEL_AUTH_CMD", "PANEL_CANCEL_CMD", "PANEL_BLOCK_CMD"}
  /\ MsgIds = RxIds \cup {"REB_STATUS", "REB_DERATE_CMD", "REB_PREVENT_START",
                          "REB_GPS_REQUEST"}
  BY DEF RxIds, MsgIds, MsgTable, Desc

LEMMA BridgeBufferArrives ==
  ASSUME NEW m, m.msg_id \in RxIds
  PROVE  /\ RxAccepts(BridgeBuffer(m))
         /\ BridgeBuffer(m).id = m.msg_id
         /\ \A i \in 1 .. 8 : FrameData(BridgeBuffer(m))[i] = Payload(m)[i]
<1>1. /\ BridgeBuffer(m).id = m.msg_id
      /\ BridgeBuffer(m).version = 1 /\ BridgeBuffer(m).range = 11
      /\ BridgeBuffer(m).id_type = "STANDARD" /\ BridgeBuffer(m).frame_type = "DATA"
      /\ BridgeBuffer(m).dlc = 8 /\ DLC = 8
      /\ BridgeBuffer(m).data = Payload(m)
  BY DEF BridgeBuffer, DLC
<1>2. RxAccepts(BridgeBuffer(m))
  BY <1>1 DEF RxAccepts, Deserializes, FrameValid
<1>3. \A i \in 1 .. 8 : FrameData(BridgeBuffer(m))[i] = Payload(m)[i]
  BY <1>1 DEF FrameData
<1>4. QED
  BY <1>1, <1>2, <1>3

\* The data as the decoders' helpers see it.
LEMMA ReadWord ==
  ASSUME NEW data, NEW v \in 0 .. BYTE * BYTE - 1, NEW i \in 1 .. 7,
         data[i] = U16Bytes(v)[1], data[i + 1] = U16Bytes(v)[2]
  PROVE  U16(data, i) = v
  BY TwoBytes DEF U16

--------------------------------------------------------------------------------
(* Message by message: layout of the sender, layout of the decoder *)

LEMMA RebCmdRoundTrip ==
  ASSUME NEW type \in 0 .. BYTE - 1, NEW nonce \in 0 .. BYTE * BYTE - 1
  PROVE  LET m == RebCmd(type, nonce) IN
         RxAccepts(BridgeBuffer(m)) /\ Decode(BridgeBuffer(m)) = m
<1> DEFINE m == RebCmd(type, nonce)
           data == FrameData(BridgeBuffer(m))
<1>1. m.msg_id = "REB_CMD" /\ m.cmd_type = type /\ m.cmd_nonce = nonce
  BY DEF RebCmd
<1>2. /\ RxAccepts(BridgeBuffer(m)) /\ BridgeBuffer(m).id = "REB_CMD"
      /\ \A i \in 1 .. 8 : data[i] = Payload(m)[i]
  BY <1>1, RxIdsAre, BridgeBufferArrives
<1>3. Payload(m) = RemoteCommandPayload(m)
  BY <1>1 DEF Payload
<1>4. /\ RemoteCommandPayload(m)[1] = type
      /\ RemoteCommandPayload(m)[3] = U16Bytes(nonce)[1]
      /\ RemoteCommandPayload(m)[4] = U16Bytes(nonce)[2]
  BY <1>1 DEF RemoteCommandPayload, U16Bytes
<1>5. data[1] = type /\ U16(data, 3) = nonce
  BY <1>2, <1>3, <1>4, ReadWord
<1>6. Decode(BridgeBuffer(m)) = DecodeRebCmd(data)
  BY <1>2 DEF Decode
<1>7. QED
  BY <1>2, <1>5, <1>6 DEF DecodeRebCmd

LEMMA TcuRoundTrip ==
  ASSUME NEW cmd \in DOMAIN TcuCodes,
         NEW ms \in 0 .. BYTE * BYTE * BYTE * BYTE - 1
  PROVE  LET m == TcuToReb(cmd, ms) IN
         RxAccepts(BridgeBuffer(m)) /\ Decode(BridgeBuffer(m)) = m
<1> DEFINE m == TcuToReb(cmd, ms)
           data == FrameData(BridgeBuffer(m))
<1>1. m.msg_id = "TCU_TO_REB" /\ m.tcu_cmd = cmd /\ m.echo_timestamp = ms
  BY DEF TcuToReb
<1>2. /\ RxAccepts(BridgeBuffer(m)) /\ BridgeBuffer(m).id = "TCU_TO_REB"
      /\ \A i \in 1 .. 8 : data[i] = Payload(m)[i]
  BY <1>1, RxIdsAre, BridgeBufferArrives
<1>3. Payload(m) = TcuPayload(m)
  BY <1>1 DEF Payload
<1>4. /\ TcuPayload(m)[1] = TcuCodes[cmd]
      /\ TcuPayload(m)[3] = U32Bytes(ms)[1] /\ TcuPayload(m)[4] = U32Bytes(ms)[2]
      /\ TcuPayload(m)[5] = U32Bytes(ms)[3] /\ TcuPayload(m)[6] = U32Bytes(ms)[4]
  BY <1>1 DEF TcuPayload, U32Bytes, U16Bytes, Zeros
<1>5. NameOf(TcuCodes, TcuCodes[cmd]) = cmd
  <2>1. \A other \in DOMAIN TcuCodes : TcuCodes[other] = TcuCodes[cmd] => other = cmd
    BY DEF TcuCodes
  <2>2. QED
    BY <2>1, NameOfCode
<1>6. data[1] = TcuCodes[cmd] /\ U32(data, 3) = ms
  <2>1. /\ data[3] = U32Bytes(ms)[1] /\ data[4] = U32Bytes(ms)[2]
        /\ data[5] = U32Bytes(ms)[3] /\ data[6] = U32Bytes(ms)[4]
    BY <1>2, <1>3, <1>4
  <2>2. U32(data, 3) = data[3] + BYTE * data[4] + BYTE * BYTE * (data[5] + BYTE * data[6])
    BY DEF U32, U16
  <2>3. QED
    BY <1>2, <1>3, <1>4, <2>1, <2>2, FourBytes
<1>7. Decode(BridgeBuffer(m)) = DecodeTcuToReb(data)
  BY <1>2 DEF Decode
<1>8. QED
  BY <1>2, <1>5, <1>6, <1>7 DEF DecodeTcuToReb
LEMMA VehicleRoundTrip ==
  ASSUME NEW v \in 0 .. BYTE * BYTE - 1
  PROVE  LET m == VehicleState(v) IN
         RxAccepts(BridgeBuffer(m)) /\ Decode(BridgeBuffer(m)) = m
<1> DEFINE m == VehicleState(v)
           data == FrameData(BridgeBuffer(m))
<1>1. m.msg_id = "VEHICLE_STATE" /\ m.vehicle_speed_centi_kmh = v
  BY DEF VehicleState
<1>2. /\ RxAccepts(BridgeBuffer(m)) /\ BridgeBuffer(m).id = "VEHICLE_STATE"
      /\ \A i \in 1 .. 8 : data[i] = Payload(m)[i]
  BY <1>1, RxIdsAre, BridgeBufferArrives
<1>3. Payload(m) = VehiclePayload(m)
  BY <1>1 DEF Payload
<1>4. VehiclePayload(m)[1] = U16Bytes(v)[1] /\ VehiclePayload(m)[2] = U16Bytes(v)[2]
  BY <1>1 DEF VehiclePayload, U16Bytes, Zeros
<1>5. U16(data, 1) = v
  BY <1>2, <1>3, <1>4, ReadWord
<1>6. Decode(BridgeBuffer(m)) = DecodeVehicleState(data)
  BY <1>2 DEF Decode
<1>7. QED
  BY <1>2, <1>5, <1>6 DEF DecodeVehicleState

LEMMA IntrusionRoundTrip ==
  ASSUME NEW level \in DOMAIN LevelCodes
  PROVE  LET m == BcmIntrusion(level) IN
         RxAccepts(BridgeBuffer(m)) /\ Decode(BridgeBuffer(m)) = m
<1> DEFINE m == BcmIntrusion(level)
           data == FrameData(BridgeBuffer(m))
<1>1. m.msg_id = "BCM_INTRUSION_STATUS" /\ m.intrusion_level = level
  BY DEF BcmIntrusion
<1>2. /\ RxAccepts(BridgeBuffer(m)) /\ BridgeBuffer(m).id = "BCM_INTRUSION_STATUS"
      /\ \A i \in 1 .. 8 : data[i] = Payload(m)[i]
  BY <1>1, RxIdsAre, BridgeBufferArrives
<1>3. Payload(m) = IntrusionPayload(m)
  BY <1>1 DEF Payload
<1>4. IntrusionPayload(m)[4] = LevelCodes[level]
  BY <1>1 DEF IntrusionPayload, Zeros
<1>5. NameOf(LevelCodes, LevelCodes[level]) = level
  <2>1. \A other \in DOMAIN LevelCodes :
          LevelCodes[other] = LevelCodes[level] => other = level
    BY DEF LevelCodes
  <2>2. QED
    BY <2>1, NameOfCode
<1>6. Decode(BridgeBuffer(m)) = DecodeIntrusion(data)
  BY <1>2 DEF Decode
<1>7. data[4] = LevelCodes[level]
  BY <1>2, <1>3, <1>4
<1>8. QED
  BY <1>2, <1>5, <1>6, <1>7 DEF DecodeIntrusion

\* A flag survives its byte.
LEMMA BitRoundTrip ==
  ASSUME NEW flag \in BOOLEAN
  PROVE  (Bit(flag) # 0) = flag
  BY DEF Bit

LEMMA PanelAuthRoundTrip ==
  ASSUME NEW req \in BOOLEAN, NEW nonce \in 0 .. BYTE * BYTE - 1
  PROVE  LET m == PanelAuth(req, nonce) IN
         RxAccepts(BridgeBuffer(m)) /\ Decode(BridgeBuffer(m)) = m
<1> DEFINE m == PanelAuth(req, nonce)
           data == FrameData(BridgeBuffer(m))
<1>1. m.msg_id = "PANEL_AUTH_CMD" /\ m.request = req /\ m.nonce = nonce
  BY DEF PanelAuth
<1>2. /\ RxAccepts(BridgeBuffer(m)) /\ BridgeBuffer(m).id = "PANEL_AUTH_CMD"
      /\ \A i \in 1 .. 8 : data[i] = Payload(m)[i]
  BY <1>1, RxIdsAre, BridgeBufferArrives
<1>3. Payload(m) = PanelPayload(m)
  BY <1>1 DEF Payload
<1>4. /\ PanelPayload(m)[1] = Bit(req)
      /\ PanelPayload(m)[3] = U16Bytes(nonce)[1]
      /\ PanelPayload(m)[4] = U16Bytes(nonce)[2]
  BY <1>1 DEF PanelPayload, U16Bytes, Zeros
<1>5. data[1] = Bit(req) /\ U16(data, 3) = nonce
  BY <1>2, <1>3, <1>4, ReadWord
<1>6. Decode(BridgeBuffer(m)) = DecodePanelAuth(data)
  BY <1>2 DEF Decode
<1>7. (data[1] # 0) = req
  BY <1>5, BitRoundTrip
<1>8. QED
  BY <1>2, <1>5, <1>6, <1>7, Zenon DEF DecodePanelAuth

LEMMA PanelBlockRoundTrip ==
  ASSUME NEW req \in BOOLEAN, NEW nonce \in 0 .. BYTE * BYTE - 1
  PROVE  LET m == PanelBlock(req, nonce) IN
         RxAccepts(BridgeBuffer(m)) /\ Decode(BridgeBuffer(m)) = m
<1> DEFINE m == PanelBlock(req, nonce)
           data == FrameData(BridgeBuffer(m))
<1>1. m.msg_id = "PANEL_BLOCK_CMD" /\ m.request = req /\ m.nonce = nonce
  BY DEF PanelBlock
<1>2. /\ RxAccepts(BridgeBuffer(m)) /\ BridgeBuffer(m).id = "PANEL_BLOCK_CMD"
      /\ \A i \in 1 .. 8 : data[i] = Payload(m)[i]
  BY <1>1, RxIdsAre, BridgeBufferArrives
<1>3. Payload(m) = PanelPayload(m)
  BY <1>1 DEF Payload
<1>4. /\ PanelPayload(m)[1] = Bit(req)
      /\ PanelPayload(m)[3] = U16Bytes(nonce)[1]
      /\ PanelPayload(m)[4] = U16Bytes(nonce)[2]
  BY <1>1 DEF PanelPayload, U16Bytes, Zeros
<1>5. data[1] = Bit(req) /\ U16(data, 3) = nonce
  BY <1>2, <1>3, <1>4, ReadWord
<1>6. Decode(BridgeBuffer(m)) = DecodePanelBlock(data)
  BY <1>2 DEF Decode
<1>7. (data[1] # 0) = req
  BY <1>5, BitRoundTrip
<1>8. QED
  BY <1>2, <1>5, <1>6, <1>7, Zenon DEF DecodePanelBlock

LEMMA PanelCancelRoundTrip ==
  ASSUME NEW req \in BOOLEAN
  PROVE  LET m == PanelCancel(req) IN
         RxAccepts(BridgeBuffer(m)) /\ Decode(BridgeBuffer(m)) = m
<1> DEFINE m == PanelCancel(req)
           data == FrameData(BridgeBuffer(m))
<1>1. m.msg_id = "PANEL_CANCEL_CMD" /\ m.request = req
  BY DEF PanelCancel
<1>2. /\ RxAccepts(BridgeBuffer(m)) /\ BridgeBuffer(m).id = "PANEL_CANCEL_CMD"
      /\ \A i \in 1 .. 8 : data[i] = Payload(m)[i]
  BY <1>1, RxIdsAre, BridgeBufferArrives
<1>3. Payload(m) = CancelPayload(m)
  BY <1>1 DEF Payload
<1>4. CancelPayload(m)[1] = Bit(req)
  BY <1>1 DEF CancelPayload, U16Bytes, Zeros
<1>5. (data[1] # 0) = req
  BY <1>2, <1>3, <1>4, BitRoundTrip
<1>6. Decode(BridgeBuffer(m)) = DecodePanelCancel(data)
  BY <1>2 DEF Decode
<1>7. QED
  BY <1>2, <1>5, <1>6, Zenon DEF DecodePanelCancel

\* Whatever the simulator means to send arrives as it was meant.
LEMMA MeantArrives ==
  ASSUME NEW m \in Meant
  PROVE  RxAccepts(BridgeBuffer(m)) /\ Decode(BridgeBuffer(m)) = m
<1>1. m.msg_id \in RxIds
  BY MeantAssumption
<1>2. CASE m.msg_id = "REB_CMD"
  BY <1>2, MeantAssumption, RebCmdRoundTrip
<1>3. CASE m.msg_id = "TCU_TO_REB"
  <2>1. {"ACK", "NACK", "FAIL"} \subseteq DOMAIN TcuCodes
    BY DEF TcuCodes
  <2>2. QED
    BY <1>3, <2>1, MeantAssumption, TcuRoundTrip
<1>4. CASE m.msg_id = "VEHICLE_STATE"
  BY <1>4, MeantAssumption, VehicleRoundTrip
<1>5. CASE m.msg_id = "BCM_INTRUSION_STATUS"
  BY <1>5, MeantAssumption, IntrusionRoundTrip
<1>6. CASE m.msg_id = "PANEL_AUTH_CMD"
  BY <1>6, MeantAssumption, PanelAuthRoundTrip
<1>7. CASE m.msg_id = "PANEL_BLOCK_CMD"
  BY <1>7, MeantAssumption, PanelBlockRoundTrip
<1>8. CASE m.msg_id = "PANEL_CANCEL_CMD"
  BY <1>8, MeantAssumption, PanelCancelRoundTrip
<1>9. QED
  BY <1>1, <1>2, <1>3, <1>4, <1>5, <1>6, <1>7, <1>8, RxIdsAre

\* So does a tick, up to the end of the dashboard's clock.
LEMMA TickArrives ==
  ASSUME now_ms \in START_MS .. MaxClock, NEW delta \in TickDeltas,
         now_ms + delta <= MaxClock
  PROVE  /\ RxAccepts(BridgeBuffer(TickMessage(delta)))
         /\ Decode(BridgeBuffer(TickMessage(delta))) = TickMessage(delta)
<1>1. now_ms + delta \in 0 .. BYTE * BYTE * BYTE * BYTE - 1
  <2>1. /\ now_ms \in Nat /\ delta \in Nat /\ MaxClock \in Nat
        /\ MILLIS_MODULUS \in Nat /\ BYTE \in Nat
    BY CanAssumption, ModuliAssumption
  <2> DEFINE all == BYTE * BYTE * BYTE * BYTE
  <2>2. all \in Int
    BY <2>1
  <2>3. MaxClock < MILLIS_MODULUS /\ MILLIS_MODULUS <= all
    BY CanAssumption
  <2> HIDE DEF all
  <2>4. now_ms + delta \in 0 .. all - 1
    BY <2>1, <2>2, <2>3
  <2>5. QED
    BY <2>4 DEF all
<1>2. "RETRY" \in DOMAIN TcuCodes
  BY DEF TcuCodes
<1>3. QED
  BY <1>1, <1>2, TcuRoundTrip DEF TickMessage
--------------------------------------------------------------------------------
(* The answer: every frame can be encoded, is forwarded, and says what was meant *)

\* The three frames of an answer, and nothing else, are sent.
LEMMA AnswerSent ==
  ASSUME NEW answer \in Answered
  PROVE  LET S  == StatusFrame(answer.context, answer.outputs)
             D  == DerateFrame(answer.outputs)
             P  == PreventStartFrame(answer.context, answer.outputs)
             tx == OutputsToTx(answer.context, answer.outputs)
         IN /\ SentOf(tx) = {S, D, P}
            /\ Cardinality(SentOf(tx)) = Len(tx)
            /\ S.msg_id = "REB_STATUS" /\ D.msg_id = "REB_DERATE_CMD"
            /\ P.msg_id = "REB_PREVENT_START"
<1> DEFINE S  == StatusFrame(answer.context, answer.outputs)
           D  == DerateFrame(answer.outputs)
           P  == PreventStartFrame(answer.context, answer.outputs)
           tx == <<S, D, P>>
<1>1. S.msg_id = "REB_STATUS" /\ D.msg_id = "REB_DERATE_CMD"
        /\ P.msg_id = "REB_PREVENT_START"
  BY DEF StatusFrame, DerateFrame, PreventStartFrame
<1>2. OutputsToTx(answer.context, answer.outputs) = tx
  BY DEF OutputsToTx
<1>3. D.derate_pct <= 100
  BY AnsweredAssumption DEF DerateFrame, REB_DERATE_MAX_PERCENT
<1>4. InTxRange(S) /\ InTxRange(D) /\ InTxRange(P)
  BY <1>1, <1>3 DEF InTxRange
<1> HIDE DEF S, D, P
<1>5. /\ DOMAIN tx = 1 .. 3 /\ Len(tx) = 3
      /\ tx[1] = S /\ tx[2] = D /\ tx[3] = P
  OBVIOUS
<1> HIDE DEF tx
<1>6. \A k \in DOMAIN tx : \A j \in 1 .. k : InTxRange(tx[j])
  <2>1. ASSUME NEW j \in 1 .. 3 PROVE InTxRange(tx[j])
    BY <1>4, <1>5
  <2>2. QED
    BY <1>5, <2>1
<1>7. {k \in DOMAIN tx : \A j \in 1 .. k : InTxRange(tx[j])} = 1 .. 3
  BY <1>5, <1>6
<1>8. SentOf(tx) = {S, D, P}
  <2>1. SentOf(tx) = {tx[i] : i \in 1 .. 3}
    BY <1>7 DEF SentOf
  <2>2. QED
    BY <1>5, <2>1
<1>9. Cardinality({S, D, P}) = 3
  <2>1. S # D /\ S # P /\ D # P
    BY <1>1
  <2>2. IsFiniteSet({S}) /\ Cardinality({S}) = 1
    BY FS_Singleton
  <2>3. IsFiniteSet({S} \cup {D}) /\ Cardinality({S} \cup {D}) = 2
    BY <2>1, <2>2, FS_AddElement
  <2>4. Cardinality(({S} \cup {D}) \cup {P}) = 3
    BY <2>1, <2>3, FS_AddElement
  <2>5. ({S} \cup {D}) \cup {P} = {S, D, P}
    OBVIOUS
  <2>6. QED
    BY <2>4, <2>5
<1>10. QED
  BY <1>1, <1>2, <1>5, <1>8, <1>9 DEF S, D, P

\* A frame built by can_tx passes the bridge, and its first data byte is the
\* first byte its encoder wrote.
LEMMA TxBufferForwarded ==
  ASSUME NEW tx, tx.msg_id \in TxIds
  PROVE  /\ BridgeForwards(TxBuffer(tx))
         /\ FrameData(TxBuffer(tx))[1] = Encode(tx)[1]
<1>1. tx.msg_id \in MsgIds \ RxIds
  BY RxIdsAre DEF TxIds
<1>2. /\ TxBuffer(tx).id = tx.msg_id /\ TxBuffer(tx).version = 1
      /\ TxBuffer(tx).id_type = "STANDARD" /\ TxBuffer(tx).frame_type = "DATA"
      /\ TxBuffer(tx).dlc = 8 /\ TxBuffer(tx).data = Encode(tx)
  BY DEF TxBuffer, DLC
<1>3. QED
  BY <1>1, <1>2 DEF BridgeForwards, FrameData

\* What the two ECUs read from the frames of one answer.
LEMMA AnswerHeard ==
  ASSUME NEW answer \in Answered
  PROVE  LET sent == SentOf(OutputsToTx(answer.context, answer.outputs)) IN
         /\ {StarterLocked(data) : data \in Heard(sent, "REB_PREVENT_START")}
              = {answer.outputs.starter_lock}
         /\ {PowerFactor(data) : data \in Heard(sent, "REB_DERATE_CMD")}
              = {100 - answer.outputs.derate_percent}
<1> DEFINE S  == StatusFrame(answer.context, answer.outputs)
           D  == DerateFrame(answer.outputs)
           P  == PreventStartFrame(answer.context, answer.outputs)
           sent == SentOf(OutputsToTx(answer.context, answer.outputs))
<1>1. /\ sent = {S, D, P}
      /\ S.msg_id = "REB_STATUS" /\ D.msg_id = "REB_DERATE_CMD"
      /\ P.msg_id = "REB_PREVENT_START"
  BY AnswerSent
<1>2. Encode(D)[1] = answer.outputs.derate_percent
  <2>1. Encode(D) = EncodeDerate(D)
    BY <1>1 DEF Encode
  <2>2. D.derate_pct = answer.outputs.derate_percent
    BY DEF DerateFrame
  <2>3. EncodeDerate(D)[1] = D.derate_pct
    BY DEF EncodeDerate, Zeros
  <2>4. QED
    BY <2>1, <2>2, <2>3
<1>3. (Encode(P)[1] = 1) = answer.outputs.starter_lock
  <2>1. Encode(P) = EncodePreventStart(P)
    BY <1>1 DEF Encode
  <2>2. P.prevent_start = IF answer.outputs.starter_lock THEN "BLOCK" ELSE "ALLOW"
    BY DEF PreventStartFrame
  <2>3. EncodePreventStart(P)[1] = Bit(P.prevent_start = "BLOCK")
    BY DEF EncodePreventStart, Zeros
  <2>4. answer.outputs.starter_lock \in BOOLEAN
    BY AnsweredAssumption
  <2>5. QED
    BY <2>1, <2>2, <2>3, <2>4 DEF Bit
<1> HIDE DEF S, D, P, sent
<1>4. /\ BridgeForwards(TxBuffer(D)) /\ FrameData(TxBuffer(D))[1] = Encode(D)[1]
      /\ BridgeForwards(TxBuffer(P)) /\ FrameData(TxBuffer(P))[1] = Encode(P)[1]
  BY <1>1, TxBufferForwarded DEF TxIds
<1>5. Heard(sent, "REB_PREVENT_START") = {FrameData(TxBuffer(P))}
  <2>1. {t \in sent : t.msg_id = "REB_PREVENT_START" /\ BridgeForwards(TxBuffer(t))} = {P}
    BY <1>1, <1>4
  <2>2. QED
    BY <2>1 DEF Heard
<1>6. Heard(sent, "REB_DERATE_CMD") = {FrameData(TxBuffer(D))}
  <2>1. {t \in sent : t.msg_id = "REB_DERATE_CMD" /\ BridgeForwards(TxBuffer(t))} = {D}
    BY <1>1, <1>4
  <2>2. QED
    BY <2>1 DEF Heard
<1>7. StarterLocked(FrameData(TxBuffer(P))) = answer.outputs.starter_lock
  BY <1>3, <1>4 DEF StarterLocked
<1>8. PowerFactor(FrameData(TxBuffer(D))) = 100 - answer.outputs.derate_percent
  BY <1>2, <1>4 DEF PowerFactor
<1>9. {StarterLocked(data) : data \in Heard(sent, "REB_PREVENT_START")}
        = {answer.outputs.starter_lock}
  BY <1>5, <1>7
<1>10. {PowerFactor(data) : data \in Heard(sent, "REB_DERATE_CMD")}
         = {100 - answer.outputs.derate_percent}
  BY <1>6, <1>8
<1>11. QED
  BY <1>9, <1>10, Zenon DEF sent
--------------------------------------------------------------------------------
(* The inductive invariant *)

\* What the monitor remembers of a message is when it came; of the message that
\* moves the clock, the time before it did.
MonitorKeepsAge ==
  \A id \in RxIds :
    monitor[id] # Unseen =>
      /\ age[id] <= now_ms - monitor[id]
      /\ id # "TCU_TO_REB" => age[id] = now_ms - monitor[id]

CInv ==
  /\ TypeOK
  /\ EcusObey
  /\ phase # "unsendable"
  /\ DOMAIN monitor = MsgIds
  /\ age \in [RxIds -> Nat]
  /\ MonitorKeepsAge

\* The clock's range is within that of its type.
LEMMA ClockFacts ==
  ASSUME now_ms \in START_MS .. MaxClock
  PROVE  /\ now_ms \in Nat /\ START_MS \in Nat /\ MaxClock \in Nat
         /\ MILLIS_MODULUS \in Nat \ {0} /\ MaxClock < MILLIS_MODULUS
  BY CanAssumption, ModuliAssumption

\* Time since an earlier moment of the dashboard's clock.
LEMMA ElapsedOnClock ==
  ASSUME NEW now \in 0 .. MaxClock, NEW since \in 0 .. now
  PROVE  Elapsed(now, since) = now - since
<1>1. MaxClock \in Nat /\ MILLIS_MODULUS \in Nat \ {0} /\ MaxClock < MILLIS_MODULUS
  BY CanAssumption, ModuliAssumption
<1>2. now - since \in 0 .. MILLIS_MODULUS - 1
  BY <1>1
<1>3. (now - since) % MILLIS_MODULUS = now - since
  BY <1>1, <1>2
<1>4. QED
  BY <1>3 DEF Elapsed

LEMMA CInvInit == Init => CInv
<1> SUFFICES ASSUME Init PROVE CInv
  OBVIOUS
<1>1. START_MS \in START_MS .. MaxClock
  BY CanAssumption
<1>2. "REB_GPS_REQUEST" \in MsgIds /\ RxIds \subseteq MsgIds
  BY RxIdsAre
<1>3. TypeOK
  <2>1. \A id \in MsgIds : monitor[id] = Unseen
    BY DEF Init
  <2>2. power \in 100 - REB_DERATE_MAX_PERCENT .. 100
    BY DEF Init, REB_DERATE_MAX_PERCENT
  <2>3. phase = "serving" /\ now_ms = START_MS /\ engine = FALSE
    BY DEF Init
  <2>4. QED
    BY <1>1, <1>2, <2>1, <2>2, <2>3 DEF TypeOK
<1>4. EcusObey
  <2>1. answered.starter_lock = FALSE /\ engine = FALSE
    BY DEF Init
  <2>2. answered.derate_percent = 0 /\ power = 100
    BY DEF Init
  <2>3. power = 100 - answered.derate_percent
    BY <2>2
  <2>4. QED
    BY <2>1, <2>3 DEF EcusObey
<1>5. QED
  BY <1>2, <1>3, <1>4 DEF Init, CInv, MonitorKeepsAge

\* What Accept makes of one message, whoever sent it: a tick moves the clock to a
\* later time, and nothing else does.
LEMMA AcceptKeeps ==
  ASSUME CInv, NEW buffer, phase = "serving", Accept(buffer),
         Decode(buffer).msg_id \in RxIds,
         LET rx == Decode(buffer) IN
           rx.msg_id = "TCU_TO_REB" /\ rx.tcu_cmd = "RETRY" =>
             rx.echo_timestamp \in now_ms .. MaxClock
  PROVE  CInv' /\ phase' = phase
<1> DEFINE rx   == Decode(buffer)
           tick == rx.msg_id = "TCU_TO_REB" /\ rx.tcu_cmd = "RETRY"
           next == IF tick THEN rx.echo_timestamp ELSE now_ms
<1>1. PICK answer \in Answered :
        LET sent == SentOf(OutputsToTx(answer.context, answer.outputs)) IN
          /\ now_ms' = next
          /\ answered' = answer.outputs
          /\ age' = [id \in RxIds |->
                       IF id = rx.msg_id THEN 0 ELSE age[id] + Elapsed(next, now_ms)]
          /\ monitor' = OnTx(OnRx(monitor, rx.msg_id, now_ms), {m.msg_id : m \in sent}, next)
          /\ engine' = Latch({StarterLocked(data) : data \in Heard(sent, "REB_PREVENT_START")},
                             engine)
          /\ power' = Latch({PowerFactor(data) : data \in Heard(sent, "REB_DERATE_CMD")}, power)
          /\ phase' = IF Cardinality(sent) = Len(OutputsToTx(answer.context, answer.outputs))
                      THEN phase ELSE "unsendable"
  BY DEF Accept
<1> DEFINE sent == SentOf(OutputsToTx(answer.context, answer.outputs))
<1> HIDE DEF rx
<1>a. rx.msg_id \in RxIds
  BY DEF rx
<1>b. now_ms \in START_MS .. MaxClock
  BY DEF CInv, TypeOK
<1>c. now_ms \in Nat /\ START_MS \in Nat /\ MaxClock \in Nat
  BY <1>b, ClockFacts
<1>2. next \in now_ms .. MaxClock /\ (~tick => next = now_ms)
  <2>1. CASE tick
    BY <2>1 DEF rx
  <2>2. CASE ~tick
    BY <1>b, <1>c, <2>2
  <2>3. QED
    BY <2>1, <2>2
<1>n. rx.msg_id # "TCU_TO_REB" => next = now_ms
  OBVIOUS
<1> HIDE DEF next, tick
<1>3. Elapsed(next, now_ms) = next - now_ms
  BY <1>c, <1>2, ElapsedOnClock
<1>4. phase' = phase
  BY <1>1, AnswerSent
<1>5. engine' = answer.outputs.starter_lock
  <2>1. \A v : Latch({v}, engine) = v
    BY DEF Latch
  <2>2. QED
    BY <1>1, <2>1, AnswerHeard
<1>6. power' = 100 - answer.outputs.derate_percent
  <2>1. \A v : Latch({v}, power) = v
    BY DEF Latch
  <2>2. QED
    BY <1>1, <2>1, AnswerHeard
<1>7. EcusObey'
  BY <1>1, <1>5, <1>6 DEF EcusObey
<1>8. /\ engine' \in BOOLEAN
      /\ power' \in 100 - REB_DERATE_MAX_PERCENT .. 100
  BY <1>5, <1>6, AnsweredAssumption DEF REB_DERATE_MAX_PERCENT
<1>9. {m.msg_id : m \in sent} = TxIds
  BY AnswerSent DEF TxIds
<1>10. monitor' = [id \in MsgIds |->
                     IF id \in TxIds THEN next
                     ELSE IF id = rx.msg_id THEN now_ms ELSE monitor[id]]
  <2>1. monitor' = OnTx(OnRx(monitor, rx.msg_id, now_ms), TxIds, next)
    BY <1>1, <1>9
  <2>2. TxIds \ RxIds = TxIds
    BY RxIdsAre DEF TxIds
  <2>3. OnRx(monitor, rx.msg_id, now_ms) = [monitor EXCEPT ![rx.msg_id] = now_ms]
    BY <1>a DEF OnRx
  <2>4. DOMAIN monitor = MsgIds
    BY DEF CInv
  <2>5. ASSUME NEW id \in MsgIds
        PROVE  [monitor EXCEPT ![rx.msg_id] = now_ms][id]
                 = IF id = rx.msg_id THEN now_ms ELSE monitor[id]
    BY <2>4
  <2>6. QED
    BY <2>1, <2>2, <2>3, <2>5 DEF OnTx
<1>11. now_ms' = next /\ next \in START_MS .. MaxClock /\ next \in Nat
  BY <1>1, <1>b, <1>c, <1>2
<1>12. ASSUME NEW id \in MsgIds
       PROVE  monitor'[id] = Unseen \/ monitor'[id] \in START_MS .. now_ms'
  <2>1. monitor[id] = Unseen \/ monitor[id] \in START_MS .. now_ms
    BY DEF CInv, TypeOK
  <2>2. next \in START_MS .. next /\ now_ms \in START_MS .. next
          /\ START_MS .. now_ms \subseteq START_MS .. next
    BY <1>b, <1>c, <1>2, <1>11
  <2>3. monitor'[id] \in {next, now_ms, monitor[id]}
    BY <1>10
  <2>4. QED
    BY <1>11, <2>1, <2>2, <2>3
<1>13. monitor'["REB_GPS_REQUEST"] = Unseen
  <2>1. "REB_GPS_REQUEST" \in MsgIds /\ "REB_GPS_REQUEST" \notin TxIds
          /\ "REB_GPS_REQUEST" # rx.msg_id
    BY <1>a, RxIdsAre DEF TxIds
  <2>2. monitor["REB_GPS_REQUEST"] = Unseen
    BY DEF CInv, TypeOK
  <2>3. QED
    BY <1>10, <2>1, <2>2
<1>14. TypeOK'
  BY <1>4, <1>8, <1>11, <1>12, <1>13 DEF CInv, TypeOK
<1>15. age' \in [RxIds -> Nat]
  <2>1. next - now_ms \in Nat
    BY <1>c, <1>2
  <2>2. \A id \in RxIds : age[id] \in Nat
    BY DEF CInv
  <2>3. \A id \in RxIds :
          (IF id = rx.msg_id THEN 0 ELSE age[id] + Elapsed(next, now_ms)) \in Nat
    BY <1>3, <2>1, <2>2
  <2>4. QED
    BY <1>1, <2>3
<1>16. MonitorKeepsAge'
  <2> SUFFICES ASSUME NEW id \in RxIds, monitor'[id] # Unseen
               PROVE  /\ age'[id] <= next - monitor'[id]
                      /\ id # "TCU_TO_REB" => age'[id] = next - monitor'[id]
    BY <1>11 DEF MonitorKeepsAge
  <2>1. id \in MsgIds /\ id \notin TxIds
    BY RxIdsAre DEF TxIds
  <2>2. CASE id = rx.msg_id
    <3>1. monitor'[id] = now_ms /\ age'[id] = 0
      BY <1>1, <1>10, <2>1, <2>2
    <3>2. id # "TCU_TO_REB" => next = now_ms
      BY <1>n, <2>2
    <3>3. 0 <= next - now_ms /\ (next = now_ms => 0 = next - now_ms)
      BY <1>c, <1>2
    <3>4. QED
      BY <3>1, <3>2, <3>3
  <2>3. CASE id # rx.msg_id
    <3>1. monitor'[id] = monitor[id] /\ age'[id] = age[id] + (next - now_ms)
      BY <1>1, <1>3, <1>10, <2>1, <2>3
    <3>2. /\ age[id] <= now_ms - monitor[id]
          /\ id # "TCU_TO_REB" => age[id] = now_ms - monitor[id]
      BY <3>1 DEF CInv, MonitorKeepsAge
    <3>3. monitor[id] \in Int /\ age[id] \in Int /\ next \in Int /\ now_ms \in Int
      <4>1. monitor[id] \in START_MS .. now_ms
        BY <2>1, <3>1 DEF CInv, TypeOK
      <4>2. age[id] \in Nat
        BY DEF CInv
      <4>3. QED
        BY <1>c, <1>11, <4>1, <4>2
    <3>4. QED
      BY <3>1, <3>2, <3>3
  <2>4. QED
    BY <2>2, <2>3
<1>17. DOMAIN monitor' = MsgIds
  BY <1>10
<1>18. QED
  BY <1>4, <1>7, <1>14, <1>15, <1>16, <1>17 DEF CInv
--------------------------------------------------------------------------------
(* The three ways a frame reaches the server *)

\* A frame of the simulator, a tick among them, is never refused.
LEMMA SimulatorStep ==
  ASSUME CInv, Simulator \/ Tick
  PROVE  CInv' /\ phase' = "serving"
<1>1. CASE Simulator
  <2>1. PICK m \in Meant : Process(BridgeBuffer(m))
    BY <1>1 DEF Simulator
  <2>2. RxAccepts(BridgeBuffer(m)) /\ Decode(BridgeBuffer(m)) = m
    BY MeantArrives
  <2>3. phase = "serving" /\ Accept(BridgeBuffer(m))
    BY <2>1, <2>2 DEF Process
  <2>4. m.msg_id \in RxIds /\ (m.msg_id = "TCU_TO_REB" => m.tcu_cmd # "RETRY")
    BY MeantAssumption
  <2>5. QED
    BY <2>2, <2>3, <2>4, AcceptKeeps
<1>2. CASE Tick
  <2>1. PICK delta \in TickDeltas :
          now_ms + delta <= MaxClock /\ Process(BridgeBuffer(TickMessage(delta)))
    BY <1>2 DEF Tick
  <2>2. now_ms \in START_MS .. MaxClock
    BY DEF CInv, TypeOK
  <2>3. /\ RxAccepts(BridgeBuffer(TickMessage(delta)))
        /\ Decode(BridgeBuffer(TickMessage(delta))) = TickMessage(delta)
    BY <2>1, <2>2, TickArrives
  <2>4. phase = "serving" /\ Accept(BridgeBuffer(TickMessage(delta)))
    BY <2>1, <2>3 DEF Process
  <2>5. /\ TickMessage(delta).msg_id = "TCU_TO_REB"
        /\ TickMessage(delta).echo_timestamp = now_ms + delta
    BY DEF TickMessage, TcuToReb
  <2>6. now_ms + delta \in now_ms .. MaxClock
    BY <2>1, <2>2, ClockFacts, CanAssumption
  <2>7. "TCU_TO_REB" \in RxIds
    BY RxIdsAre
  <2>8. QED
    BY <2>3, <2>4, <2>5, <2>6, <2>7, AcceptKeeps
<1>3. QED
  BY <1>1, <1>2

\* The decoder keeps the identifier of the frame.
LEMMA DecodeId ==
  ASSUME NEW buffer, buffer.id \in RxIds
  PROVE  Decode(buffer).msg_id = buffer.id
<1> DEFINE data == FrameData(buffer)
<1>1. /\ DecodeRebCmd(data).msg_id = "REB_CMD"
      /\ DecodeTcuToReb(data).msg_id = "TCU_TO_REB"
      /\ DecodeVehicleState(data).msg_id = "VEHICLE_STATE"
      /\ DecodeIntrusion(data).msg_id = "BCM_INTRUSION_STATUS"
      /\ DecodePanelAuth(data).msg_id = "PANEL_AUTH_CMD"
      /\ DecodePanelCancel(data).msg_id = "PANEL_CANCEL_CMD"
      /\ DecodePanelBlock(data).msg_id = "PANEL_BLOCK_CMD"
  BY DEF DecodeRebCmd, DecodeTcuToReb, DecodeVehicleState, DecodeIntrusion,
         DecodePanelAuth, DecodePanelCancel, DecodePanelBlock, RebCmd, TcuToReb,
         VehicleState, BcmIntrusion, PanelAuth, PanelCancel, PanelBlock
<1>2. QED
  BY <1>1, RxIdsAre DEF Decode

\* Another client's frame is handled like any other, or ends the loop.
LEMMA OtherClientStep ==
  ASSUME CInv, NEW buffer \in OtherFrames, Process(buffer)
  PROVE  /\ CInv'
         /\ RxAccepts(buffer) => phase' = "serving"
         /\ ~RxAccepts(buffer) => phase' = "rejected"
<1>1. CASE RxAccepts(buffer)
  <2>1. phase = "serving" /\ Accept(buffer) /\ buffer.id \in RxIds
    BY <1>1 DEF Process, RxAccepts
  <2>2. Decode(buffer).msg_id = buffer.id
    BY <2>1, DecodeId
  <2>3. buffer.id = "TCU_TO_REB" => Decode(buffer).tcu_cmd # "RETRY"
    BY <1>1, OtherFramesAssumption
  <2>4. QED
    BY <1>1, <2>1, <2>2, <2>3, AcceptKeeps
<1>2. CASE ~RxAccepts(buffer)
  BY <1>2 DEF Process, Reject, CInv, TypeOK, EcusObey, MonitorKeepsAge
<1>3. QED
  BY <1>1, <1>2

LEMMA CInvStep ==
  ASSUME CInv, [Next]_vars
  PROVE  CInv'
<1>1. CASE Simulator \/ Tick
  BY <1>1, SimulatorStep
<1>2. CASE OtherClient
  BY <1>2, OtherClientStep DEF OtherClient
<1>3. CASE UNCHANGED vars
  BY <1>3 DEF vars, CInv, TypeOK, EcusObey, MonitorKeepsAge
<1>4. QED
  BY <1>1, <1>2, <1>3 DEF Next

\* The inductive invariant holds in every reachable state.
LEMMA CInvAlways == Spec => []CInv
  BY CInvInit, CInvStep, PTL DEF Spec

--------------------------------------------------------------------------------
(* The results *)

\* The clock, the monitor's entries and what the ECUs latch keep their ranges.
THEOREM TypeCorrect == Spec => []TypeOK
<1>1. CInv => TypeOK
  BY DEF CInv
<1>2. QED
  BY <1>1, CInvAlways, PTL

\* For every size of a byte and every number that fits its field, the sender's
\* layout, the bridge's frame, the transport and the decoder compose to the
\* identity, and no such frame is refused.
THEOREM RoundTrip == Spec => []MeaningPreserved
<1>1. CInv => MeaningPreserved
  BY MeantArrives, TickArrives DEF CInv, TypeOK, MeaningPreserved
<1>2. QED
  BY <1>1, CInvAlways, PTL

\* The loop ends on another client's frame only, never on a message of the
\* simulator and never because an answer cannot be encoded.
THEOREM OnlyStrangersEndTheLoop == Spec => OnlyStrangersRefused
<1>1. CInv /\ [Next]_vars =>
        [phase' # "serving" /\ phase = "serving" =>
           \E buffer \in OtherFrames : ~RxAccepts(buffer) /\ phase' = "rejected"]_vars
  <2> SUFFICES ASSUME CInv, Next, phase' # "serving"
               PROVE  \E buffer \in OtherFrames :
                        ~RxAccepts(buffer) /\ phase' = "rejected"
    OBVIOUS
  <2>1. PICK buffer \in OtherFrames : Process(buffer)
    BY SimulatorStep DEF Next, OtherClient
  <2>2. QED
    BY <2>1, OtherClientStep
<1>2. QED
  BY <1>1, CInvAlways, PTL DEF Spec, OnlyStrangersRefused

\* The starter and the fuel ECU hold what the core's last outputs say.
THEOREM EcusFollow == Spec => []EcusObey
<1>1. CInv => EcusObey
  BY DEF CInv
<1>2. QED
  BY <1>1, CInvAlways, PTL

\* What the monitor computes from two readings of the clock, in unsigned
\* arithmetic, is the time since the message was recorded.
LEMMA MonitorElapsed ==
  ASSUME CInv, NEW id \in RxIds, monitor[id] # Unseen
  PROVE  /\ Elapsed(now_ms, monitor[id]) = now_ms - monitor[id]
         /\ now_ms - monitor[id] \in Int /\ age[id] \in Int
<1>1. id \in MsgIds
  BY RxIdsAre
<1>2. now_ms \in START_MS .. MaxClock /\ monitor[id] \in START_MS .. now_ms
  BY <1>1 DEF CInv, TypeOK
<1>3. now_ms \in 0 .. MaxClock /\ monitor[id] \in 0 .. now_ms
  BY <1>2, ClockFacts
<1>4. age[id] \in Nat
  BY DEF CInv
<1>5. QED
  BY <1>3, <1>4, ElapsedOnClock, ClockFacts, <1>2

\* The timeouts of the table are numbers.
LEMMA Timeouts == \A id \in RxIds : MsgTable[id].timeout_ms \in Nat
  BY RxIdsAre DEF MsgTable, Desc

\* A message the monitor calls fresh did arrive within its timeout.
THEOREM FreshnessIsReal == Spec => []FreshIsRecent
<1>1. ASSUME CInv, NEW id \in RxIds, MessageState(id) = "FRESH"
      PROVE  age[id] <= MsgTable[id].timeout_ms
  <2>1. monitor[id] # Unseen /\ ~(Elapsed(now_ms, monitor[id]) > MsgTable[id].timeout_ms)
    BY <1>1 DEF MessageState
  <2>2. age[id] <= now_ms - monitor[id]
    BY <2>1, <1>1 DEF CInv, MonitorKeepsAge
  <2>3. QED
    BY <1>1, <2>1, <2>2, MonitorElapsed, Timeouts
<1>2. CInv => FreshIsRecent
  BY <1>1 DEF FreshIsRecent, AllMandatoryHealthy, Healthy, Mandatory
<1>3. QED
  BY <1>2, CInvAlways, PTL

\* And what arrived within its timeout is called fresh, ticks excepted.
THEOREM RecentIsSeen == Spec => []RecentIsFresh
<1>1. ASSUME CInv, NEW id \in RxIds \ {"TCU_TO_REB"}, monitor[id] # Unseen,
             age[id] <= MsgTable[id].timeout_ms
      PROVE  MessageState(id) = "FRESH"
  <2>1. age[id] = now_ms - monitor[id]
    BY <1>1 DEF CInv, MonitorKeepsAge
  <2>2. Elapsed(now_ms, monitor[id]) = age[id] /\ age[id] \in Int
    BY <1>1, <2>1, MonitorElapsed
  <2>3. ~(Elapsed(now_ms, monitor[id]) > MsgTable[id].timeout_ms)
    BY <1>1, <2>2, Timeouts
  <2>4. QED
    BY <1>1, <2>3 DEF MessageState
<1>2. CInv => RecentIsFresh
  BY <1>1 DEF RecentIsFresh
<1>3. QED
  BY <1>2, CInvAlways, PTL
===============================================================================
