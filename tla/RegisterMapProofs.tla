-------------------------- MODULE RegisterMapProofs --------------------------
(***************************************************************************)
(* Facts about the register arithmetic of the panels, for every integer:   *)
(* what the 32-bit split of write_holding_registers puts on the bus, and   *)
(* that the I/O board's address formula never sends two different board   *)
(* functions, or two slots, to the same register.  TLC cannot reach values *)
(* of 2^32 and above, so these are proved rather than model-checked.       *)
(***************************************************************************)
EXTENDS RegisterMap, Sequences, TLAPS

\* Euclidean division by 2^16: the quotient and remainder recompose v.
LEMMA DivMod16 ==
    ASSUME NEW v \in Int
    PROVE  /\ v = 65536 * (v \div 65536) + (v % 65536)
           /\ v % 65536 \in Word16
           /\ v \div 65536 \in Int
  BY DEF Word16

(***************************************************************************)
(* write_holding_registers sends two 16-bit words for any integer the      *)
(* operator types, negative or huge: the request always encodes.           *)
(***************************************************************************)
THEOREM Encode32Words ==
    ASSUME NEW v \in Int
    PROVE  /\ Encode32(v) \in Seq(Word16)
           /\ Len(Encode32(v)) = 2
<1>1. (v \div 65536) % 65536 \in Word16
  BY DivMod16 DEF Word16
<1>2. v % 65536 \in Word16
  BY DivMod16
<1>. QED  BY <1>1, <1>2 DEF Encode32

(***************************************************************************)
(* The device that decodes [low_word, high_word] reads back the typed     *)
(* value reduced modulo 2^32: write_holding_registers truncates a value of *)
(* 2^32 or more, or a negative one, without an error.                      *)
(***************************************************************************)
THEOREM Encode32Truncates ==
    ASSUME NEW v \in Int
    PROVE  Decode32(Encode32(v)) = v % 4294967296
<1> DEFINE r == v % 65536
           q == v \div 65536
           h == q % 65536
           k == q \div 65536
<1>1. v = 65536 * q + r /\ r \in Word16 /\ q \in Int
  BY DivMod16
<1>2. q = 65536 * k + h /\ h \in Word16 /\ k \in Int
  BY <1>1, DivMod16
<1>3. v = 4294967296 * k + (r + 65536 * h)
  BY <1>1, <1>2
<1>4. 0 <= r + 65536 * h /\ r + 65536 * h <= 4294967295
  BY <1>1, <1>2 DEF Word16
<1>5. v % 4294967296 = r + 65536 * h
  BY <1>2, <1>3, <1>4
<1>6. Decode32(Encode32(v)) = r + 65536 * h
  BY DEF Decode32, Encode32
<1>. QED  BY <1>5, <1>6

\* So a value in the unsigned 32-bit range is sent exactly.
THEOREM Encode32RoundTrip ==
    ASSUME NEW v \in Int, 0 <= v, v <= 4294967295
    PROVE  Decode32(Encode32(v)) = v
<1>1. Decode32(Encode32(v)) = v % 4294967296
  BY Encode32Truncates
<1>. QED  BY <1>1

\* And values 2^32 apart put the same words on the bus.
THEOREM Encode32Wraps ==
    ASSUME NEW v \in Int
    PROVE  Encode32(v + 4294967296) = Encode32(v)
<1>1. (v + 4294967296) % 65536 = v % 65536
  OBVIOUS
<1>2. (v + 4294967296) \div 65536 = (v \div 65536) + 65536
  OBVIOUS
<1>3. ((v \div 65536) + 65536) % 65536 = (v \div 65536) % 65536
  OBVIOUS
<1>. QED  BY <1>1, <1>2, <1>3 DEF Encode32

(***************************************************************************)
(* The I/O board formula START + slot*100 + base + offset names a distinct *)
(* register for every slot and every in-slot offset base + offset between  *)
(* 0 and 99: two handlers that reach the same register use the same slot   *)
(* and the same in-slot offset.  Every listed function (DO 1..8, DI 9..16, *)
(* analog mode 17..20, the four analog tables 37..68) stays below 100.     *)
(***************************************************************************)
THEOREM IoAddressUnique ==
    ASSUME NEW s1 \in Nat, NEW s2 \in Nat, NEW d1 \in Int, NEW d2 \in Int,
           0 <= d1, d1 <= 99, 0 <= d2, d2 <= 99,
           NEW b1 \in Int, NEW o1 \in Int, NEW b2 \in Int, NEW o2 \in Int,
           b1 + o1 = d1, b2 + o2 = d2,
           IoAddress(s1, b1, o1) = IoAddress(s2, b2, o2)
    PROVE  s1 = s2 /\ d1 = d2
<1>1. s1 * 100 + d1 = s2 * 100 + d2
  BY DEF IoAddress, MODBUS_ADDRESS_START, IoSlotStride
<1>2. s1 = s2
  <2>1. SUFFICES ASSUME s1 # s2 PROVE FALSE
    OBVIOUS
  <2>2. CASE s1 < s2
    <3>1. s1 * 100 + 100 <= s2 * 100  BY <2>2
    <3>. QED  BY <1>1, <3>1
  <2>3. CASE s2 < s1
    <3>1. s2 * 100 + 100 <= s1 * 100  BY <2>3
    <3>. QED  BY <1>1, <3>1
  <2>. QED  BY <2>1, <2>2, <2>3
<1>. QED  BY <1>1, <1>2
=============================================================================
