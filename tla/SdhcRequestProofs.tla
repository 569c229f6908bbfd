------------------------- MODULE SdhcRequestProofs -------------------------
(***************************************************************************)
(* What the pure functions of SdhcRequest return: their types, and how a   *)
(* request is laid out in whole blocks and trailing bytes.                 *)
(***************************************************************************)
EXTENDS SdhcRequest, TLAPS

\* A USHORT is a natural number below UShortRange, and keeps the small ones.
LEMMA UShortType ==
    ASSUME NEW n \in Int
    PROVE  /\ UShort(n) \in Nat
           /\ UShort(n) < UShortRange
BY UShortRangeAssumption DEF UShort, MaxBlockSize

LEMMA UShortKeeps ==
    ASSUME NEW n \in Nat, n < UShortRange
    PROVE  UShort(n) = n
BY UShortRangeAssumption DEF UShort, MaxBlockSize

\* Every block size the driver accepts is a positive USHORT.
LEMMA BlockSizeFits ==
    ASSUME NEW size \in 1 .. MaxBlockSize
    PROVE  size \in Nat \ {0} /\ size < UShortRange
BY UShortRangeAssumption DEF MaxBlockSize

\* Integer division, as SdhcSetTransferMode and SdhcPrepareInternalRequest use it.
LEMMA Division ==
    ASSUME NEW n \in Nat, NEW size \in Nat \ {0}
    PROVE  /\ n \div size \in Nat
           /\ n % size \in 0 .. size - 1
           /\ n = size * (n \div size) + (n % size)
           /\ n \div size = 0 => n < size
           /\ n < size => n \div size = 0
OBVIOUS

\* The fields of the CMD53 argument hold natural numbers.
LEMMA FieldTypes ==
    ASSUME NEW n \in Nat
    PROVE  /\ CountField(n) \in Nat /\ AddressField(n) \in Nat
           /\ CountField(n) < 512
           /\ n < 512 => CountField(n) = n
           /\ n = 512 => CountField(n) = 0
<1>1. CountField(n) \in Nat /\ CountField(n) < 512 /\ (n < 512 => CountField(n) = n)
  BY DEF CountField
<1>2. AddressField(n) \in Nat
  BY DEF AddressField
<1>3. n = 512 => CountField(n) = 0
  BY DEF CountField
<1> QED BY <1>1, <1>2, <1>3

\* SdhcSetTransferMode keeps a request a request.
LEMMA SizedType ==
    ASSUME NEW r \in SDPORT_REQUEST, r.BlockSize # 0
    PROVE  SizeInBlocks(r) \in SDPORT_REQUEST
<1> DEFINE count == UShort(r.Length \div r.BlockSize)
<1>1. r.Length \in Nat /\ r.BlockSize \in Nat \ {0}
  BY DEF SDPORT_REQUEST
<1>2. count \in Nat /\ UShort(r.Length) \in Nat
  <2> DEFINE n == r.Length
             size == r.BlockSize
  <2>1. n \in Nat /\ size \in Nat \ {0}
    BY <1>1
  <2> HIDE DEF n, size
  <2>2. n \div size \in Int
    BY <2>1
  <2>3. UShort(n \div size) \in Nat /\ UShort(n) \in Nat
    BY <2>1, <2>2, UShortType
  <2> QED
    BY <2>3 DEF n, size
<1>3. [r EXCEPT !.BlockCount = count] \in SDPORT_REQUEST
  BY <1>2 DEF SDPORT_REQUEST
<1>4. [r EXCEPT !.BlockCount = 1, !.BlockSize = UShort(r.Length)] \in SDPORT_REQUEST
  BY <1>2 DEF SDPORT_REQUEST
<1> QED
  BY <1>3, <1>4 DEF SizeInBlocks

LEMMA ArgumentType ==
    ASSUME NEW r \in SDPORT_REQUEST
    PROVE  SetArgument(r) \in SDPORT_REQUEST
<1>1. r.BlockCount \in Nat /\ r.Length \in Nat
  BY DEF SDPORT_REQUEST
<1>2. CountField(r.BlockCount) \in Nat /\ CountField(r.Length) \in Nat
  BY <1>1, FieldTypes
<1> QED BY <1>2 DEF SetArgument, SDPORT_REQUEST

\* What a data command sdport may issue has for length and block size.
LEMMA FreshType ==
    ASSUME NEW c \in FreshRequest, c.Data
    PROVE  /\ c \in SDPORT_REQUEST
           /\ c.BlockSize \in Nat \ {0} /\ c.BlockSize < UShortRange
           /\ c.Length \in Nat /\ c.Length > 0
           /\ c.DataBuffer = 0
           /\ c.Length \div c.BlockSize < UShortRange
<1>1. c \in SDPORT_REQUEST /\ c.BlockSize \in 1 .. MaxBlockSize /\ c.DataBuffer = 0
  BY DEF FreshRequest
<1>2. c.Data => c.Length > 0
  BY DEF FreshRequest
<1>3. c.Length > 0
  BY <1>2, Zenon
<1>4. c.Length \div c.BlockSize < UShortRange
  BY DEF FreshRequest
<1>5. c.Length \in Nat
  BY <1>1 DEF SDPORT_REQUEST
<1>6. c.BlockSize \in Nat \ {0} /\ c.BlockSize < UShortRange
  BY <1>1, BlockSizeFits
<1> QED
  BY <1>1, <1>3, <1>4, <1>5, <1>6, Zenon

LEMMA FreshDivision ==
    ASSUME NEW c \in FreshRequest, c.Data
    PROVE  LET whole == c.Length \div c.BlockSize
               rest  == c.Length % c.BlockSize
           IN  /\ whole \in Nat
               /\ rest \in 0 .. c.BlockSize - 1
               /\ c.BlockSize * whole \in Nat
               /\ c.Length = c.BlockSize * whole + rest
               /\ whole = 0 => c.Length < c.BlockSize
<1> DEFINE n == c.Length
           size == c.BlockSize
<1>1. n \in Nat /\ size \in Nat \ {0}
  BY FreshType
<1> HIDE DEF n, size
<1>2. n \div size \in Nat
  BY <1>1
<1>3. size * (n \div size) \in Nat
  BY <1>1, <1>2
<1>4. /\ n % size \in 0 .. size - 1
      /\ n = size * (n \div size) + (n % size)
      /\ n \div size = 0 => n < size
  BY <1>1, Division
<1> QED
  BY <1>2, <1>3, <1>4 DEF n, size

(***************************************************************************)
(* What SdhcSetTransferMode makes of a request sdport may issue: one block *)
(* of the whole length, or as many whole blocks as fit.                    *)
(***************************************************************************)
LEMMA SizedFresh ==
    ASSUME NEW c \in FreshRequest, c.Data
    PROVE  LET s == SizeInBlocks(c) IN
           /\ s \in SDPORT_REQUEST
           /\ s.Length = c.Length /\ s.Index = c.Index /\ s.DataBuffer = 0
           /\ \/ s.BlockCount = 1 /\ s.BlockSize = c.Length /\ c.Length < c.BlockSize
              \/ /\ s.BlockCount = c.Length \div c.BlockSize /\ s.BlockCount > 0
                 /\ s.BlockSize = c.BlockSize
<1> DEFINE whole == c.Length \div c.BlockSize
<1>1. /\ c \in SDPORT_REQUEST /\ c.BlockSize \in Nat \ {0} /\ c.BlockSize < UShortRange
      /\ c.Length \in Nat /\ c.Length > 0 /\ c.DataBuffer = 0
      /\ whole < UShortRange
  BY FreshType
<1>2. whole \in Nat /\ (whole = 0 => c.Length < c.BlockSize)
  BY <1>1, FreshDivision
<1>3. UShort(whole) = whole
  <2> HIDE DEF whole
  <2> QED
    BY <1>1, <1>2, UShortKeeps
<1>4. SizeInBlocks(c) \in SDPORT_REQUEST
  BY <1>1, SizedType
<1>5. CASE whole = 0
  <2>1. UShort(c.Length) = c.Length
    <3> HIDE DEF whole
    <3>1. c.Length < UShortRange
      BY <1>1, <1>2, <1>5, UShortRangeAssumption
    <3> QED
      BY <1>1, <3>1, UShortKeeps
  <2>2. SizeInBlocks(c) = [c EXCEPT !.BlockCount = 1, !.BlockSize = c.Length]
    BY <1>3, <1>5, <2>1 DEF SizeInBlocks
  <2> QED
    BY <1>1, <1>2, <1>4, <1>5, <2>2 DEF SDPORT_REQUEST
<1>6. CASE whole # 0
  <2>1. SizeInBlocks(c) = [c EXCEPT !.BlockCount = whole]
    BY <1>3, <1>6 DEF SizeInBlocks
  <2> QED
    BY <1>1, <1>2, <1>4, <1>6, <2>1 DEF SDPORT_REQUEST
<1> QED
  BY <1>5, <1>6

(***************************************************************************)
(* The whole blocks and the trailing bytes tile the buffer: the internal   *)
(* request starts where the last whole block ends, is shorter than a block *)
(* and not empty, and ends where the data ends; without an internal        *)
(* request a CMD53 is moved by whole blocks exactly.                       *)
(***************************************************************************)
THEOREM TrailingBytesTile ==
    ASSUME NEW c \in FreshRequest, c.Data
    PROVE  LET s == SizeInBlocks(c)
               u == InternalRequest(s)
           IN  /\ HasTrailingBytes(s) =>
                    /\ u \in SDPORT_REQUEST
                    /\ u.DataBuffer = s.BlockCount * s.BlockSize
                    /\ u.DataBuffer + u.Length = c.Length
                    /\ u.Length \in 1 .. s.BlockSize - 1
                    /\ u.BlockCount = 1 /\ u.BlockSize = u.Length
               /\ c.Index = "CMD53" /\ ~HasTrailingBytes(s) =>
                    s.BlockCount * s.BlockSize = c.Length
<1> DEFINE s == SizeInBlocks(c)
           u == InternalRequest(s)
           rest == c.Length % c.BlockSize
           done == c.BlockSize * (c.Length \div c.BlockSize)
<1>1. /\ c.BlockSize \in Nat \ {0} /\ c.BlockSize < UShortRange
      /\ c.Length \in Nat
  BY FreshType
<1>2. /\ s \in SDPORT_REQUEST
      /\ s.Length = c.Length /\ s.Index = c.Index /\ s.DataBuffer = 0
  BY SizedFresh
<1>3. /\ rest \in 0 .. c.BlockSize - 1 /\ c.Length = done + rest
      /\ done \in Nat
  BY FreshDivision
<1>4. CASE s.BlockCount = 1 /\ s.BlockSize = c.Length /\ c.Length < c.BlockSize
  BY <1>1, <1>2, <1>4 DEF HasTrailingBytes
<1>5. CASE /\ s.BlockCount = c.Length \div c.BlockSize /\ s.BlockCount > 0
           /\ s.BlockSize = c.BlockSize
  <2> DEFINE next == IF s.OpCode THEN AddressField(s.Address + done) ELSE s.Address
  <2>1. s.BlockSize * s.BlockCount = done /\ s.BlockCount * s.BlockSize = done
    <3>1. s.BlockCount \in Nat /\ s.BlockSize \in Nat
      BY <1>2 DEF SDPORT_REQUEST
    <3>2. s.BlockCount * s.BlockSize = s.BlockSize * s.BlockCount
      BY <3>1
    <3> QED
      BY <1>5, <3>2
  <2>2. HasTrailingBytes(s) <=> c.Index = "CMD53" /\ rest > 0
    BY <1>2, <1>3, <2>1 DEF HasTrailingBytes
  <2>3. rest \in Nat /\ UShort(rest) = rest
    <3> HIDE DEF rest, done
    <3>1. rest \in Nat /\ rest < UShortRange
      BY <1>1, <1>3, UShortRangeAssumption
    <3> QED
      BY <3>1, UShortKeeps
  <2>4. u = [s EXCEPT !.Length = rest, !.BlockCount = 1, !.BlockSize = rest,
                      !.DataBuffer = @ + done,
                      !.Address = next]
    BY <1>2, <1>5, <2>1, <2>3 DEF InternalRequest
  <2>5. u \in SDPORT_REQUEST
    <3>1. next \in Nat
      <4>1. s.Address \in Nat /\ s.Address + done \in Nat
        BY <1>2, <1>3 DEF SDPORT_REQUEST
      <4> QED BY <4>1, FieldTypes
    <3> HIDE DEF next, rest, done, s, u
    <3>2. s.DataBuffer + done \in Nat
      BY <1>2, <1>3
    <3> QED
      BY <1>2, <2>3, <2>4, <3>1, <3>2 DEF SDPORT_REQUEST
  <2>6. u.Length = rest /\ u.BlockCount = 1 /\ u.BlockSize = rest /\ u.DataBuffer = done
    BY <1>2, <1>3, <2>4 DEF SDPORT_REQUEST
  <2> QED
    BY <1>1, <1>2, <1>3, <1>5, <2>1, <2>2, <2>5, <2>6
<1> QED
  BY <1>4, <1>5, SizedFresh
=============================================================================
