------------------------- MODULE ByteArrangement_proofs -------------------------
(*****************************************************************************)
(* Proofs about the arrangement of sections in a memory image, for every     *)
(* width of offsets and all origins, alignments and sizes, and about the hex *)
(* file that is written of it, for every length of records.                  *)
(*****************************************************************************)
EXTENDS HexFile, Arrangements_proofs

-------------------------------------------------------------------------------
(* The inductive invariant.  What holds whatever the offsets wrap around to  *)
(* (IsProper), and what needs room (IsOrdered, Accounts): the addresses from *)
(* 0 to the origin are taken, the placement lies between the origin and the  *)
(* end of the image, and every section's bytes are entered in the layout.    *)
Section == [fixed : BOOLEAN, at : Value, bytes : Value, address : Value]

IsOrdered(arr) ==
    /\ arr.origin <= arr.placement
    /\ arr.placement <= arr.origin + arr.extent

AccountsFor(arr, section) ==
    /\ \A v \in Value : Occupies(section, v) => v \in Cover(arr.layout)
    /\ ~section.fixed => section.address + section.bytes <= arr.placement
    /\ Designates(arr, section)

Accounts(arr, secs) == \A i \in 1 .. Len(secs) : AccountsFor(arr, secs[i])

IInv ==
    /\ TypeOK
    /\ IsProper(arrangement)
    /\ PlacedAsRequired
    /\ failed \/ tight \/ (IsOrdered(arrangement) /\ Accounts(arrangement, sections))
    /\ SectionsDisjoint
    /\ InOrder

LEMMA RequestType ==
    ASSUME NEW request \in Request
    PROVE  /\ request.fixed \in BOOLEAN /\ request.at \in Value
           /\ request.bytes \in Value /\ request.size \in Value
           /\ request.bytes <= request.size
           /\ ~request.fixed => request.at # 0
           /\ request.at \in Nat /\ request.bytes \in Nat /\ request.size \in Nat
           /\ IsRequest(request)
<1>1. CASE request \in FixedRequest
  <2>1. /\ request.fixed = TRUE /\ request.at \in Origins
        /\ request.bytes \in Sizes /\ request.size = request.bytes
    BY <1>1 DEF FixedRequest
  <2>2. request.at \in Value /\ request.bytes \in Value /\ request.size \in Value
    BY <2>1, InputAssumption
  <2>3. /\ request.at \in Nat /\ request.bytes \in Nat /\ request.size \in Nat
        /\ request.bytes <= request.size
    BY <2>1, <2>2, ModulusNat
  <2> QED
    BY <2>1, <2>2, <2>3 DEF IsRequest
<1>2. CASE request \in OtherRequest
  <2>1. /\ request.fixed = FALSE /\ request.at \in Alignments
        /\ request.bytes \in Sizes /\ request.size \in Sizes
        /\ request.bytes <= request.size
    BY <1>2 DEF OtherRequest
  <2>2. /\ request.at \in Value /\ request.at # 0
        /\ request.bytes \in Value /\ request.size \in Value
    BY <2>1, InputAssumption
  <2>3. request.at \in Nat /\ request.bytes \in Nat /\ request.size \in Nat
    BY <2>2, ModulusNat
  <2> QED
    BY <2>1, <2>2, <2>3 DEF IsRequest
<1> QED
  BY <1>1, <1>2 DEF Request

(* Making the origin of the first section that of the image keeps what is    *)
(* known of the image.                                                       *)
LEMMA RebaseKeeps ==
    ASSUME NEW arr, IsProper(arr), NEW secs \in Seq(Section), NEW request \in Request,
           request.fixed => \A i \in 1 .. Len(secs) : secs[i].fixed
    PROVE  LET based == Rebase(arr, request)
           IN  /\ IsProper(based)
               /\ IsOrdered(arr) => IsOrdered(based)
               /\ Accounts(arr, secs) => Accounts(based, secs)
<1> DEFINE based == Rebase(arr, request)
<1>0. /\ request.at \in 0 .. Modulus - 1 /\ Modulus \in Nat /\ Modulus > 0
      /\ arr \in Arrangement /\ IsRequest(request)
  BY RequestType, ModulusNat DEF IsProper
<1>1. /\ IsProper(based)
      /\ \/ based = arr
         \/ /\ arr.layout = {} /\ request.fixed
            /\ based.origin = request.at /\ based.placement = request.at
            /\ based.extent = arr.extent
  BY <1>0, RebaseProper
<1> HIDE DEF based
<1>2. CASE based # arr
  <2>1. /\ arr.layout = {} /\ request.fixed
        /\ based.origin = request.at
        /\ based.placement = request.at
        /\ based.extent = arr.extent
    BY <1>1, <1>2
  <2>2. IsOrdered(based)
    BY <1>0, <2>1, ModulusNat DEF IsOrdered, Arrangement
  <2>3. ASSUME Accounts(arr, secs), NEW i \in 1 .. Len(secs)
        PROVE  AccountsFor(based, secs[i])
    <3>1. secs[i] \in Section
      BY <2>3
    <3>2. /\ secs[i].address \in Value /\ secs[i].bytes \in Value
          /\ secs[i].fixed
      BY <2>1, <2>3, <3>1 DEF Section
    <3>3. \A v \in Value : ~Occupies(secs[i], v)
      BY <2>1, <2>3 DEF Accounts, AccountsFor, Cover
    <3>4. secs[i].bytes = 0
      BY <3>2, <3>3, ModulusNat DEF Occupies
    <3> QED
      BY <3>2, <3>3, <3>4 DEF AccountsFor, Designates
  <2> QED
    BY <1>1, <2>2, <2>3 DEF Accounts, based
<1>3. CASE based = arr
  BY <1>1, <1>3 DEF based
<1> QED
  BY <1>2, <1>3

-------------------------------------------------------------------------------
(* What Suffices means for the search of NextFit.                            *)
LEMMA SufficesRoom ==
    ASSUME NEW arr \in Arrangement, NEW request \in Request, ~request.fixed,
           Suffices(arr, request)
    PROVE  /\ HasRoom(arr, request.size, request.at)
           /\ arr.origin + arr.extent + request.at + request.size < Modulus
<1>0. /\ request.at \in Nat /\ request.size \in Nat
      /\ Modulus \in Nat /\ Value = 0 .. Modulus - 1
      /\ arr.layout \in SUBSET Interval /\ arr.origin \in Value
      /\ arr.placement \in Value /\ arr.extent \in Value
  BY RequestType, ModulusNat DEF Arrangement
<1>1. /\ \A r \in arr.layout : r.upper + 1 + (request.at + request.size) < Modulus
      /\ arr.placement + (request.at + request.size) < Modulus
      /\ arr.origin + arr.extent + (request.at + request.size) < Modulus
  BY Zenon DEF Suffices
<1>2. ASSUME NEW r \in arr.layout
      PROVE  r.upper + 1 + request.at + request.size < Modulus
  <2>1. r.upper \in Nat
    BY <1>0 DEF Interval
  <2> QED
    BY <1>0, <1>1, <2>1
<1>3. /\ arr.placement + request.at + request.size < Modulus
      /\ arr.origin + arr.extent + request.at + request.size < Modulus
  BY <1>0, <1>1
<1> QED
  BY <1>2, <1>3 DEF HasRoom

(* Without wrapping, a section without origin begins at an aligned address   *)
(* behind the placement, and where its bytes are free.                       *)
LEMMA BeginFits ==
    ASSUME NEW arr, IsProper(arr), IsOrdered(arr),
           NEW request \in Request, ~request.fixed, Suffices(arr, request)
    PROVE  LET begin == Begin(arr, request, request.size)
           IN  /\ begin + request.bytes < Modulus
               /\ arr.placement <= begin
               /\ ~Collides(arr, request, begin)
<1> DEFINE begin == Begin(arr, request, request.size)
<1>0. /\ request.at \in Value \ {0} /\ request.bytes \in Nat /\ request.size \in Value
      /\ request.size \in Nat /\ request.at \in Nat
      /\ request.bytes <= request.size
      /\ Modulus \in Nat /\ Modulus > 0 /\ Value = 0 .. Modulus - 1
  BY RequestType, ModulusNat
<1>1. /\ arr.layout \in SUBSET Interval /\ IsCanonical(arr.layout)
      /\ arr.origin \in Value /\ arr.placement \in Value /\ arr.extent \in Value
  BY DEF IsProper, Arrangement
<1>2. /\ HasRoom(arr, request.size, request.at)
      /\ arr.origin + arr.extent + request.at + request.size < Modulus
  BY SufficesRoom DEF IsProper
<1>3. CASE request.size # 0
  <2>1. begin = NextFit(arr, request.size, request.at)
    BY <1>3 DEF Begin
  <2>2. request.size \in Value \ {0}
    BY <1>0, <1>3
  <2> HIDE DEF begin
  <2>3. /\ begin \in Value /\ begin + request.size < Modulus
        /\ arr.placement <= begin
        /\ \A r \in arr.layout : r.upper < begin \/ begin + request.size <= r.lower
    BY <1>0, <1>1, <1>2, <2>1, <2>2, NextFitFits
  <2>4. begin + request.bytes < Modulus /\ begin \in Nat
    BY <1>0, <2>3
  <2>5. Wrap(begin + request.bytes) = begin + request.bytes
    BY <1>0, <2>4, WrapValue
  <2>6. ASSUME Collides(arr, request, begin) PROVE FALSE
    <3> DEFINE range == [lower |-> begin, upper |-> Wrap(begin + request.bytes) - 1]
    <3>0. Wrap(begin + request.bytes) > begin /\ Overlaps(arr.layout, range)
      BY <2>6, Zenon DEF Collides
    <3>1. begin + request.bytes > begin
      BY <2>5, <3>0
    <3>2. range.lower = begin /\ range.upper = begin + request.bytes - 1
      BY <1>0, <2>4, <2>5
    <3>3. range \in Interval
      BY <1>0, <2>3, <2>4, <2>5, <3>1 DEF Interval
    <3> HIDE DEF range
    <3>4. PICK s \in arr.layout : s.lower <= range.upper /\ range.lower <= s.upper
      BY <1>0, <1>1, <2>4, <3>0, <3>1, <3>2, <3>3, OverlapsMeets, SMTT(30)
    <3>5. s.lower \in Nat /\ s.upper \in Nat
      BY <1>0, <1>1 DEF Interval
    <3>6. s.upper < begin \/ begin + request.size <= s.lower
      BY <2>3
    <3> QED
      BY <1>0, <2>4, <3>2, <3>4, <3>5, <3>6
  <2> QED
    BY <2>3, <2>4, <2>6 DEF begin
<1>4. CASE request.size = 0
  <2>1. request.bytes = 0
    BY <1>0, <1>4
  <2> DEFINE x == arr.origin + arr.extent
  <2>a. x \in Nat /\ x + request.at - 1 < Modulus /\ x < Modulus
    BY <1>0, <1>1, <1>2, SMTT(30)
  <2>2. x \in Nat /\ x + request.at - 1 < Modulus /\ Wrap(x) = x
    <3> HIDE DEF x
    <3> QED
      BY <2>a, WrapValue
  <2>3. begin = Align(x, request.at)
    BY <1>4, <2>2 DEF Begin
  <2>4. /\ Align(x, request.at) \in Value
        /\ x <= Align(x, request.at)
    BY <1>0, <2>2, AlignValue, AlignBounds
  <2>5. arr.placement <= x
    BY DEF IsOrdered
  <2> HIDE DEF x, begin
  <2>6. begin \in Nat /\ begin < Modulus /\ arr.placement <= begin
    BY <1>0, <1>1, <2>2, <2>3, <2>4, <2>5
  <2>7. Wrap(begin + request.bytes) = begin
    BY <1>0, <2>1, <2>6, WrapValue
  <2>8. ~Collides(arr, request, begin)
    BY <2>6, <2>7 DEF Collides
  <2> QED
    BY <2>1, <2>6, <2>8 DEF begin
<1> QED
  BY <1>0, <1>3, <1>4

-------------------------------------------------------------------------------
(* A section placed where its bytes were free joins the others.              *)
LEMMA AppendKeeps ==
    ASSUME NEW arr, IsProper(arr), IsOrdered(arr),
           NEW secs \in Seq(Section), Accounts(arr, secs),
           NEW request \in Request, NEW begin \in Value,
           begin + request.bytes < Modulus,
           ~Collides(arr, request, begin),
           ~request.fixed => arr.placement <= begin
    PROVE  LET next == Occupy(arr, request, begin)
               new == [fixed |-> request.fixed, at |-> request.at,
                       bytes |-> request.bytes, address |-> begin]
           IN  /\ IsOrdered(next)
               /\ Accounts(next, secs)
               /\ AccountsFor(next, new)
               /\ \A i \in 1 .. Len(secs) :
                    /\ ~\E v \in Value : Occupies(secs[i], v) /\ Occupies(new, v)
                    /\ ~request.fixed /\ ~secs[i].fixed
                        => secs[i].address + secs[i].bytes <= begin
<1> DEFINE next == Occupy(arr, request, begin)
           new == [fixed |-> request.fixed, at |-> request.at,
                   bytes |-> request.bytes, address |-> begin]
           end == begin + request.bytes
<1>0. /\ request.bytes \in Nat /\ begin \in Nat /\ end \in Nat
      /\ Modulus \in Nat /\ Value = 0 .. Modulus - 1 /\ end < Modulus
      /\ arr.layout \in SUBSET Interval /\ arr.origin \in Value
      /\ arr.placement \in Value /\ arr.extent \in Value
  BY RequestType, ModulusNat DEF IsProper, Arrangement
<1>1. Wrap(begin + request.bytes) = end
  BY <1>0, WrapValue
<1>2. /\ IsProper(next)
      /\ next.origin = arr.origin
      /\ Cover(arr.layout) \subseteq Cover(next.layout)
      /\ next.placement = IF request.fixed THEN arr.placement ELSE end
      /\ arr.extent <= next.extent
      /\ Wrap(end - arr.origin) <= next.extent
      /\ \A v \in Value : begin <= v /\ v < end =>
            v \in Cover(next.layout) /\ v \notin Cover(arr.layout)
  <2> HIDE DEF next, end
  <2>1. /\ IsProper(next)
        /\ next.origin = arr.origin
        /\ Cover(arr.layout) \subseteq Cover(next.layout)
        /\ next.placement = IF request.fixed THEN arr.placement
                            ELSE Wrap(begin + request.bytes)
        /\ arr.extent <= next.extent
        /\ Wrap(Wrap(begin + request.bytes) - arr.origin) <= next.extent
        /\ \A v \in Value : begin <= v /\ v < begin + request.bytes =>
              v \in Cover(next.layout) /\ v \notin Cover(arr.layout)
    BY OccupyKeeps, RequestType DEF next
  <2>2. end = begin + request.bytes
    BY DEF end
  <2> QED
    BY <1>1, <2>1, <2>2
<1>3. next.extent \in Nat
  BY <1>0, <1>2 DEF IsProper, Arrangement
<1> HIDE DEF next
<1>4. new.fixed = request.fixed /\ new.bytes = request.bytes /\ new.address = begin
  OBVIOUS
<1>5. \A v \in Value : Occupies(new, v) <=> begin <= v /\ v < end
  BY <1>4 DEF Occupies
<1> HIDE DEF new
<1>e. end = begin + request.bytes
  OBVIOUS
<1> HIDE DEF end
<1>6. request.bytes # 0 => arr.origin <= begin
  <2> SUFFICES ASSUME request.bytes # 0, begin < arr.origin PROVE FALSE
    BY <1>0
  <2>1. begin \in Cover(arr.layout)
    BY DEF IsProper
  <2>2. begin < end
    BY <1>0, <1>e
  <2> QED
    BY <1>0, <1>2, <2>1, <2>2
<1>7. arr.origin <= begin => Wrap(end - arr.origin) = end - arr.origin
  <2> SUFFICES ASSUME arr.origin <= begin
               PROVE  Wrap(end - arr.origin) = end - arr.origin
    OBVIOUS
  <2>1. end - arr.origin \in Nat /\ end - arr.origin < Modulus
    BY <1>0, <1>e, SMTT(30)
  <2> QED
    BY <2>1, WrapValue
<1>8. IsOrdered(next)
  <2>1. CASE request.fixed
    BY <1>0, <1>2, <1>3, <2>1 DEF IsOrdered
  <2>2. CASE ~request.fixed
    <3>1. arr.origin <= begin
      BY <1>0, <2>2 DEF IsOrdered
    <3> QED
      BY <1>0, <1>2, <1>3, <1>7, <1>e, <2>2, <3>1, SMTT(30) DEF IsOrdered
  <2> QED
    BY <2>1, <2>2
<1>9. ASSUME NEW i \in 1 .. Len(secs)
      PROVE  /\ AccountsFor(next, secs[i])
             /\ ~\E v \in Value : Occupies(secs[i], v) /\ Occupies(new, v)
             /\ ~request.fixed /\ ~secs[i].fixed
                    => secs[i].address + secs[i].bytes <= begin
  <2>1. AccountsFor(arr, secs[i]) /\ secs[i] \in Section
    BY DEF Accounts
  <2>2. secs[i].address \in Nat /\ secs[i].bytes \in Nat
    <3>1. secs[i].address \in Value /\ secs[i].bytes \in Value
      BY <2>1 DEF Section
    <3> QED
      BY <1>0, <3>1
  <2>3. \A v \in Value : Occupies(secs[i], v) => v \in Cover(arr.layout)
    BY <2>1 DEF AccountsFor
  <2>4. ~secs[i].fixed => secs[i].address + secs[i].bytes <= arr.placement
    BY <2>1 DEF AccountsFor
  <2>5. ~secs[i].fixed => secs[i].address + secs[i].bytes <= next.placement
    <3>1. arr.placement <= next.placement /\ next.placement \in Nat
      BY <1>0, <1>2, <1>e
    <3>2. arr.placement \in Nat
      BY <1>0
    <3> QED
      BY <2>2, <2>4, <3>1, <3>2
  <2>6. Designates(next, secs[i])
    <3>1. Designates(arr, secs[i])
      BY <2>1 DEF AccountsFor
    <3>2. arr.origin \in Nat /\ arr.extent \in Nat
      BY <1>0
    <3> QED
      BY <1>2, <1>3, <2>2, <3>1, <3>2 DEF Designates
  <2>7. AccountsFor(next, secs[i])
    BY <1>2, <2>3, <2>5, <2>6 DEF AccountsFor
  <2>8. ~\E v \in Value : Occupies(secs[i], v) /\ Occupies(new, v)
    BY <1>2, <1>5, <2>3
  <2> QED
    BY <1>0, <2>2, <2>4, <2>7, <2>8
<1>10. AccountsFor(next, new)
  <2>1. \A v \in Value : Occupies(new, v) => v \in Cover(next.layout)
    BY <1>2, <1>5
  <2>2. ~new.fixed => new.address + new.bytes <= next.placement
    BY <1>0, <1>2, <1>4, <1>e
  <2>3. Designates(next, new)
    <3>1. new.bytes # 0 => /\ next.origin <= begin
                           /\ begin - next.origin + request.bytes <= next.extent
      BY <1>0, <1>2, <1>3, <1>4, <1>6, <1>7, <1>e
    <3> QED
      BY <1>0, <1>4, <3>1 DEF Designates
  <2> QED
    BY <2>1, <2>2, <2>3 DEF AccountsFor
<1> QED
  BY <1>8, <1>9, <1>10 DEF Accounts, next, new

LEMMA InitIInv == Init => IInv
<1> SUFFICES ASSUME Init PROVE IInv
  OBVIOUS
<1>1. /\ arrangement.layout = {} /\ arrangement.origin = 0
      /\ arrangement.placement = 0 /\ arrangement.extent = 0
      /\ arrangement \in Arrangement
      /\ sections = <<>> /\ Len(sections) = 0 /\ sections \in Seq(Section)
  BY ModulusNat DEF Init, EmptyArrangement, Arrangement
<1>2. TypeOK
  BY <1>1 DEF Init, TypeOK, Arrangement, Section
<1>3. IsProper(arrangement)
  BY <1>1, ModulusNat DEF IsProper, IsCanonical
<1>4. PlacedAsRequired /\ SectionsDisjoint /\ InOrder
  BY <1>1 DEF PlacedAsRequired, SectionsDisjoint, InOrder
<1>5. IsOrdered(arrangement) /\ Accounts(arrangement, sections)
  BY <1>1 DEF IsOrdered, Accounts
<1> QED
  BY <1>2, <1>3, <1>4, <1>5 DEF IInv

(* Arranging one more section preserves the invariant.                       *)
LEMMA ArrangeIInv ==
    ASSUME IInv, NEW request \in Request, Arrange(request)
    PROVE  IInv'
<1> DEFINE based == Rebase(arrangement, request)
           begin == Begin(based, request, request.size)
           address == IF ~Collides(based, request, begin) THEN begin
                      ELSE IF request.at = 0 THEN 1 ELSE 0
           new == [fixed |-> request.fixed, at |-> request.at,
                   bytes |-> request.bytes, address |-> address]
<1>0. /\ sections \in Seq(Section) /\ IsProper(arrangement)
      /\ failed = FALSE /\ tight \in BOOLEAN
      /\ request.fixed => \A i \in 1 .. Len(sections) : sections[i].fixed
  BY DEF IInv, TypeOK, Section, Arrange, InBlockOrder
<1>1. /\ IsProper(based)
      /\ IsOrdered(arrangement) => IsOrdered(based)
      /\ Accounts(arrangement, sections) => Accounts(based, sections)
  BY <1>0, RebaseKeeps
<1>2. begin \in Value /\ (~request.fixed => begin % request.at = 0)
  BY <1>1, BeginValue, RequestType
<1>3. /\ arrangement' = IF Collides(based, request, begin) THEN based
                        ELSE Occupy(based, request, begin)
      /\ IF Refuses(request, address)
         THEN failed' = TRUE /\ sections' = sections
         ELSE failed' = failed /\ sections' = Append(sections, new)
      /\ tight' = (tight \/ ~Suffices(based, request))
  BY Zenon DEF Arrange, Allocate
<1>4. /\ request.fixed \in BOOLEAN /\ request.at \in Value /\ request.at \in Nat
      /\ request.bytes \in Value /\ request.bytes \in Nat
      /\ ~request.fixed => request.at # 0
      /\ Modulus \in Nat /\ Value = 0 .. Modulus - 1 /\ Modulus > 0
  BY RequestType, ModulusNat
<1>5. IsProper(arrangement')
  BY <1>1, <1>2, <1>3, OccupyKeeps, RequestType
<1> HIDE DEF based, begin
<1>6. CASE Refuses(request, address)
  <2>1. failed' = TRUE /\ sections' = sections
    BY <1>3, <1>6
  <2>2. TypeOK'
    BY <1>0, <1>3, <1>5, <2>1 DEF TypeOK, IsProper, Arrangement, Section
  <2>3. PlacedAsRequired'
    BY <2>1 DEF IInv, PlacedAsRequired
  <2>4. SectionsDisjoint' /\ InOrder'
    BY <1>3, <2>1 DEF IInv, SectionsDisjoint, InOrder
  <2> QED
    BY <1>5, <2>1, <2>2, <2>3, <2>4 DEF IInv
<1>7. CASE ~Refuses(request, address)
  <2>1. failed' = FALSE /\ sections' = Append(sections, new)
    BY <1>0, <1>3, <1>7
  <2>2. /\ address \in Value
        /\ request.fixed => address = request.at
        /\ ~request.fixed => address % request.at = 0
        /\ request.fixed => /\ address = begin
                            /\ ~Collides(based, request, begin)
                            /\ begin + request.bytes < Modulus
    <3>1. CASE Collides(based, request, begin)
      <4>1. address = IF request.at = 0 THEN 1 ELSE 0
        BY <3>1
      <4>2. ~request.fixed
        BY <1>4, <1>7, <4>1 DEF Refuses
      <4>3. address = 0 /\ 0 % request.at = 0
        BY <1>4, <4>1, <4>2
      <4> QED
        BY <1>4, <4>2, <4>3
    <3>2. CASE ~Collides(based, request, begin)
      <4>1. address = begin
        BY <3>2
      <4>2. request.fixed => address = request.at
        BY <1>7 DEF Refuses
      <4>3. ~(Wrap(begin + request.bytes) < begin)
        BY <1>7, <4>1 DEF Refuses
      <4>4. begin + request.bytes < Modulus
        <5> SUFFICES ASSUME begin + request.bytes >= Modulus PROVE FALSE
          BY <1>2, <1>4
        <5> DEFINE sum == begin + request.bytes
        <5>1. sum \in Nat /\ Modulus <= sum /\ sum < 2 * Modulus
          BY <1>2, <1>4
        <5>2. ~(Wrap(sum) < begin) /\ sum - Modulus < begin
          BY <1>2, <1>4, <4>3
        <5> HIDE DEF sum
        <5> QED
          BY <5>1, <5>2, WrapOnce
      <4> QED
        BY <1>2, <3>2, <4>1, <4>2, <4>4
    <3> QED
      BY <3>1, <3>2
  <2> HIDE DEF address
  <2>3. new \in Section
    BY <1>4, <2>2 DEF Section
  <2>4. /\ new.fixed = request.fixed /\ new.at = request.at
        /\ new.bytes = request.bytes /\ new.address = address
    OBVIOUS
  <2> HIDE DEF new
  <2>5. /\ Len(sections') = Len(sections) + 1 /\ Len(sections) \in Nat
        /\ sections' \in Seq(Section)
        /\ \A i \in 1 .. Len(sections) : sections'[i] = sections[i]
        /\ sections'[Len(sections) + 1] = new
    BY <1>0, <2>1, <2>3
  <2>6. \A i \in 1 .. Len(sections') :
           \/ i \in 1 .. Len(sections) /\ sections'[i] = sections[i]
           \/ i = Len(sections) + 1 /\ sections'[i] = new
    BY <2>5
  <2>7. TypeOK'
    BY <1>0, <1>3, <1>5, <2>1, <2>5 DEF TypeOK, IsProper, Arrangement, Section
  <2>8. PlacedAsRequired'
    <3>1. IF new.fixed THEN new.address = new.at ELSE new.address % new.at = 0
      BY <2>2, <2>4
    <3> QED
      BY <2>6, <3>1 DEF IInv, PlacedAsRequired
  <2>9. CASE tight'
    BY <1>5, <2>7, <2>8, <2>9 DEF IInv, SectionsDisjoint, InOrder
  <2>10. CASE ~tight'
    <3>1. tight = FALSE /\ Suffices(based, request)
      BY <1>0, <1>3, <2>10
    <3>2. /\ IsOrdered(arrangement) /\ Accounts(arrangement, sections)
          /\ IsOrdered(based) /\ Accounts(based, sections)
      BY <1>0, <1>1, <3>1 DEF IInv
    <3>3. /\ begin + request.bytes < Modulus
          /\ ~request.fixed => based.placement <= begin
          /\ ~Collides(based, request, begin)
      <4>1. CASE request.fixed
        BY <2>2, <4>1
      <4>2. CASE ~request.fixed
        BY <1>1, <3>1, <3>2, <4>2, BeginFits DEF begin
      <4> QED
        BY <4>1, <4>2
    <3>4. address = begin
      BY <3>3 DEF address
    <3>5. arrangement' = Occupy(based, request, begin)
      BY <1>3, <3>3
    <3>6. new = [fixed |-> request.fixed, at |-> request.at,
                 bytes |-> request.bytes, address |-> begin]
      BY <3>4 DEF new
    <3>7. /\ IsOrdered(arrangement')
          /\ Accounts(arrangement', sections)
          /\ AccountsFor(arrangement', new)
          /\ \A i \in 1 .. Len(sections) :
               /\ ~\E v \in Value : Occupies(sections[i], v) /\ Occupies(new, v)
               /\ ~request.fixed /\ ~sections[i].fixed
                   => sections[i].address + sections[i].bytes <= begin
      BY <1>0, <1>1, <1>2, <3>2, <3>3, <3>5, <3>6, AppendKeeps
    <3>8. Accounts(arrangement', sections')
      BY <2>6, <3>7 DEF Accounts
    <3>9. SectionsDisjoint'
      <4>1. ASSUME NEW i \in 1 .. Len(sections'), NEW j \in 1 .. Len(sections'), i # j
            PROVE  ~\E v \in Value : Occupies(sections'[i], v) /\ Occupies(sections'[j], v)
        <5>1. CASE i \in 1 .. Len(sections) /\ j \in 1 .. Len(sections)
          BY <2>5, <3>1, <4>1, <5>1 DEF IInv, SectionsDisjoint
        <5>2. CASE i = Len(sections) + 1 \/ j = Len(sections) + 1
          BY <2>5, <2>6, <3>7, <4>1, <5>2
        <5> QED
          BY <2>5, <5>1, <5>2
      <4> QED
        BY <4>1 DEF SectionsDisjoint, Occupies
    <3>10. InOrder'
      <4>1. ASSUME NEW i \in 1 .. Len(sections'), NEW j \in 1 .. Len(sections'), i < j,
                   ~sections'[i].fixed, ~sections'[j].fixed
            PROVE  sections'[i].address + sections'[i].bytes <= sections'[j].address
        <5>1. CASE j \in 1 .. Len(sections)
          <6>1. i \in 1 .. Len(sections)
            BY <2>5, <4>1, <5>1
          <6> QED
            BY <2>5, <3>1, <4>1, <5>1, <6>1 DEF IInv, InOrder
        <5>2. CASE j = Len(sections) + 1
          <6>1. i \in 1 .. Len(sections)
            BY <2>5, <4>1, <5>2
          <6> QED
            BY <2>4, <2>5, <3>4, <3>7, <4>1, <5>2, <6>1
        <5> QED
          BY <2>6, <5>1, <5>2
      <4> QED
        BY <4>1 DEF InOrder
    <3> QED
      BY <1>5, <2>7, <2>8, <3>7, <3>8, <3>9, <3>10 DEF IInv
  <2> QED
    BY <2>9, <2>10
<1> QED
  BY <1>6, <1>7

(* The invariant holds in all states of the specification.                   *)
THEOREM Invariance == Spec => []IInv
<1>1. IInv /\ [Next]_vars => IInv'
  <2> SUFFICES ASSUME IInv, [Next]_vars PROVE IInv'
    OBVIOUS
  <2>1. CASE UNCHANGED vars
    BY <2>1 DEF vars, IInv, TypeOK, IsProper, PlacedAsRequired, IsOrdered, Accounts,
                AccountsFor, Designates, Occupies, SectionsDisjoint, InOrder
  <2>2. CASE Next
    BY <2>2, ArrangeIInv DEF Next
  <2> QED
    BY <2>1, <2>2
<1> QED
  BY <1>1, InitIInv, PTL DEF Spec

(* Sections never share a byte while the addresses have room, whatever the   *)
(* image's sections, their sizes, origins and alignments.                    *)
THEOREM Disjointness == Spec => []SectionsDisjoint
<1>1. IInv => SectionsDisjoint
  BY DEF IInv
<1> QED
  BY <1>1, Invariance, PTL

(* Every section linked is at its origin or at a multiple of its alignment.  *)
THEOREM Placement == Spec => []PlacedAsRequired
<1>1. IInv => PlacedAsRequired
  BY DEF IInv
<1> QED
  BY <1>1, Invariance, PTL

(* The sections without origin keep their order in memory.                   *)
THEOREM Order == Spec => []InOrder
<1>1. IInv => InOrder
  BY DEF IInv
<1> QED
  BY <1>1, Invariance, PTL

(* The assertions of Designate hold for all that Link copies, while the       *)
(* addresses have room.                                                      *)
THEOREM Containment == Spec => []DesignateInBounds
<1>1. IInv => DesignateInBounds
  BY DEF IInv, Accounts, AccountsFor, DesignateInBounds
<1> QED
  BY <1>1, Invariance, PTL

(* The image and its sections keep their types, wrapped addresses included.  *)
THEOREM Typing == Spec => []TypeOK
<1>1. IInv => TypeOK
  BY DEF IInv
<1> QED
  BY <1>1, Invariance, PTL

(* NextFit finds the first of all aligned addresses behind the placement     *)
(* where the bytes requested are free, while the addresses have room.        *)
THEOREM FirstFit == Spec => []NextFitIsFirst
<1>1. IInv => NextFitIsFirst
  <2> SUFFICES ASSUME IInv, NEW request \in Request,
                      ~request.fixed, request.size # 0, Suffices(arrangement, request)
               PROVE  LET address == NextFit(arrangement, request.size, request.at)
                      IN  /\ Fits(address, request.size, request.at)
                          /\ \A a \in 0 .. address - 1 :
                                ~Fits(a, request.size, request.at)
    BY DEF NextFitIsFirst
  <2> DEFINE address == NextFit(arrangement, request.size, request.at)
  <2>1. /\ arrangement \in Arrangement /\ IsCanonical(arrangement.layout)
        /\ arrangement.layout \in SUBSET Interval /\ arrangement.placement \in Value
    BY DEF IInv, IsProper, Arrangement
  <2>2. request.size \in Value \ {0} /\ request.at \in Value \ {0}
    BY RequestType
  <2>3. HasRoom(arrangement, request.size, request.at)
    BY <2>1, SufficesRoom
  <2>4. /\ address \in Value /\ address % request.at = 0
        /\ arrangement.placement <= address
        /\ \A r \in arrangement.layout :
              r.upper < address \/ address + request.size <= r.lower
    BY <2>1, <2>2, <2>3, NextFitFits, NextFitValue
  <2>5. ASSUME NEW a \in 0 .. address - 1, Fits(a, request.size, request.at)
        PROVE  FALSE
    <3>1. /\ a \in Nat /\ arrangement.placement <= a /\ a % request.at = 0
          /\ \A r \in arrangement.layout : a + request.size <= r.lower \/ r.upper < a
      BY <2>1, <2>4, <2>5, ModulusNat DEF Fits
    <3>2. address <= a
      BY <2>1, <2>2, <2>3, <3>1, NextFitLeast
    <3> QED
      BY <2>4, <3>1, <3>2, ModulusNat
  <2>6. Fits(address, request.size, request.at)
    BY <2>1, <2>4, ModulusNat DEF Fits
  <2> QED
    BY <2>5, <2>6
<1> QED
  BY <1>1, Invariance, PTL

-------------------------------------------------------------------------------
(* What the records of a file write, given the upper half set before them.   *)

Types == {"Data", "EndOfFile", "ExtendedLinearAddress"}

AnyRecord == [type : {"Data"}, offset : Nat, carried : Seq(Nat)]
    \cup [type : {"ExtendedLinearAddress"}, offset : {0}, carried : Nat]
    \cup [type : {"EndOfFile"}, offset : {0}, carried : {<<>>}]

SetsIn(records, i) == records[i].type = "ExtendedLinearAddress"

\* Whether a value is the upper half at a record.
IsUpper(before, records, i, upper) ==
    \/ upper = before /\ \A k \in 1 .. i : ~SetsIn(records, k)
    \/ \E k \in 1 .. i : /\ SetsIn(records, k) /\ upper = records[k].carried
                         /\ \A l \in k + 1 .. i : ~SetsIn(records, l)

Sends(records, i, n, byte) ==
    /\ i \in DOMAIN records /\ n \in 1 .. RecordLength
    /\ records[i].type = "Data" /\ n <= Len(records[i].carried)
    /\ byte = records[i].carried[n]

\* Records send the bytes from an offset on, each once and to its address.
Covers(before, records, from, size, displacement) ==
    /\ records \in Seq(AnyRecord)
    /\ \A i, n, byte : Sends(records, i, n, byte) =>
         /\ byte \in from .. size - 1
         /\ \A upper : IsUpper(before, records, i, upper) =>
              Bank * upper + records[i].offset + n - 1 = displacement + byte
    /\ \A byte \in from .. size - 1 : \E i, n : Sends(records, i, n, byte)
    /\ \A i, n, j, m, byte : Sends(records, i, n, byte) /\ Sends(records, j, m, byte) => i = j /\ n = m

(* A record in front of others.                                              *)
LEMMA Prepended ==
    ASSUME NEW r \in AnyRecord, NEW s \in Seq(AnyRecord)
    PROVE  /\ <<r>> \o s \in Seq(AnyRecord)
           /\ Len(s) \in Nat /\ DOMAIN s = 1 .. Len(s) /\ DOMAIN (<<r>> \o s) = 1 .. Len(s) + 1
           /\ (<<r>> \o s)[1] = r
           /\ \A i \in 1 .. Len(s) : (<<r>> \o s)[i + 1] = s[i]
OBVIOUS

(* What it sets holds for those behind it that nothing else is set for.      *)
LEMMA PrependedUpper ==
    ASSUME NEW r \in AnyRecord, NEW s \in Seq(AnyRecord), NEW before, NEW upper,
           NEW i \in 1 .. Len(s)
    PROVE  IsUpper(before, <<r>> \o s, i + 1, upper) <=>
             IsUpper(IF r.type = "ExtendedLinearAddress" THEN r.carried ELSE before, s, i, upper)
<1> DEFINE whole == <<r>> \o s
           own == r.type = "ExtendedLinearAddress"
<1>1. /\ Len(s) \in Nat /\ i \in Nat /\ whole[1] = r
      /\ \A k \in 1 .. i : whole[k + 1] = s[k]
  BY Prepended
<1>2. /\ SetsIn(whole, 1) <=> own
      /\ \A k \in 1 .. i : (SetsIn(whole, k + 1) <=> SetsIn(s, k))
  BY <1>1 DEF SetsIn
<1> HIDE DEF whole, own
<1>3. \A k \in 1 .. i + 1 : k = 1 \/ (k - 1 \in 1 .. i /\ k = (k - 1) + 1)
  BY <1>1
<1>4. (\A k \in 1 .. i + 1 : ~SetsIn(whole, k)) <=> (~own /\ \A k \in 1 .. i : ~SetsIn(s, k))
  <2>1. ASSUME \A k \in 1 .. i + 1 : ~SetsIn(whole, k)
        PROVE  ~own /\ \A k \in 1 .. i : ~SetsIn(s, k)
    <3>1. \A k \in 1 .. i : k + 1 \in 1 .. i + 1
      BY <1>1
    <3> QED
      BY <1>1, <1>2, <2>1, <3>1
  <2>2. ASSUME ~own, \A k \in 1 .. i : ~SetsIn(s, k), NEW k \in 1 .. i + 1
        PROVE  ~SetsIn(whole, k)
    BY <1>2, <1>3, <2>2
  <2> QED
    BY <2>1, <2>2
<1>5. ASSUME NEW k \in 1 .. i
      PROVE  (\A l \in (k + 1) + 1 .. i + 1 : ~SetsIn(whole, l)) <=> \A l \in k + 1 .. i : ~SetsIn(s, l)
  <2>1. \A l \in k + 1 .. i : l \in 1 .. i /\ l + 1 \in (k + 1) + 1 .. i + 1
    BY <1>1
  <2>2. \A l \in (k + 1) + 1 .. i + 1 : l - 1 \in k + 1 .. i /\ l - 1 \in 1 .. i /\ l = (l - 1) + 1
    BY <1>1
  <2> QED
    BY <1>2, <2>1, <2>2
<1>6. (\A l \in 1 + 1 .. i + 1 : ~SetsIn(whole, l)) <=> \A l \in 1 .. i : ~SetsIn(s, l)
  <2>1. \A l \in 1 .. i : l + 1 \in 1 + 1 .. i + 1
    BY <1>1
  <2>2. \A l \in 1 + 1 .. i + 1 : l - 1 \in 1 .. i /\ l = (l - 1) + 1
    BY <1>1
  <2> QED
    BY <1>2, <2>1, <2>2
<1> DEFINE Last(records, k, end) == /\ SetsIn(records, k) /\ upper = records[k].carried
                                    /\ \A l \in k + 1 .. end : ~SetsIn(records, l)
<1>7. Last(whole, 1, i + 1) <=> (own /\ upper = r.carried /\ \A l \in 1 .. i : ~SetsIn(s, l))
  BY <1>1, <1>2, <1>6
<1>8. \A k \in 1 .. i : Last(whole, k + 1, i + 1) <=> Last(s, k, i)
  BY <1>1, <1>2, <1>5
<1> HIDE DEF Last
<1>9. (\E k \in 1 .. i + 1 : Last(whole, k, i + 1)) <=>
        (Last(whole, 1, i + 1) \/ \E k \in 1 .. i : Last(whole, k + 1, i + 1))
  <2>1. 1 \in 1 .. i + 1 /\ \A k \in 1 .. i : k + 1 \in 1 .. i + 1
    BY <1>1
  <2> QED
    BY <1>3, <2>1
<1>10. IsUpper(before, whole, i + 1, upper) <=>
         \/ upper = before /\ \A k \in 1 .. i + 1 : ~SetsIn(whole, k)
         \/ \E k \in 1 .. i + 1 : Last(whole, k, i + 1)
  BY DEF IsUpper, Last
<1>11. \A first : IsUpper(first, s, i, upper) <=>
         \/ upper = first /\ \A k \in 1 .. i : ~SetsIn(s, k)
         \/ \E k \in 1 .. i : Last(s, k, i)
  BY DEF IsUpper, Last
<1>12. IsUpper(before, whole, i + 1, upper) <=>
         IsUpper(IF own THEN r.carried ELSE before, s, i, upper)
  <2>1. CASE own
    <3>1. IsUpper(before, whole, i + 1, upper) <=>
            \/ upper = r.carried /\ \A l \in 1 .. i : ~SetsIn(s, l)
            \/ \E k \in 1 .. i : Last(s, k, i)
      BY <1>4, <1>7, <1>8, <1>9, <1>10, <2>1, Zenon
    <3> QED
      BY <1>11, <2>1, <3>1
  <2>2. CASE ~own
    <3>1. IsUpper(before, whole, i + 1, upper) <=>
            \/ upper = before /\ \A l \in 1 .. i : ~SetsIn(s, l)
            \/ \E k \in 1 .. i : Last(s, k, i)
      BY <1>4, <1>7, <1>8, <1>9, <1>10, <2>2, Zenon
    <3> QED
      BY <1>11, <2>2, <3>1
  <2> QED
    BY <2>1, <2>2
<1> QED
  BY <1>12 DEF whole, own

(* It sends its own bytes and leaves the others as they are.                 *)
LEMMA PrependedSends ==
    ASSUME NEW r \in AnyRecord, NEW s \in Seq(AnyRecord), NEW i, NEW n, NEW byte
    PROVE  Sends(<<r>> \o s, i, n, byte) <=>
             \/ /\ i = 1 /\ r.type = "Data" /\ n \in 1 .. RecordLength
                /\ n <= Len(r.carried) /\ byte = r.carried[n]
             \/ \E j \in 1 .. Len(s) : i = j + 1 /\ Sends(s, j, n, byte)
<1> DEFINE whole == <<r>> \o s
<1>1. /\ Len(s) \in Nat /\ DOMAIN s = 1 .. Len(s) /\ DOMAIN whole = 1 .. Len(s) + 1
      /\ whole[1] = r /\ \A k \in 1 .. Len(s) : whole[k + 1] = s[k]
  BY Prepended
<1> HIDE DEF whole
<1>2. 1 \in DOMAIN whole /\ \A k \in 1 .. Len(s) : k + 1 \in DOMAIN whole
  BY <1>1
<1>3. \A k \in DOMAIN whole : k = 1 \/ \E j \in 1 .. Len(s) : k = j + 1
  <2>1. \A k \in DOMAIN whole : k = 1 \/ (k - 1 \in 1 .. Len(s) /\ k = (k - 1) + 1)
    BY <1>1
  <2> QED
    BY <2>1
<1>4. \A j \in 1 .. Len(s) : Sends(whole, j + 1, n, byte) <=> Sends(s, j, n, byte)
  BY <1>1, <1>2, Zenon DEF Sends
<1>5. Sends(whole, 1, n, byte) <=>
        /\ r.type = "Data" /\ n \in 1 .. RecordLength
        /\ n <= Len(r.carried) /\ byte = r.carried[n]
  BY <1>1, <1>2, Zenon DEF Sends
<1>6. Sends(whole, i, n, byte) => i \in DOMAIN whole
  BY DEF Sends
<1>7. Sends(whole, i, n, byte) <=>
        \/ i = 1 /\ Sends(whole, 1, n, byte)
        \/ \E j \in 1 .. Len(s) : i = j + 1 /\ Sends(whole, j + 1, n, byte)
  BY <1>3, <1>6, Zenon
<1> QED
  BY <1>4, <1>5, <1>7, Zenon DEF whole

(* The end of the file sends nothing.                                        *)
LEMMA CoversEnd ==
    ASSUME NEW before, NEW size \in Nat, NEW displacement
    PROVE  Covers(before, <<Record("EndOfFile", 0, <<>>)>>, size, size, displacement)
<1> DEFINE last == <<Record("EndOfFile", 0, <<>>)>>
<1>1. last \in Seq(AnyRecord)
  BY DEF AnyRecord, Record
<1>2. \A i \in DOMAIN last : last[i].type # "Data"
  BY DEF Record
<1>3. \A i, n, byte : ~Sends(last, i, n, byte)
  BY <1>2, Zenon DEF Sends
<1>4. size .. size - 1 = {}
  OBVIOUS
<1> HIDE DEF last
<1>5. Covers(before, last, size, size, displacement)
  BY <1>1, <1>3, <1>4, Zenon DEF Covers
<1> QED
  BY <1>5 DEF last

(* A record that sets the upper half sends nothing itself.                   *)
LEMMA CoversUpper ==
    ASSUME NEW before, NEW upper \in Nat, NEW s, NEW from, NEW size, NEW displacement,
           Covers(upper, s, from, size, displacement)
    PROVE  Covers(before, <<Record("ExtendedLinearAddress", 0, upper)>> \o s, from, size, displacement)
<1> DEFINE r == Record("ExtendedLinearAddress", 0, upper)
           whole == <<r>> \o s
<1>1. r \in AnyRecord /\ r.type # "Data" /\ r.type = "ExtendedLinearAddress" /\ r.carried = upper
  BY DEF AnyRecord, Record
<1>2. s \in Seq(AnyRecord)
  BY DEF Covers
<1> HIDE DEF r
<1>3. /\ whole \in Seq(AnyRecord) /\ \A j \in 1 .. Len(s) : whole[j + 1] = s[j]
      /\ Len(s) \in Nat
  BY <1>1, <1>2, Prepended
<1>4. \A i, n, byte : Sends(whole, i, n, byte) <=>
        \E j \in 1 .. Len(s) : i = j + 1 /\ Sends(s, j, n, byte)
  BY <1>1, <1>2, PrependedSends
<1>5. \A j \in 1 .. Len(s) : \A v : IsUpper(before, whole, j + 1, v) <=> IsUpper(upper, s, j, v)
  BY <1>1, <1>2, PrependedUpper
<1> HIDE DEF whole
<1>6. ASSUME NEW i, NEW n, NEW byte, Sends(whole, i, n, byte)
      PROVE  /\ byte \in from .. size - 1
             /\ \A v : IsUpper(before, whole, i, v) =>
                  Bank * v + whole[i].offset + n - 1 = displacement + byte
  <2>1. PICK j \in 1 .. Len(s) : i = j + 1 /\ Sends(s, j, n, byte)
    BY <1>4, <1>6
  <2>2. whole[i] = s[j]
    BY <1>3, <2>1
  <2>3. \A v : IsUpper(before, whole, i, v) => IsUpper(upper, s, j, v)
    BY <1>5, <2>1
  <2>4. /\ byte \in from .. size - 1
        /\ \A v : IsUpper(upper, s, j, v) =>
             Bank * v + s[j].offset + n - 1 = displacement + byte
    BY <2>1 DEF Covers
  <2> QED
    BY <2>2, <2>3, <2>4, Zenon
<1>7. \A byte \in from .. size - 1 : \E i, n : Sends(whole, i, n, byte)
  <2>1. \A byte \in from .. size - 1 : \E j, n : j \in 1 .. Len(s) /\ Sends(s, j, n, byte)
    <3>1. DOMAIN s = 1 .. Len(s)
      BY <1>2
    <3> QED
      BY <3>1, Zenon DEF Covers, Sends
  <2> QED
    BY <1>4, <2>1, Zenon
<1>8. ASSUME NEW i, NEW n, NEW j, NEW m, NEW byte, Sends(whole, i, n, byte), Sends(whole, j, m, byte)
      PROVE  i = j /\ n = m
  <2>1. PICK k \in 1 .. Len(s), l \in 1 .. Len(s) :
           i = k + 1 /\ j = l + 1 /\ Sends(s, k, n, byte) /\ Sends(s, l, m, byte)
    BY <1>4, <1>8
  <2>2. k = l /\ n = m
    BY <2>1, Zenon DEF Covers
  <2> QED
    BY <2>1, <2>2
<1>9. Covers(before, whole, from, size, displacement)
  BY <1>3, <1>6, <1>7, <1>8, Zenon DEF Covers
<1> QED
  BY <1>9 DEF whole, r

(* A record of data sends the bytes at an offset, and those behind it others.*)
LEMMA CoversData ==
    ASSUME NEW before \in Nat, NEW s, NEW from \in Nat, NEW size \in Nat, NEW displacement \in Nat,
           NEW address \in Nat, NEW next \in Nat,
           from < next, next <= size, next - from <= RecordLength,
           Bank * before + address = displacement + from,
           Covers(before, s, next, size, displacement)
    PROVE  Covers(before, <<Record("Data", address, [n \in 1 .. next - from |-> from + n - 1])>> \o s,
                  from, size, displacement)
<1> DEFINE carried == [n \in 1 .. next - from |-> from + n - 1]
           r == Record("Data", address, carried)
           whole == <<r>> \o s
<1>0. RecordLength \in Nat /\ Bank \in Nat /\ Bank * before \in Int
  BY HexFileAssumption
<1>1. carried \in Seq(Nat) /\ Len(carried) = next - from
  <2>1. next - from \in Nat /\ \A n \in 1 .. next - from : from + n - 1 \in Nat
    OBVIOUS
  <2> QED
    BY <2>1
<1>2. \A n \in 1 .. next - from : carried[n] = from + n - 1
  OBVIOUS
<1> HIDE DEF carried
<1>3. /\ r \in AnyRecord /\ r.type = "Data" /\ r.type # "ExtendedLinearAddress"
      /\ r.carried = carried /\ r.offset = address
  BY <1>1 DEF AnyRecord, Record
<1>4. s \in Seq(AnyRecord)
  BY DEF Covers
<1> HIDE DEF r
<1>5. /\ whole \in Seq(AnyRecord) /\ whole[1] = r /\ \A j \in 1 .. Len(s) : whole[j + 1] = s[j]
      /\ Len(s) \in Nat
  BY <1>3, <1>4, Prepended
<1>6. \A i, n, byte : Sends(whole, i, n, byte) <=>
        \/ i = 1 /\ n \in 1 .. next - from /\ byte = from + n - 1
        \/ \E j \in 1 .. Len(s) : i = j + 1 /\ Sends(s, j, n, byte)
  <2> SUFFICES ASSUME NEW i, NEW n, NEW byte
               PROVE  Sends(whole, i, n, byte) <=>
                        \/ i = 1 /\ n \in 1 .. next - from /\ byte = from + n - 1
                        \/ \E j \in 1 .. Len(s) : i = j + 1 /\ Sends(s, j, n, byte)
    OBVIOUS
  <2>1. Sends(whole, i, n, byte) <=>
          \/ /\ i = 1 /\ r.type = "Data" /\ n \in 1 .. RecordLength
             /\ n <= Len(r.carried) /\ byte = r.carried[n]
          \/ \E j \in 1 .. Len(s) : i = j + 1 /\ Sends(s, j, n, byte)
    BY <1>3, <1>4, PrependedSends
  <2>2. (n \in 1 .. RecordLength /\ n <= next - from) <=> n \in 1 .. next - from
    BY <1>0
  <2>3. (n \in 1 .. RecordLength /\ n <= Len(r.carried) /\ byte = r.carried[n])
          <=> (n \in 1 .. next - from /\ byte = from + n - 1)
    BY <1>1, <1>2, <1>3, <2>2
  <2> QED
    BY <1>3, <2>1, <2>3, Zenon
<1>7. \A j \in 1 .. Len(s) : \A v : IsUpper(before, whole, j + 1, v) <=> IsUpper(before, s, j, v)
  BY <1>3, <1>4, PrependedUpper
<1>8. \A v : IsUpper(before, whole, 1, v) => v = before
  <2>1. \A k \in 1 .. 1 : ~SetsIn(whole, k)
    BY <1>3, <1>5 DEF SetsIn
  <2> HIDE DEF whole
  <2> QED
    BY <2>1, Zenon DEF IsUpper
<1> HIDE DEF whole
<1>9. \A j, n, byte : Sends(s, j, n, byte) => byte \in next .. size - 1 /\ j \in 1 .. Len(s)
  <2>1. DOMAIN s = 1 .. Len(s)
    BY <1>4
  <2>2. \A j, n, byte : Sends(s, j, n, byte) => j \in DOMAIN s
    BY Zenon DEF Sends
  <2>3. \A j, n, byte : Sends(s, j, n, byte) => byte \in next .. size - 1
    BY DEF Covers
  <2> QED
    BY <2>1, <2>2, <2>3, Zenon
<1>10. ASSUME NEW i, NEW n, NEW byte, Sends(whole, i, n, byte)
       PROVE  /\ byte \in from .. size - 1
              /\ \A v : IsUpper(before, whole, i, v) =>
                   Bank * v + whole[i].offset + n - 1 = displacement + byte
  <2>1. CASE i = 1 /\ n \in 1 .. next - from /\ byte = from + n - 1
    <3>1. byte \in from .. size - 1
      BY <2>1
    <3>2. Bank * before + whole[1].offset + n - 1 = displacement + byte
      BY <1>0, <1>3, <1>5, <2>1
    <3> QED
      BY <1>8, <2>1, <3>1, <3>2
  <2>2. CASE \E j \in 1 .. Len(s) : i = j + 1 /\ Sends(s, j, n, byte)
    <3>1. PICK j \in 1 .. Len(s) : i = j + 1 /\ Sends(s, j, n, byte)
      BY <2>2
    <3>2. whole[i] = s[j] /\ \A v : IsUpper(before, whole, i, v) => IsUpper(before, s, j, v)
      BY <1>5, <1>7, <3>1
    <3>3. \A v : IsUpper(before, s, j, v) => Bank * v + s[j].offset + n - 1 = displacement + byte
      BY <3>1 DEF Covers
    <3>4. byte \in from .. size - 1
      <4>1. byte \in next .. size - 1
        BY <1>9, <3>1
      <4> QED
        BY <4>1
    <3> QED
      BY <3>2, <3>3, <3>4
  <2> QED
    BY <1>6, <1>10, <2>1, <2>2
<1>11. ASSUME NEW byte \in from .. size - 1
       PROVE  \E i, n : Sends(whole, i, n, byte)
  <2>1. CASE byte < next
    <3> DEFINE n == byte - from + 1
    <3>1. n \in 1 .. next - from /\ byte = from + n - 1
      BY <2>1
    <3>2. Sends(whole, 1, n, byte)
      BY <1>6, <3>1
    <3> QED
      BY <3>2
  <2>2. CASE ~(byte < next)
    <3>1. byte \in next .. size - 1
      BY <2>2
    <3>2. PICK j, n : Sends(s, j, n, byte)
      BY <3>1 DEF Covers
    <3>3. Sends(whole, j + 1, n, byte)
      BY <1>6, <1>9, <3>2
    <3> QED
      BY <3>3
  <2> QED
    BY <2>1, <2>2
<1>12. ASSUME NEW i, NEW n, NEW j, NEW m, NEW byte, Sends(whole, i, n, byte), Sends(whole, j, m, byte)
       PROVE  i = j /\ n = m
  <2>1. CASE byte \in next .. size - 1
    <3>1. PICK k \in 1 .. Len(s) : i = k + 1 /\ Sends(s, k, n, byte)
      BY <1>6, <1>12, <2>1
    <3>2. PICK l \in 1 .. Len(s) : j = l + 1 /\ Sends(s, l, m, byte)
      BY <1>6, <1>12, <2>1
    <3>3. k = l /\ n = m
      BY <3>1, <3>2, Zenon DEF Covers
    <3> QED
      BY <3>1, <3>2, <3>3
  <2>2. CASE byte \notin next .. size - 1
    <3>1. /\ i = 1 /\ n \in 1 .. next - from /\ byte = from + n - 1
          /\ j = 1 /\ m \in 1 .. next - from /\ byte = from + m - 1
      BY <1>6, <1>9, <1>12, <2>2
    <3> QED
      BY <3>1
  <2> QED
    BY <2>1, <2>2
<1>13. Covers(before, whole, from, size, displacement)
  BY <1>5, <1>10, <1>11, <1>12, Zenon DEF Covers
<1> QED
  BY <1>13 DEF whole, r, carried

(* Quotients and remainders are determined by what they sum up to.           *)
LEMMA Divided ==
    ASSUME NEW b \in Nat, b > 0, NEW x \in Nat, NEW q \in Nat, NEW r \in 0 .. b - 1, x = b * q + r
    PROVE  x \div b = q /\ x % b = r
<1> DEFINE d == x \div b
           t == x % b
           e == d - q
<1>1. d \in Int /\ t \in 0 .. b - 1 /\ x = b * d + t
  OBVIOUS
<1>2. e \in Int /\ b * e = r - t
  BY <1>1
<1> HIDE DEF e, d, t
<1>3. e >= 1 => b * e >= b
  BY <1>2
<1>4. e <= -1 => b * e <= -b
  BY <1>2
<1>5. e = 0
  BY <1>1, <1>2, <1>3, <1>4
<1>6. t = r
  BY <1>1, <1>2, <1>5
<1>7. d = q
  BY <1>1, <1>5 DEF e
<1> QED
  BY <1>6, <1>7 DEF d, t

\* The records that are written at an offset: the data, and the upper half if it changes.
DataRecord(offset, size, displacement) ==
    LET address == (offset + displacement) % Bank
    IN  Record("Data", address, [n \in 1 .. NextOffset(offset, address, size) - offset |-> offset + n - 1])

UpperRecord(offset, displacement) ==
    Record("ExtendedLinearAddress", 0, ((offset + displacement) \div Bank) % Banks)

Chunk(offset, size, displacement) ==
    (IF SetsUpper(offset, displacement) THEN <<UpperRecord(offset, displacement)>> ELSE <<>>)
        \o <<DataRecord(offset, size, displacement)>>

Following(offset, size, displacement) == NextOffset(offset, (offset + displacement) % Bank, size)

\* What Records yields from each offset on, down to some offset.
IsAfter(after, from, size, displacement) ==
    after = [offset \in from .. size |->
               IF offset = size THEN <<Record("EndOfFile", 0, <<>>)>>
               ELSE Chunk(offset, size, displacement) \o after[Following(offset, size, displacement)]]

\* The address at an offset, and where the record that begins there ends.
IsFollowed(offset, q, address, next, size, displacement) ==
    /\ offset + displacement = Bank * q + address
    /\ (offset + displacement) \div Bank = q /\ (offset + displacement) % Bank = address
    /\ q % Banks = q
    /\ Following(offset, size, displacement) = next
    /\ offset < next /\ next <= size /\ next - offset <= RecordLength
    /\ next = size \/ next - offset = RecordLength \/ next - offset = Bank - address
    /\ next - offset <= Bank - address

(* Where a record begins and where it ends.                                  *)
LEMMA FollowingBounds ==
    ASSUME NEW size \in Nat, NEW displacement \in Nat, NEW offset \in 0 .. size - 1,
           size + displacement <= Bank * Banks
    PROVE  \E q \in Nat, address \in 0 .. Bank - 1, next \in Nat :
             IsFollowed(offset, q, address, next, size, displacement)
<1> DEFINE x == offset + displacement
           q == x \div Bank
           address == x % Bank
           next == Following(offset, size, displacement)
<1>1. /\ Bank \in Nat /\ Bank > 0 /\ Banks \in Nat /\ Banks > 0 /\ RecordLength \in Nat
      /\ 1 <= RecordLength /\ x \in Nat /\ x < Bank * Banks
  BY HexFileAssumption
<1>2. next = NextOffset(offset, address, size) /\ x = offset + displacement
  BY DEF Following
<1> HIDE DEF x, next
<1>3. q \in Nat /\ address \in 0 .. Bank - 1 /\ x = Bank * q + address
  BY <1>1
<1> HIDE DEF q, address
<1>4. q < Banks
  <2> SUFFICES ASSUME ~(q < Banks) PROVE FALSE
    OBVIOUS
  <2> DEFINE e == q - Banks
  <2>1. e \in Nat /\ Bank * q = Bank * Banks + Bank * e /\ Bank * e \in Nat
    BY <1>1, <1>3
  <2> QED
    BY <1>1, <1>3, <2>1
<1>5. q % Banks = q
  BY <1>1, <1>3, <1>4
<1>6. /\ next \in Nat /\ offset < next /\ next <= size /\ next - offset <= RecordLength
      /\ next = size \/ next - offset = RecordLength \/ next - offset = Bank - address
      /\ next - offset <= Bank - address
  BY <1>1, <1>2, <1>3 DEF NextOffset
<1> QED
  BY <1>2, <1>3, <1>5, <1>6 DEF q, address, next, IsFollowed

(* There is such a function, as offsets only grow.                           *)
LEMMA RecordsExist ==
    ASSUME NEW size \in Nat, NEW displacement \in Nat, size + displacement <= Bank * Banks
    PROVE  \E after : IsAfter(after, 0, size, displacement)
<1> DEFINE U == {k \in 0 .. size : ~\E after : IsAfter(after, size - k, size, displacement)}
           Last == <<Record("EndOfFile", 0, <<>>)>>
           Part(offset) == Chunk(offset, size, displacement)
           Successor(offset) == Following(offset, size, displacement)
<1>1. U \in SUBSET Nat
  OBVIOUS
<1>2. ASSUME U # {} PROVE FALSE
  <2>1. PICK m \in U : \A k \in U : m <= k
    BY <1>1, <1>2, LeastNatural
  <2>2. m # 0
    <3> DEFINE f == [offset \in size .. size |-> Last]
    <3>1. f = [offset \in size .. size |->
                 IF offset = size THEN Last ELSE Part(offset) \o f[Successor(offset)]]
      OBVIOUS
    <3>2. IsAfter(f, size - 0, size, displacement)
      BY <3>1 DEF IsAfter
    <3> QED
      BY <2>1, <3>2
  <2> DEFINE from == size - m
  <2>3. m \in Nat /\ m - 1 \in 0 .. size /\ m - 1 \notin U /\ size - (m - 1) = from + 1
        /\ from \in 0 .. size - 1
    BY <2>1, <2>2
  <2>4. PICK g : IsAfter(g, from + 1, size, displacement)
    BY <2>3
  <2>5. \A offset \in from .. size - 1 : Successor(offset) \in from + 1 .. size
    <3> SUFFICES ASSUME NEW offset \in from .. size - 1 PROVE Successor(offset) \in from + 1 .. size
      OBVIOUS
    <3>1. offset \in 0 .. size - 1
      BY <2>3
    <3>2. Successor(offset) \in Nat /\ offset < Successor(offset) /\ Successor(offset) <= size
      BY <3>1, FollowingBounds DEF IsFollowed
    <3> QED
      BY <2>3, <3>2
  <2> HIDE DEF from
  <2> DEFINE f == [offset \in from .. size |->
                     IF offset = from THEN Part(from) \o g[Successor(from)] ELSE g[offset]]
  <2> HIDE DEF Part, Successor, Last
  <2>6. \A offset \in from + 1 .. size : f[offset] = g[offset]
    BY <2>3
  <2>7. ASSUME NEW offset \in from .. size
        PROVE  f[offset] = IF offset = size THEN Last ELSE Part(offset) \o f[Successor(offset)]
    <3>1. CASE offset = from
      BY <2>3, <2>5, <2>6, <3>1
    <3>2. CASE offset # from
      <4>1. offset \in from + 1 .. size /\ f[offset] = g[offset]
        BY <2>3, <2>6, <3>2
      <4>2. g[offset] = IF offset = size THEN Last ELSE Part(offset) \o g[Successor(offset)]
        BY <2>4, <4>1 DEF IsAfter, Last, Part, Successor
      <4>3. offset # size => f[Successor(offset)] = g[Successor(offset)]
        BY <2>3, <2>5, <2>6, <4>1
      <4> QED
        BY <4>1, <4>2, <4>3
    <3> QED
      BY <3>1, <3>2
  <2>8. IsAfter(f, from, size, displacement)
    <3> DEFINE h == [offset \in from .. size |->
                       IF offset = size THEN Last ELSE Part(offset) \o f[Successor(offset)]]
    <3>1. \A offset \in from .. size : f[offset] = h[offset]
      BY <2>7
    <3>2. f = h
      BY <3>1
    <3> QED
      BY <3>2 DEF IsAfter, Last, Part, Successor
  <2> HIDE DEF f
  <2>9. ~\E after : IsAfter(after, from, size, displacement)
    BY <2>1 DEF from
  <2> QED
    BY <2>8, <2>9
<1>3. size \in 0 .. size /\ size - size = 0
  OBVIOUS
<1> QED
  BY <1>2, <1>3

(* Records is what that function yields from the beginning.                  *)
LEMMA RecordsAfter ==
    ASSUME NEW size \in Nat, NEW displacement \in Nat, size + displacement <= Bank * Banks
    PROVE  \E after : IsAfter(after, 0, size, displacement) /\ Records(size, displacement) = after[0]
<1> DEFINE h == CHOOSE f : f = [offset \in 0 .. size |->
                 IF offset = size THEN <<Record("EndOfFile", 0, <<>>)>>
                 ELSE Chunk(offset, size, displacement) \o f[Following(offset, size, displacement)]]
<1>1. PICK g : IsAfter(g, 0, size, displacement)
  BY RecordsExist, Zenon
<1>2. g = [offset \in 0 .. size |->
                 IF offset = size THEN <<Record("EndOfFile", 0, <<>>)>>
                 ELSE Chunk(offset, size, displacement) \o g[Following(offset, size, displacement)]]
  BY <1>1, Zenon DEF IsAfter
<1>3. h = [offset \in 0 .. size |->
                 IF offset = size THEN <<Record("EndOfFile", 0, <<>>)>>
                 ELSE Chunk(offset, size, displacement) \o h[Following(offset, size, displacement)]]
  BY <1>2
<1>4. Records(size, displacement) = h[0]
  BY Zenon DEF Records, Chunk, Following, DataRecord, UpperRecord
<1> QED
  BY <1>3, <1>4, Zenon DEF IsAfter

(* The bytes of a record are natural numbers.                                 *)
LEMMA RunType ==
    ASSUME NEW m \in Nat, NEW o \in Nat
    PROVE  [n \in 1 .. m |-> o + n - 1] \in Seq(Nat)
<1>1. \A n \in 1 .. m : o + n - 1 \in Nat
  OBVIOUS
<1> QED
  BY <1>1

(* From each offset on, records cover the rest of the bytes, if the upper    *)
(* half is right there or about to be set.                                   *)
LEMMA AfterCovers ==
    ASSUME NEW size \in Nat, NEW displacement \in Nat, size + displacement <= Bank * Banks,
           NEW after, IsAfter(after, 0, size, displacement),
           NEW from \in 0 .. size, NEW before \in Nat,
           from # size /\ ~SetsUpper(from, displacement) => before = (from + displacement) \div Bank
    PROVE  Covers(before, after[from], from, size, displacement)
<1> DEFINE Right(offset, upper) ==
               offset # size /\ ~SetsUpper(offset, displacement) => upper = (offset + displacement) \div Bank
           U == {k \in 0 .. size : \E upper \in Nat :
                   Right(size - k, upper) /\ ~Covers(upper, after[size - k], size - k, size, displacement)}
<1>1. U \in SUBSET Nat
  OBVIOUS
<1>2. ASSUME U # {} PROVE FALSE
  <2>1. PICK m \in U : \A k \in U : m <= k
    BY <1>1, <1>2, LeastNatural
  <2> DEFINE offset == size - m
  <2>2. offset \in 0 .. size /\ m = size - offset
    BY <2>1
  <2>3. PICK upper \in Nat : Right(offset, upper) /\ ~Covers(upper, after[offset], offset, size, displacement)
    BY <2>1
  <2> HIDE DEF offset
  <2>4. after[offset] = IF offset = size THEN <<Record("EndOfFile", 0, <<>>)>>
                        ELSE Chunk(offset, size, displacement) \o after[Following(offset, size, displacement)]
    BY <2>2 DEF IsAfter
  <2>5. offset # size
    BY <2>3, <2>4, CoversEnd
  <2>6. offset \in 0 .. size - 1 /\ offset \in Nat
    BY <2>2, <2>5
  <2>7. PICK q \in Nat, address \in 0 .. Bank - 1, next \in Nat :
             IsFollowed(offset, q, address, next, size, displacement)
    BY <2>6, FollowingBounds, Zenon
  <2>8. /\ offset + displacement = Bank * q + address
        /\ (offset + displacement) \div Bank = q /\ (offset + displacement) % Bank = address
        /\ q % Banks = q
        /\ Following(offset, size, displacement) = next
        /\ offset < next /\ next <= size /\ next - offset <= RecordLength
        /\ next = size \/ next - offset = RecordLength \/ next - offset = Bank - address
        /\ next - offset <= Bank - address
    BY <2>7 DEF IsFollowed
  <2> DEFINE data == DataRecord(offset, size, displacement)
             rest == after[next]
  <2>9. Right(next, q)
    <3> SUFFICES ASSUME next # size, ~SetsUpper(next, displacement)
                 PROVE  q = (next + displacement) \div Bank
      BY DEF Right
    <3>1. /\ Bank \in Nat /\ Bank > 0 /\ RecordLength \in Nat /\ next + displacement \in Nat
          /\ Bank * q \in Int
      BY HexFileAssumption
    <3>2. next + displacement = Bank * q + (address + (next - offset))
      BY <2>6, <2>8, <3>1
    <3>3. CASE next - offset = Bank - address
      <4>1. q + 1 \in Nat /\ next + displacement = Bank * (q + 1) + 0 /\ 0 \in 0 .. Bank - 1
        BY <3>1, <3>2, <3>3
      <4>2. (next + displacement) \div Bank = q + 1 /\ (next + displacement) % Bank = 0
        BY <3>1, <4>1, Divided
      <4>3. SetsUpper(next, displacement)
        BY <4>2 DEF SetsUpper
      <4> QED
        BY <4>3
    <3>4. CASE next - offset # Bank - address
      <4>1. PICK r \in 0 .. Bank - 1 : r = address + (next - offset)
        BY <2>6, <2>8, <3>1, <3>4
      <4>2. PICK x \in Nat : x = next + displacement /\ x = Bank * q + r
        BY <3>1, <3>2, <4>1
      <4>3. x \div Bank = q
        BY <3>1, <4>2, Divided
      <4> QED
        BY <4>2, <4>3
    <3> QED
      BY <3>3, <3>4
  <2>10. Covers(q, rest, next, size, displacement)
    <3> DEFINE k == size - next
    <3>1. k \in 0 .. size /\ k < m /\ size - k = next
      BY <2>2, <2>6, <2>8
    <3>2. k \notin U
      BY <2>1, <3>1
    <3> HIDE DEF k, Right
    <3> QED
      BY <2>9, <3>1, <3>2
  <2>11. data = Record("Data", address, [n \in 1 .. next - offset |-> offset + n - 1])
    BY <2>8 DEF DataRecord, Following
  <2>12. Covers(q, <<data>> \o rest, offset, size, displacement)
    <3>1. Bank * q + address = displacement + offset /\ address \in Nat
      BY <2>6, <2>8, HexFileAssumption
    <3> HIDE DEF data, rest
    <3> QED
      BY <2>6, <2>8, <2>10, <2>11, <3>1, CoversData
  <2>13. data \in AnyRecord /\ rest \in Seq(AnyRecord)
    <3>1. [n \in 1 .. next - offset |-> offset + n - 1] \in Seq(Nat)
      <4>1. PICK m1 \in Nat : m1 = next - offset
        BY <2>6, <2>8
      <4>2. [n \in 1 .. m1 |-> offset + n - 1] \in Seq(Nat)
        BY <2>6, RunType
      <4> QED
        BY <4>1, <4>2
    <3>2. rest \in Seq(AnyRecord)
      BY <2>10 DEF Covers
    <3> QED
      BY <2>8, <2>11, <3>1, <3>2, HexFileAssumption DEF AnyRecord, Record
  <2>14. CASE SetsUpper(offset, displacement)
    <3> DEFINE set == UpperRecord(offset, displacement)
    <3>1. set = Record("ExtendedLinearAddress", 0, q)
      BY <2>8 DEF UpperRecord
    <3>2. set \in AnyRecord
      BY <3>1 DEF AnyRecord, Record
    <3>3. after[offset] = (<<set>> \o <<data>>) \o rest
      BY <2>4, <2>5, <2>8, <2>14 DEF Chunk
    <3> HIDE DEF set, data, rest
    <3>4. (<<set>> \o <<data>>) \o rest = <<set>> \o (<<data>> \o rest)
      BY <2>13, <3>2
    <3>5. Covers(upper, <<set>> \o (<<data>> \o rest), offset, size, displacement)
      BY <2>12, <3>1, CoversUpper
    <3> QED
      BY <2>3, <3>3, <3>4, <3>5
  <2>15. CASE ~SetsUpper(offset, displacement)
    <3>1. upper = q
      BY <2>3, <2>5, <2>8, <2>15
    <3>2. after[offset] = (<<>> \o <<data>>) \o rest
      BY <2>4, <2>5, <2>8, <2>15 DEF Chunk
    <3>3. <<>> \o <<data>> = <<data>>
      BY <2>13
    <3> QED
      BY <2>3, <2>12, <3>1, <3>2, <3>3
  <2> QED
    BY <2>14, <2>15
<1>3. PICK k \in 0 .. size : k = size - from /\ size - k = from
  OBVIOUS
<1>4. k \notin U
  BY <1>2
<1> QED
  BY <1>3, <1>4

(* UpperAt finds the upper half that was set last, or zero.                  *)
LEMMA UpperAtLast ==
    ASSUME NEW records, NEW i \in Nat
    PROVE  IsUpper(0, records, i, UpperAt(records, i))
<1> DEFINE setting == {k \in 1 .. i : records[k].type = "ExtendedLinearAddress"}
           last == CHOOSE k \in setting : \A j \in setting : j <= k
<1>1. CASE setting = {}
  <2>1. UpperAt(records, i) = 0
    BY <1>1 DEF UpperAt
  <2>2. \A k \in 1 .. i : ~SetsIn(records, k)
    BY <1>1 DEF SetsIn
  <2> QED
    BY <2>1, <2>2, Zenon DEF IsUpper
<1>2. CASE setting # {}
  <2>1. UpperAt(records, i) = records[last].carried
    BY <1>2 DEF UpperAt
  <2>2. \E k \in setting : \A j \in setting : j <= k
    <3> DEFINE U == {i - k : k \in setting}
    <3>1. U \in SUBSET Nat /\ U # {}
      BY <1>2
    <3>2. PICK u \in U : \A w \in U : u <= w
      BY <3>1, LeastNatural
    <3>3. PICK k \in setting : u = i - k
      BY <3>2
    <3>4. ASSUME NEW j \in setting PROVE j <= k
      <4>1. i - j \in U
        OBVIOUS
      <4>2. i - k <= i - j
        BY <3>2, <3>3, <4>1
      <4> QED
        BY <4>2
    <3> QED
      BY <3>4
  <2>3. last \in setting /\ \A j \in setting : j <= last
    BY <2>2, Zenon
  <2> HIDE DEF last
  <2>4. last \in 1 .. i /\ SetsIn(records, last)
    BY <2>3 DEF SetsIn
  <2>5. \A l \in last + 1 .. i : ~SetsIn(records, l)
    BY <2>3 DEF SetsIn
  <2> QED
    BY <2>1, <2>4, <2>5 DEF IsUpper
<1> QED
  BY <1>1, <1>2

(* Records that cover all bytes program all bytes.                           *)
LEMMA CoveredProgrammed ==
    ASSUME NEW records, NEW size \in Nat, NEW displacement \in Nat,
           Covers(0, records, 0, size, displacement)
    PROVE  /\ Programmed(records) = {<<displacement + offset, offset>> : offset \in 0 .. size - 1}
           /\ \A sent, other \in Sent(records) :
                ByteOf(records, sent) = ByteOf(records, other) => sent = other
<1>1. \A sent \in Sent(records) : /\ Sends(records, sent[1], sent[2], ByteOf(records, sent))
                                  /\ sent = <<sent[1], sent[2]>>
  BY DEF Sent, Sends, ByteOf
<1>2. \A i, n, byte : Sends(records, i, n, byte) =>
        <<i, n>> \in Sent(records) /\ ByteOf(records, <<i, n>>) = byte
  BY DEF Sent, Sends, ByteOf
<1>3. \A i, n, byte : Sends(records, i, n, byte) =>
        /\ byte \in 0 .. size - 1
        /\ Bank * UpperAt(records, i) + records[i].offset + n - 1 = displacement + byte
  <2> SUFFICES ASSUME NEW i, NEW n, NEW byte, Sends(records, i, n, byte)
               PROVE  /\ byte \in 0 .. size - 1
                      /\ Bank * UpperAt(records, i) + records[i].offset + n - 1 = displacement + byte
    OBVIOUS
  <2>1. i \in Nat
    <3>1. records \in Seq(AnyRecord) /\ i \in DOMAIN records
      BY DEF Covers, Sends
    <3> QED
      BY <3>1
  <2>2. IsUpper(0, records, i, UpperAt(records, i))
    BY <2>1, UpperAtLast
  <2>3. /\ byte \in 0 .. size - 1
        /\ \A upper : IsUpper(0, records, i, upper) =>
             Bank * upper + records[i].offset + n - 1 = displacement + byte
    BY DEF Covers
  <2> QED
    BY <2>2, <2>3, Zenon
<1> DEFINE Pair(sent) == <<Bank * UpperAt(records, sent[1]) + records[sent[1]].offset + sent[2] - 1,
                           ByteOf(records, sent)>>
<1>4. \A sent \in Sent(records) : \E offset \in 0 .. size - 1 : Pair(sent) = <<displacement + offset, offset>>
  <2> SUFFICES ASSUME NEW sent \in Sent(records)
               PROVE  \E offset \in 0 .. size - 1 : Pair(sent) = <<displacement + offset, offset>>
    OBVIOUS
  <2>1. PICK byte : byte = ByteOf(records, sent)
    OBVIOUS
  <2>2. Sends(records, sent[1], sent[2], byte)
    BY <1>1, <2>1
  <2>3. /\ byte \in 0 .. size - 1
        /\ Bank * UpperAt(records, sent[1]) + records[sent[1]].offset + sent[2] - 1 = displacement + byte
    BY <1>3, <2>2
  <2> QED
    BY <2>1, <2>3
<1>5. \A offset \in 0 .. size - 1 : \E sent \in Sent(records) : Pair(sent) = <<displacement + offset, offset>>
  <2> SUFFICES ASSUME NEW offset \in 0 .. size - 1
               PROVE  \E sent \in Sent(records) : Pair(sent) = <<displacement + offset, offset>>
    OBVIOUS
  <2>1. PICK i, n : Sends(records, i, n, offset)
    BY DEF Covers
  <2>2. PICK sent : sent = <<i, n>>
    OBVIOUS
  <2>4. sent[1] = i /\ sent[2] = n
    BY <2>2
  <2>3. sent \in Sent(records) /\ ByteOf(records, sent) = offset
    BY <1>2, <2>1, <2>2
  <2> QED
    BY <1>3, <2>1, <2>3, <2>4
<1>6. Programmed(records) = {Pair(sent) : sent \in Sent(records)}
  BY DEF Programmed
<1> HIDE DEF Pair
<1>7. Programmed(records) = {<<displacement + offset, offset>> : offset \in 0 .. size - 1}
  BY <1>4, <1>5, <1>6
<1>8. ASSUME NEW sent \in Sent(records), NEW other \in Sent(records),
             ByteOf(records, sent) = ByteOf(records, other)
      PROVE  sent = other
  <2>1. /\ Sends(records, sent[1], sent[2], ByteOf(records, sent))
        /\ Sends(records, other[1], other[2], ByteOf(records, sent))
    BY <1>1, <1>8
  <2>2. sent[1] = other[1] /\ sent[2] = other[2]
    BY <2>1 DEF Covers
  <2> QED
    BY <1>1, <2>2
<1> QED
  BY <1>7, <1>8

(* The file of an image has just the bytes of the image, each at its address *)
(* and once, whatever banks it crosses, as long as the format has addresses  *)
(* for all of them.                                                          *)
THEOREM Programming == Spec => []ImageProgrammed
<1>1. IInv => ImageProgrammed
  <2> SUFFICES ASSUME IInv, ~(Bank * Banks < arrangement.origin + arrangement.extent)
               PROVE  LET records == Records(arrangement.extent, arrangement.origin)
                      IN  /\ Programmed(records) =
                              {<<arrangement.origin + offset, offset>> : offset \in 0 .. arrangement.extent - 1}
                          /\ \A sent, other \in Sent(records) :
                              ByteOf(records, sent) = ByteOf(records, other) => sent = other
    BY DEF ImageProgrammed
  <2>1. PICK size \in Nat, displacement \in Nat :
          size = arrangement.extent /\ displacement = arrangement.origin
    BY ModulusNat DEF IInv, IsProper, Arrangement
  <2>2. size + displacement <= Bank * Banks
    <3>1. Bank \in Nat /\ Banks \in Nat
      BY HexFileAssumption
    <3> QED
      BY <2>1, <3>1
  <2>3. PICK after : IsAfter(after, 0, size, displacement) /\ Records(size, displacement) = after[0]
    BY <2>2, RecordsAfter
  <2>4. 0 # size /\ ~SetsUpper(0, displacement) => 0 = (0 + displacement) \div Bank
    BY DEF SetsUpper
  <2>5. Covers(0, after[0], 0, size, displacement)
    <3>1. 0 \in 0 .. size
      OBVIOUS
    <3> QED
      BY <2>2, <2>3, <2>4, <3>1, AfterCovers
  <2> QED
    BY <2>1, <2>3, <2>5, CoveredProgrammed
<1> QED
  BY <1>1, Invariance, PTL
===============================================================================
