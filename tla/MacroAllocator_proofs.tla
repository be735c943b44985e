------------------------ MODULE MacroAllocator_proofs ------------------------
(***************************************************************************)
(* What the allocator does to the store, for every number and size of the  *)
(* pages and every list of macros, and how the virtual machine walks what  *)
(* it has written: the walk follows the links that it leaves in the pages. *)
(* The lemmas say that each invariant is kept by every step;               *)
(* ProfilePlan_proofs uses them.                                           *)
(***************************************************************************)
EXTENDS MacroVm, MacroAllocator, FiniteSetTheorems, SequenceTheorems,
        WellFoundedInduction, TLAPS

\* A set of naturals has a least element: induction, in first-order terms.
LEMMA Least ==
  ASSUME NEW S \in SUBSET Nat, S # {}
  PROVE  \E n \in S : \A k \in S : n <= k
<1> DEFINE Less == {pair \in Nat \X Nat : pair[1] < pair[2]}
<1>1. IsWellFoundedOn(Less, Nat)
  BY NatLessThanWellFounded, Zenon DEF OpToRel
<1> HIDE DEF Less
<1>2. PICK n \in S : \A k \in S : ~ (<<k, n>> \in Less)
  BY <1>1, WFMin
<1>3. \A k \in S : ~ (k < n)
  BY <1>2 DEF Less
<1> QED
  BY <1>3

\* Bytes of an instruction.
Width(ins) == IF ins[1] \in Singles THEN 1 ELSE 3

-----------------------------------------------------------------------------
(* Offsets in a macro *)

LEMMA WidthOfOp ==
  ASSUME NEW ins
  PROVE  /\ Width(ins) \in {1, 3}
         /\ Op(ins) \in {"END", "ONE", "THREE"}
         /\ Size(Op(ins)) = Width(ins)
         /\ Op(ins) = "END" <=> ins = End
<1>1. ins = End => ins[1] \in Singles
  <2>1. End[1] \in Singles
    BY DEF End, Singles
  <2> QED BY <2>1
<1>2. Op(ins) = IF ins = End THEN "END" ELSE IF ins[1] \in Singles THEN "ONE" ELSE "THREE"
  BY DEF Op
<1>3. CASE ins = End
  BY <1>1, <1>2, <1>3 DEF Width, Size
<1>4. CASE ins # End /\ ins[1] \in Singles
  BY <1>2, <1>4 DEF Width, Size
<1>5. CASE ins # End /\ ins[1] \notin Singles
  BY <1>2, <1>5 DEF Width, Size
<1> QED BY <1>3, <1>4, <1>5

LEMMA BeforeFirst ==
  ASSUME NEW code
  PROVE  Before(code, 1) = 0
<1>1. {j \in 1 .. 1 - 1 : code[j][1] \notin Singles} = {}
  OBVIOUS
<1> QED BY <1>1, FS_EmptySet DEF Before

LEMMA BeforeNext ==
  ASSUME NEW code, NEW n \in Nat \ {0}
  PROVE  /\ Before(code, n) \in Nat
         /\ Before(code, n + 1) = Before(code, n) + Width(code[n])
<1> DEFINE Long(k) == {j \in 1 .. k - 1 : code[j][1] \notin Singles}
<1>1. IsFiniteSet(Long(n)) /\ Cardinality(Long(n)) \in Nat
  <2>1. IsFiniteSet(1 .. n - 1)
    BY FS_Interval
  <2> QED BY <2>1, FS_Subset, FS_CardinalityType
<1>2. n \notin Long(n)
  OBVIOUS
<1>3. Long(n + 1) = IF code[n][1] \in Singles THEN Long(n) ELSE Long(n) \union {n}
  OBVIOUS
<1>4. Cardinality(Long(n + 1)) = Cardinality(Long(n)) + (IF code[n][1] \in Singles THEN 0 ELSE 1)
  <2> HIDE DEF Long
  <2>1. CASE code[n][1] \in Singles
    BY <1>1, <1>3, <2>1
  <2>2. CASE code[n][1] \notin Singles
    BY <1>1, <1>2, <1>3, <2>2, FS_AddElement
  <2> QED BY <2>1, <2>2
<1>5. Before(code, n) = (n - 1) + 2 * Cardinality(Long(n))
  BY DEF Before
<1>6. Before(code, n + 1) = (n + 1 - 1) + 2 * Cardinality(Long(n + 1))
  BY DEF Before
<1> HIDE DEF Long
<1> QED BY <1>1, <1>4, <1>5, <1>6 DEF Width

LEMMA BeforeGrows ==
  ASSUME NEW code, NEW a \in Nat \ {0}, NEW b \in Nat, a <= b
  PROVE  Before(code, a) + (b - a) <= Before(code, b)
<1> DEFINE Long(k) == {j \in 1 .. k - 1 : code[j][1] \notin Singles}
<1>1. IsFiniteSet(Long(b)) /\ Long(a) \subseteq Long(b)
  <2>1. IsFiniteSet(1 .. b - 1)
    BY FS_Interval
  <2> QED BY <2>1, FS_Subset
<1>2. Cardinality(Long(a)) <= Cardinality(Long(b))
  <2> HIDE DEF Long
  <2> QED BY <1>1, FS_Subset
<1>3. Cardinality(Long(a)) \in Nat /\ Cardinality(Long(b)) \in Nat
  <2> HIDE DEF Long
  <2> QED BY <1>1, FS_Subset, FS_CardinalityType
<1>4. /\ Before(code, a) = (a - 1) + 2 * Cardinality(Long(a))
      /\ Before(code, b) = (b - 1) + 2 * Cardinality(Long(b))
  BY DEF Before
<1> HIDE DEF Long
<1> QED BY <1>2, <1>3, <1>4

LEMMA IntervalSize ==
  ASSUME NEW a \in Int, NEW b \in Int
  PROVE  IsFiniteSet(a .. b) /\ Cardinality(a .. b) = IF a > b THEN 0 ELSE b - a + 1
BY FS_Interval

\* A number that is not in a set of consecutive numbers ends it.
LEMMA LastOfRun ==
  ASSUME NEW a \in Nat, NEW b \in Nat, NEW S \in SUBSET (a .. b), a \in S, b \notin S,
         \A x \in S : a .. x \subseteq S
  PROVE  \E e \in a .. b - 1 : e \in S /\ e + 1 \notin S
<1> DEFINE e == a + Cardinality(S) - 1
<1>1. IsFiniteSet(a .. b)
  BY FS_Interval
<1>2. IsFiniteSet(S) /\ Cardinality(S) \in Nat
  <2>1. IsFiniteSet(S)
    BY <1>1, FS_Subset
  <2> QED BY <2>1, FS_CardinalityType
<1>3. Cardinality(S) # 0
  BY <1>2, FS_EmptySet
<1>4. e \in Nat /\ a <= e /\ Cardinality(S) = e - a + 1
  BY <1>2, <1>3
<1> HIDE DEF e
<1>5. ASSUME e \notin S PROVE FALSE
  <2>1. PICK d \in Int : d = e - 1
    BY <1>4
  <2>2. S \subseteq a .. d
    BY <2>1, <1>4, <1>5
  <2>3. IsFiniteSet(a .. d) /\ Cardinality(a .. d) = IF a > d THEN 0 ELSE d - a + 1
    <3>1. a \in Int
      OBVIOUS
    <3> QED BY <2>1, <3>1, IntervalSize, Zenon
  <2>4. PICK R : R = a .. d
    OBVIOUS
  <2>5. IsFiniteSet(R) /\ S \in SUBSET R
    BY <2>2, <2>3, <2>4
  <2>6. Cardinality(S) <= Cardinality(R)
    BY <2>5, FS_Subset
  <2>7. Cardinality(R) = IF a > d THEN 0 ELSE d - a + 1
    BY <2>3, <2>4
  <2>8. CASE a > d
    BY <2>1, <2>6, <2>7, <2>8, <1>4
  <2>9. CASE ~(a > d)
    BY <2>1, <2>6, <2>7, <2>9, <1>4
  <2> QED BY <2>8, <2>9
<1>6. ASSUME e + 1 \in S PROVE FALSE
  <2>1. a .. e + 1 \subseteq S
    BY <1>6
  <2>2. Cardinality(a .. e + 1) = e + 1 - a + 1
    BY <1>4, FS_Interval
  <2>3. Cardinality(a .. e + 1) <= Cardinality(S)
    BY <1>2, <2>1, FS_Subset
  <2> QED BY <2>2, <2>3, <1>4
<1>7. e \in a .. b - 1
  BY <1>4, <1>5
<1> QED BY <1>5, <1>6, <1>7

-----------------------------------------------------------------------------
(* What is left of the macro in hand *)

LEMMA Store ==
  /\ PageData \in Nat /\ PageData >= 8 /\ SectorSize \in Nat /\ PageData <= SectorSize
  /\ GlobalFirst \in Nat /\ GlobalLast \in Nat /\ GlobalFirst <= GlobalLast
  /\ Global \subseteq Addressable
  /\ \A s : s \in Global <=> s \in Int /\ GlobalFirst <= s /\ s <= GlobalLast
BY PagesAssumption, GlobalAssumption DEF Global

LEMMA InHand ==
  ASSUME AllocationTypeOK, tok > 0
  PROVE  /\ m \in DOMAIN start /\ Tokens(macros[m])
         /\ Len(macros[m]) \in Nat /\ tok \in 1 .. Len(macros[m])
<1>1. Len(start) = m /\ DOMAIN start = 1 .. Len(start)
  BY LenProperties DEF AllocationTypeOK
<1>2. m \in DOMAIN start
  BY <1>1 DEF AllocationTypeOK
<1>3. Tokens(macros[m])
  BY <1>2 DEF AllocationTypeOK
<1>4. Len(macros[m]) \in Nat
  BY <1>3, LenProperties DEF Tokens
<1> QED BY <1>2, <1>3, <1>4 DEF AllocationTypeOK

LEMMA Extents ==
  ASSUME AllocationTypeOK, tok > 0
  PROVE  /\ Before(macros[m], tok) \in Nat
         /\ Length(macros[m]) \in Nat
         /\ Remaining \in Nat /\ Remaining >= 1
         /\ Extent(Len(macros[m])) = Remaining
         /\ Extent(tok) \in 1 .. 3
         /\ \A e \in tok .. Len(macros[m]) : Extent(e) \in Nat /\ Extent(e) >= 1
         /\ \A e \in tok .. Len(macros[m]) : Extent(e + 1) <= Extent(e) + 3
         /\ \A d, e \in tok .. Len(macros[m]) : d <= e => Extent(d) <= Extent(e)
<1> DEFINE code == macros[m]
<1>1. Len(code) \in Nat /\ tok \in 1 .. Len(code) /\ tok \in Nat \ {0}
  BY InHand DEF AllocationTypeOK
<1>2. Before(code, tok) \in Nat
  BY <1>1, BeforeNext
<1>3. \A e \in tok .. Len(code) : Before(code, e + 1) \in Nat
  <2>1. \A e \in tok .. Len(code) : e + 1 \in Nat \ {0}
    BY <1>1
  <2> QED BY <2>1, BeforeNext
<1>4. \A e \in tok .. Len(code) : Before(code, tok) + (e + 1 - tok) <= Before(code, e + 1)
  <2> TAKE e \in tok .. Len(code)
  <2>1. e + 1 \in Nat /\ tok <= e + 1
    BY <1>1
  <2> QED BY <1>1, <2>1, BeforeGrows
<1>5. \A e \in tok .. Len(code) : Before(code, e + 1 + 1) <= Before(code, e + 1) + 3
  <2> TAKE e \in tok .. Len(code)
  <2>1. e + 1 \in Nat \ {0}
    BY <1>1
  <2>2. Before(code, e + 1) \in Nat /\ Before(code, e + 1 + 1) = Before(code, e + 1) + Width(code[e + 1])
    BY <2>1, BeforeNext
  <2>3. Width(code[e + 1]) \in {1, 3}
    BY WidthOfOp
  <2> QED BY <2>2, <2>3
<1>6. \A d, e \in tok .. Len(code) : d <= e => Before(code, d + 1) <= Before(code, e + 1)
  <2> TAKE d, e \in tok .. Len(code)
  <2> HAVE d <= e
  <2>1. d + 1 \in Nat \ {0} /\ e + 1 \in Nat /\ d + 1 <= e + 1
    BY <1>1
  <2>2. Before(code, d + 1) + (e + 1 - (d + 1)) <= Before(code, e + 1)
    BY <2>1, BeforeGrows
  <2> QED BY <1>1, <1>3, <2>2
<1>7. Before(code, tok + 1) = Before(code, tok) + Width(code[tok]) /\ Width(code[tok]) \in {1, 3}
  BY <1>1, BeforeNext, WidthOfOp
<1>8. Len(code) \in tok .. Len(code) /\ tok \in tok .. Len(code)
  BY <1>1
<1> HIDE DEF code
<1>9. \A e : Extent(e) = Before(code, e + 1) - Before(code, tok)
  BY DEF Extent, code
<1>10. Remaining = Before(code, Len(code) + 1) - Before(code, tok)
  BY DEF Remaining, Length, code
<1>11. Extent(Len(code)) = Remaining
  BY <1>9, <1>10
<1>12. \A e \in tok .. Len(code) : Extent(e) \in Nat /\ Extent(e) >= 1
  <2> TAKE e \in tok .. Len(code)
  <2>1. Before(code, e + 1) \in Nat /\ Before(code, tok) + (e + 1 - tok) <= Before(code, e + 1)
    BY <1>3, <1>4
  <2> QED BY <1>1, <1>2, <1>9, <2>1
<1>13. Extent(tok) \in 1 .. 3
  BY <1>2, <1>7, <1>9
<1>14. \A e \in tok .. Len(code) : Extent(e + 1) <= Extent(e) + 3
  <2> TAKE e \in tok .. Len(code)
  <2>1. Before(code, e + 1) \in Nat /\ Before(code, e + 1 + 1) <= Before(code, e + 1) + 3
    BY <1>3, <1>5
  <2>2. Before(code, e + 1 + 1) \in Nat
    <3>1. e + 1 + 1 \in Nat \ {0}
      BY <1>1
    <3> QED BY <3>1, BeforeNext
  <2> QED BY <1>2, <1>9, <2>1, <2>2
<1>15. \A d, e \in tok .. Len(code) : d <= e => Extent(d) <= Extent(e)
  <2> TAKE d, e \in tok .. Len(code)
  <2>1. Before(code, d + 1) \in Nat /\ Before(code, e + 1) \in Nat
    BY <1>3
  <2>2. d <= e => Before(code, d + 1) <= Before(code, e + 1)
    BY <1>6
  <2> QED BY <1>2, <1>9, <2>1, <2>2
<1>16. Length(code) \in Nat
  BY <1>3, <1>8 DEF Length
<1> QED BY <1>2, <1>8, <1>11, <1>12, <1>13, <1>14, <1>15, <1>16 DEF code

LEMMA LastFitFits ==
  ASSUME AllocationTypeOK, tok > 0, Remaining > Available, Fits(tok)
  PROVE  /\ LastFit \in tok .. Len(macros[m]) - 1
         /\ Fits(LastFit) /\ ~Fits(LastFit + 1)
<1> DEFINE last == Len(macros[m])
           S == {e \in tok .. last : Fits(e)}
<1>1. last \in Nat /\ tok \in Nat /\ tok <= last
  BY InHand DEF AllocationTypeOK
<1>2. tok \in S
  BY <1>1
<1>3. Available \in Int
  BY Store DEF Available, AllocationTypeOK
<1>4. last \notin S
  <2>1. Extent(last) = Remaining /\ Remaining \in Nat
    BY Extents
  <2> QED BY <2>1, <1>3 DEF Fits
<1>5. \A x \in S : tok .. x \subseteq S
  <2> TAKE x \in S
  <2>1. \A d \in tok .. x : d \in tok .. last /\ d <= x
    BY <1>1
  <2>2. \A d \in tok .. x : Extent(d) <= Extent(x) /\ Extent(d) \in Nat
    BY <2>1, Extents
  <2>3. Extent(x) \in Nat /\ Extent(x) <= Available - 5
    BY Extents DEF Fits
  <2>4. \A d \in tok .. x : Fits(d)
    BY <1>3, <2>2, <2>3 DEF Fits
  <2> QED BY <2>1, <2>4
<1>6. S \in SUBSET (tok .. last)
  OBVIOUS
<1> HIDE DEF S
<1>7. \E e \in tok .. last - 1 : e \in S /\ e + 1 \notin S
  BY <1>1, <1>2, <1>4, <1>5, <1>6, LastOfRun
<1>8. \E e \in tok .. last - 1 : Fits(e) /\ ~Fits(e + 1)
  <2>1. PICK e \in tok .. last - 1 : e \in S /\ e + 1 \notin S
    BY <1>7
  <2>2. e + 1 \in tok .. last
    BY <1>1, <2>1
  <2> QED BY <2>1, <2>2 DEF S
<1> QED BY <1>8 DEF LastFit

-----------------------------------------------------------------------------
(* The cursor and the counters.  A page that was left holds at least        *)
(* PageData - 7 bytes of macros.                                            *)

IdleInv ==
  outcome = "idle" =>
    /\ m = 1 /\ tok = 0 /\ sector = GlobalFirst /\ offset = 0 /\ start = <<>>
    /\ placed = 0 /\ used = 0 /\ waste = 0

Dense(s) == (s - GlobalFirst) * (PageData - 7)
Behind(s) == (GlobalLast - s) * PageData
Whole == (GlobalLast - GlobalFirst + 1) * PageData

DenseInv == placed >= Dense(sector) + offset
BalanceInv == used + waste + Behind(sector) + Available = Whole
SplitInv == tok > 0 /\ split => offset = 0

CountInv ==
  AllocationTypeOK /\ IdleInv /\ DenseInv /\ BalanceInv /\ SplitInv /\ HonestRefusal

LEMMA Numbers ==
  ASSUME AllocationTypeOK
  PROVE  /\ sector \in Nat /\ GlobalFirst <= sector /\ sector <= GlobalLast
         /\ offset \in Nat /\ offset <= PageData
         /\ Available \in Nat /\ Available = PageData - offset
         /\ placed \in Nat /\ used \in Nat /\ waste \in Nat
         /\ m \in Nat \ {0} /\ tok \in Nat
BY Store DEF AllocationTypeOK, Available

\* What another page adds.
LEMMA Products ==
  /\ \A s \in Int : Dense(s) \in Int /\ Behind(s) \in Int
  /\ \A s \in Int : Dense(s + 1) = Dense(s) + PageData - 7
  /\ \A s \in Int : Behind(s) = Behind(s + 1) + PageData
  /\ Whole \in Int /\ Whole = Behind(GlobalFirst) + PageData
  /\ Dense(GlobalFirst) = 0
  /\ Dense(GlobalLast) = (GlobalLast - GlobalFirst) * (PageData - 7)
<1>1. \A s \in Int : Dense(s) \in Int /\ Behind(s) \in Int
  BY Store DEF Dense, Behind
<1>2. \A s \in Int : Dense(s + 1) = Dense(s) + PageData - 7
  BY Store DEF Dense
<1>3. \A s \in Int : Behind(s) = Behind(s + 1) + PageData
  BY Store DEF Behind
<1>4. Whole \in Int /\ Whole = Behind(GlobalFirst) + PageData
  BY Store DEF Behind, Whole
<1>5. Dense(GlobalFirst) = 0 /\ Dense(GlobalLast) = (GlobalLast - GlobalFirst) * (PageData - 7)
  BY Store DEF Dense
<1> QED BY <1>1, <1>2, <1>3, <1>4, <1>5

LEMMA CountInit == AllocationInit => CountInv
<1> SUFFICES ASSUME AllocationInit PROVE CountInv
  OBVIOUS
<1>1. start \in Seq(Global \X (0 .. PageData - 1)) /\ Len(start) = 0
  BY EmptySeq DEF AllocationInit
<1>2. AllocationTypeOK
  <2>1. DOMAIN start = {}
    BY <1>1, LenProperties
  <2>2. sector \in Global /\ offset \in 0 .. PageData
    BY Store DEF AllocationInit
  <2>3. \A i \in DOMAIN start : Tokens(macros[i])
    BY <2>1
  <2>4. Len(start) = (IF tok > 0 THEN m ELSE m - 1)
    BY <1>1 DEF AllocationInit
  <2>5. /\ m \in Nat \ {0} /\ tok \in Nat /\ split \in BOOLEAN
        /\ tok > 0 => tok <= Len(macros[m])
        /\ placed \in Nat /\ used \in Nat /\ waste \in Nat
    <3>1. m = 1 /\ tok = 0 /\ placed = 0 /\ used = 0 /\ waste = 0
      BY DEF AllocationInit
    <3>2. split \in BOOLEAN
      BY DEF AllocationInit
    <3> QED BY <3>1, <3>2
  <2>6. outcome \in {"idle", "busy", "done", "exhausted", "stuck", "malformed"}
    BY DEF AllocationInit
  <2> QED BY <1>1, <2>2, <2>3, <2>4, <2>5, <2>6 DEF AllocationTypeOK
<1>3. DenseInv
  BY Products DEF AllocationInit, DenseInv
<1>4. BalanceInv
  <2>1. Whole = Behind(GlobalFirst) + PageData /\ Behind(GlobalFirst) \in Int
    BY Store, Products
  <2>2. used = 0 /\ waste = 0 /\ sector = GlobalFirst /\ Available = PageData
    BY Store DEF AllocationInit, Available
  <2> QED BY <2>1, <2>2, Store DEF BalanceInv
<1> QED
  BY <1>2, <1>3, <1>4 DEF AllocationInit, CountInv, IdleInv, SplitInv, HonestRefusal

LEMMA GiveUpCount ==
  ASSUME CountInv, NEW w \in {"exhausted", "malformed"}, outcome = "busy", GiveUp(w),
         w = "exhausted" =>
           placed + Length(macros[m]) - (IF tok > 0 THEN Before(macros[m], tok) ELSE 0)
             > Dense(GlobalLast) + PageData - 5
  PROVE  CountInv'
<1>1. UNCHANGED <<m, tok, split, sector, offset, start, macros, placed, used, waste>> /\ outcome' = w
  BY DEF GiveUp, cursor, ledger
<1>2. AllocationTypeOK'
  BY <1>1 DEF CountInv, AllocationTypeOK
<1>3. (IdleInv /\ DenseInv /\ BalanceInv /\ SplitInv)'
  BY <1>1 DEF CountInv, IdleInv, DenseInv, BalanceInv, SplitInv, Available
<1>4. HonestRefusal'
  BY <1>1, Products DEF HonestRefusal
<1> QED
  BY <1>2, <1>3, <1>4 DEF CountInv

LEMMA BeginMacroCount == CountInv /\ BeginMacro => CountInv'
<1> SUFFICES ASSUME CountInv, BeginMacro PROVE CountInv'
  OBVIOUS
<1> DEFINE skip == offset > PageData - 6
           s == IF skip THEN sector + 1 ELSE sector
           o == IF skip THEN 0 ELSE offset
<1>1. AllocationTypeOK /\ DenseInv /\ BalanceInv /\ tok = 0 /\ outcome = "busy" /\ m \in Nat
  BY DEF CountInv, BeginMacro, AllocationTypeOK
<1>2. CASE ~Tokens(macros[m])
  BY <1>2, GiveUpCount DEF BeginMacro
<1>3. CASE Tokens(macros[m]) /\ s > GlobalLast
  <2>1. skip /\ sector = GlobalLast /\ offset >= PageData - 5
    BY <1>1, <1>3, Store DEF AllocationTypeOK
  <2>2. Length(macros[m]) \in Nat /\ Length(macros[m]) >= 1
    <3>1. Len(macros[m]) \in Nat /\ Len(macros[m]) >= 1
      BY <1>3, LenProperties DEF Tokens
    <3>2. Before(macros[m], 1) = 0
      BY BeforeFirst
    <3>3. Before(macros[m], 1) + (Len(macros[m]) + 1 - 1) <= Before(macros[m], Len(macros[m]) + 1)
      BY <3>1, BeforeGrows
    <3>4. Before(macros[m], Len(macros[m]) + 1) \in Nat
      <4>1. Len(macros[m]) + 1 \in Nat \ {0}
        BY <3>1
      <4> QED BY <4>1, BeforeNext
    <3> QED BY <3>1, <3>2, <3>3, <3>4 DEF Length
  <2>3. placed >= Dense(GlobalLast) + offset
    BY <1>1, <2>1 DEF DenseInv
  <2>4. GiveUp("exhausted")
    BY <1>3 DEF BeginMacro
  <2>5. placed + Length(macros[m]) - 0 > Dense(GlobalLast) + PageData - 5
    BY <1>1, <2>1, <2>2, <2>3, Store, Products, Numbers
  <2> QED
    BY <1>1, <2>4, <2>5, GiveUpCount
<1>4. CASE Tokens(macros[m]) /\ ~(s > GlobalLast)
  <2>1. /\ sector' = s /\ offset' = o /\ tok' = 1 /\ split' = FALSE
        /\ start' = Append(start, <<s, o>>)
        /\ waste' = IF skip THEN waste + Available ELSE waste
        /\ UNCHANGED <<macros, m, placed, used, outcome>>
    BY <1>4 DEF BeginMacro
  <2>2. s \in Global /\ o \in 0 .. PageData - 6
    BY <1>1, <1>4, Store DEF AllocationTypeOK
  <2>3. Available \in Nat
    BY <1>1, Store DEF Available, AllocationTypeOK
  <2>4. AllocationTypeOK'
    <3>1. start \in Seq(Global \X (0 .. PageData - 1)) /\ Len(start) = m - 1
      BY <1>1 DEF AllocationTypeOK
    <3>2. <<s, o>> \in Global \X (0 .. PageData - 1)
      BY <2>2, Store
    <3> HIDE DEF s, o
    <3>3. start' \in Seq(Global \X (0 .. PageData - 1)) /\ Len(start') = m
      <4>1. /\ Append(start, <<s, o>>) \in Seq(Global \X (0 .. PageData - 1))
            /\ Len(Append(start, <<s, o>>)) = Len(start) + 1
        BY <3>1, <3>2, AppendProperties
      <4> QED BY <1>1, <2>1, <3>1, <4>1
    <3>4. DOMAIN start' = 1 .. m /\ DOMAIN start = 1 .. m - 1
      BY <3>1, <3>3, LenProperties
    <3>5. \A i \in DOMAIN start' : Tokens(macros'[i])
      <4>1. \A i \in DOMAIN start' : i = m \/ i \in DOMAIN start
        BY <1>1, <3>4
      <4>2. \A i \in DOMAIN start : Tokens(macros[i])
        BY <1>1 DEF AllocationTypeOK
      <4> QED BY <1>4, <2>1, <4>1, <4>2
    <3>6. 1 <= Len(macros[m])
      BY <1>4, LenProperties DEF Tokens
    <3>7. waste' \in Nat /\ offset' \in 0 .. PageData /\ sector' \in Global
      BY <1>1, <2>1, <2>2, <2>3, Store DEF AllocationTypeOK
    <3>8. /\ m' \in Nat \ {0} /\ tok' \in Nat /\ split' \in BOOLEAN
          /\ tok' > 0 => tok' <= Len(macros'[m'])
          /\ placed' \in Nat /\ used' \in Nat
      BY <1>1, <2>1, <3>6 DEF AllocationTypeOK
    <3>9. Len(start') = (IF tok' > 0 THEN m' ELSE m' - 1)
      BY <2>1, <3>3
    <3>10. outcome' \in {"idle", "busy", "done", "exhausted", "stuck", "malformed"}
      BY <1>1, <2>1
    <3> QED
      BY <3>3, <3>5, <3>7, <3>8, <3>9, <3>10 DEF AllocationTypeOK
  <2>5. DenseInv' /\ BalanceInv'
    <3>1. CASE skip
      <4>1. offset' = 0 /\ sector' = sector + 1 /\ waste' = waste + Available
        BY <2>1, <3>1
      <4>2. placed' = placed /\ used' = used
        BY <2>1
      <4>3. /\ Dense(sector) \in Int /\ Behind(sector) \in Int /\ Behind(sector + 1) \in Int
            /\ Dense(sector + 1) = Dense(sector) + PageData - 7
            /\ Behind(sector) = Behind(sector + 1) + PageData
        BY <1>1, Numbers, Products
      <4>4. DenseInv'
        BY <1>1, <3>1, <4>1, <4>2, <4>3, Store, Numbers DEF DenseInv
      <4>5. Available' = PageData
        BY <4>1, Store DEF Available
      <4>6. BalanceInv'
        BY <1>1, <4>1, <4>2, <4>3, <4>5, Store, Numbers DEF BalanceInv
      <4> QED BY <4>4, <4>6
    <3>2. CASE ~skip
      BY <1>1, <2>1, <3>2 DEF DenseInv, BalanceInv, Available
    <3> QED BY <3>1, <3>2
  <2> QED
    BY <1>1, <2>1, <2>4, <2>5 DEF CountInv, IdleInv, SplitInv, HonestRefusal
<1> QED BY <1>2, <1>3, <1>4

LEMMA PlaceRestCount == CountInv /\ PlaceRest => CountInv'
<1> SUFFICES ASSUME CountInv, PlaceRest PROVE CountInv'
  OBVIOUS
<1>1. AllocationTypeOK /\ DenseInv /\ BalanceInv /\ tok > 0 /\ outcome = "busy" /\ Remaining <= Available
  BY DEF CountInv, PlaceRest
<1>2. /\ offset' = offset + Remaining /\ placed' = placed + Remaining /\ used' = used + Remaining
      /\ m' = m + 1 /\ tok' = 0
      /\ UNCHANGED <<macros, split, sector, start, waste, outcome>>
  BY DEF PlaceRest
<1>3. Remaining \in Nat
  BY <1>1, Extents
<1>4. AllocationTypeOK'
  <2>1. offset' \in 0 .. PageData /\ placed' \in Nat /\ used' \in Nat /\ m' \in Nat \ {0}
    BY <1>1, <1>2, <1>3, Numbers, Store
  <2>2. Len(start) = m /\ m' - 1 = m
    BY <1>1, <1>2, Numbers DEF AllocationTypeOK
  <2> QED BY <1>1, <1>2, <2>1, <2>2 DEF AllocationTypeOK
<1>5. DenseInv' /\ BalanceInv'
  <2>1. Dense(sector) \in Int /\ Behind(sector) \in Int
    BY <1>1, Numbers, Products
  <2>2. DenseInv'
    BY <1>1, <1>2, <1>3, <2>1, Numbers DEF DenseInv
  <2>3. Available' = Available - Remaining
    BY <1>1, <1>2, <1>3, Store, Numbers DEF Available
  <2>4. BalanceInv'
    BY <1>1, <1>2, <1>3, <2>1, <2>3, Numbers DEF BalanceInv
  <2> QED BY <2>2, <2>4
<1> QED
  BY <1>1, <1>2, <1>4, <1>5 DEF CountInv, IdleInv, SplitInv, HonestRefusal

\* What is left of a macro that does not fit does not fit on the last page.
LEMMA ExhaustedInMacro ==
  ASSUME CountInv, tok > 0, Remaining > Available, sector = GlobalLast, outcome = "busy",
         GiveUp("exhausted")
  PROVE  CountInv'
<1>1. AllocationTypeOK /\ placed >= Dense(GlobalLast) + offset
  BY DEF CountInv, DenseInv
<1>2. Remaining \in Nat /\ Length(macros[m]) \in Nat /\ Before(macros[m], tok) \in Nat
  BY <1>1, Extents
<1>3. placed + Length(macros[m]) - Before(macros[m], tok)
        > Dense(GlobalLast) + PageData - 5
  BY <1>1, <1>2, Store, Numbers, Products DEF Remaining
<1> QED
  BY <1>3, GiveUpCount

LEMMA PlaceFragmentCount == CountInv /\ PlaceFragment => CountInv'
<1> SUFFICES ASSUME CountInv, PlaceFragment PROVE CountInv'
  OBVIOUS
<1> DEFINE e == LastFit
           jump == offset + Extent(e)
<1>1. /\ AllocationTypeOK /\ DenseInv /\ BalanceInv /\ tok > 0 /\ outcome = "busy"
      /\ Remaining > Available /\ Fits(tok)
  BY DEF CountInv, PlaceFragment
<1>2. CASE sector = GlobalLast
  BY <1>1, <1>2, ExhaustedInMacro DEF PlaceFragment
<1>3. CASE sector # GlobalLast
  <2>1. /\ sector' = sector + 1 /\ offset' = 0
        /\ tok' = e + 1 /\ split' = TRUE
        /\ placed' = placed + Extent(e)
        /\ used' = used + Extent(e) + 5
        /\ waste' = waste + PageData - (jump + 5)
        /\ UNCHANGED <<macros, m, start, outcome>>
    BY <1>3 DEF PlaceFragment
  <2>2. e \in tok .. Len(macros[m]) - 1 /\ Fits(e) /\ ~Fits(e + 1)
    BY <1>1, LastFitFits
  <2>3. Len(macros[m]) \in Nat /\ tok \in Nat
    BY <1>1, InHand
  <2>4. e \in tok .. Len(macros[m]) /\ e + 1 \in tok .. Len(macros[m]) /\ e \in Nat
    BY <2>2, <2>3
  <2> HIDE DEF e
  <2>5. /\ Extent(e) \in Nat /\ Extent(e + 1) \in Nat
        /\ Extent(e + 1) <= Extent(e) + 3
    BY <1>1, <2>4, Extents
  <2>6. offset + Extent(e) + 5 <= PageData /\ offset + Extent(e) >= PageData - 7
    <3>1. Extent(e) <= Available - 5 /\ ~(Extent(e + 1) <= Available - 5)
      BY <2>2 DEF Fits
    <3> QED BY <1>1, <2>5, <3>1, Store, Numbers
  <2>7. AllocationTypeOK'
    <3>1. sector' \in Global /\ waste' \in Nat /\ used' \in Nat /\ placed' \in Nat /\ offset' \in 0 .. PageData
      BY <1>1, <1>3, <2>1, <2>5, <2>6, Store, Numbers
    <3>2. tok' \in Nat /\ tok' > 0 /\ tok' <= Len(macros[m])
      BY <2>1, <2>3, <2>4
    <3> QED BY <1>1, <2>1, <3>1, <3>2 DEF AllocationTypeOK
  <2>8. DenseInv' /\ BalanceInv'
    <3>1. /\ Dense(sector + 1) = Dense(sector) + PageData - 7
          /\ Behind(sector) = Behind(sector + 1) + PageData
          /\ Dense(sector) \in Int /\ Behind(sector + 1) \in Int /\ Whole \in Int
      BY <1>1, Numbers, Products
    <3>2. placed >= Dense(sector) + offset
      BY <1>1 DEF DenseInv
    <3>3. used + waste + Behind(sector) + (PageData - offset) = Whole
      BY <1>1, Numbers DEF BalanceInv
    <3>4. placed + Extent(e) >= Dense(sector + 1) + 0
      BY <1>1, <2>5, <2>6, <3>1, <3>2, Store, Numbers
    <3>5. used + Extent(e) + 5 + (waste + PageData - (jump + 5))
            + Behind(sector + 1) + (PageData - 0) = Whole
      BY <1>1, <2>5, <3>1, <3>3, Store, Numbers
    <3>6. DenseInv'
      BY <2>1, <3>4 DEF DenseInv
    <3>7. BalanceInv'
      BY <2>1, <3>5 DEF BalanceInv, Available
    <3> QED BY <3>6, <3>7
  <2> QED
    BY <1>1, <2>1, <2>7, <2>8 DEF CountInv, IdleInv, SplitInv, HonestRefusal
<1> QED BY <1>2, <1>3

LEMMA MoveOnCount == CountInv /\ MoveOn => CountInv'
<1> SUFFICES ASSUME CountInv, MoveOn PROVE CountInv'
  OBVIOUS
<1>1. /\ AllocationTypeOK /\ DenseInv /\ BalanceInv /\ SplitInv /\ tok > 0 /\ outcome = "busy"
      /\ Remaining > Available /\ ~Fits(tok)
  BY DEF CountInv, MoveOn
<1>2. offset >= PageData - 7
  <2>1. Extent(tok) \in 1 .. 3
    BY <1>1, Extents
  <2> QED BY <1>1, <2>1, Store, Numbers DEF Fits
<1>3. ~split
  BY <1>1, <1>2, Store DEF SplitInv
<1>4. CASE sector = GlobalLast
  BY <1>1, <1>3, <1>4, ExhaustedInMacro DEF MoveOn
<1>5. CASE sector # GlobalLast
  <2>1. /\ sector' = sector + 1 /\ offset' = 0
        /\ start' = [start EXCEPT ![m] = <<sector + 1, 0>>]
        /\ waste' = waste + Available
        /\ UNCHANGED <<macros, m, tok, split, placed, used, outcome>>
    BY <1>3, <1>5 DEF MoveOn
  <2>2. sector + 1 \in Global
    BY <1>1, <1>5, Store DEF AllocationTypeOK
  <2>3. /\ start' \in Seq(Global \X (0 .. PageData - 1)) /\ Len(start') = Len(start)
        /\ DOMAIN start' = DOMAIN start
    <3>1. m \in 1 .. Len(start) /\ start \in Seq(Global \X (0 .. PageData - 1))
      BY <1>1, InHand, LenProperties DEF AllocationTypeOK
    <3>2. <<sector + 1, 0>> \in Global \X (0 .. PageData - 1)
      BY <2>2, Store
    <3> QED BY <2>1, <3>1, <3>2, ExceptSeq
  <2>4. AllocationTypeOK'
    <3>1. waste' \in Nat /\ offset' \in 0 .. PageData
      BY <1>1, <2>1, Store DEF AllocationTypeOK, Available
    <3> QED BY <1>1, <2>1, <2>2, <2>3, <3>1 DEF AllocationTypeOK
  <2>5. DenseInv' /\ BalanceInv'
    <3>1. /\ Dense(sector + 1) = Dense(sector) + PageData - 7
          /\ Behind(sector) = Behind(sector + 1) + PageData
          /\ Dense(sector) \in Int /\ Behind(sector + 1) \in Int /\ Whole \in Int
      BY <1>1, Numbers, Products
    <3>2. placed >= Dense(sector) + offset
      BY <1>1 DEF DenseInv
    <3>3. used + waste + Behind(sector) + (PageData - offset) = Whole
      BY <1>1, Numbers DEF BalanceInv
    <3>4. placed >= Dense(sector + 1) + 0
      BY <1>1, <1>2, <3>1, <3>2, Store, Numbers
    <3>5. used + (waste + (PageData - offset)) + Behind(sector + 1) + (PageData - 0) = Whole
      BY <1>1, <3>1, <3>3, Store, Numbers
    <3>6. DenseInv'
      BY <2>1, <3>4 DEF DenseInv
    <3>7. BalanceInv'
      BY <2>1, <3>5 DEF BalanceInv, Available
    <3> QED BY <3>6, <3>7
  <2> QED
    BY <1>1, <2>1, <2>4, <2>5 DEF CountInv, IdleInv, SplitInv, HonestRefusal
<1> QED BY <1>4, <1>5

LEMMA SealCount == CountInv /\ Seal => CountInv'
<1> SUFFICES ASSUME CountInv, Seal PROVE CountInv'
  OBVIOUS
<1>1. UNCHANGED <<macros, m, tok, split, sector, offset, start, placed, used, waste>> /\ outcome' = "done"
  BY DEF Seal, cursor, ledger
<1>2. AllocationTypeOK'
  BY <1>1 DEF CountInv, AllocationTypeOK
<1> QED
  BY <1>1, <1>2 DEF CountInv, IdleInv, DenseInv, BalanceInv, SplitInv, HonestRefusal, Available

LEMMA AllocateCount == ASSUME CountInv, NEW unique, Allocate(unique) PROVE CountInv'
<1>1. UNCHANGED <<m, tok, split, sector, offset, start, placed, used, waste>>
      /\ outcome = "idle" /\ outcome' = "busy"
  BY DEF Allocate, cursor, ledger
<1>2. start = <<>> /\ tok = 0
  BY <1>1 DEF CountInv, IdleInv
<1>3. AllocationTypeOK'
  <2>1. DOMAIN start' = {}
    BY <1>1, <1>2, EmptySeq, LenProperties
  <2> QED BY <1>1, <1>2, <2>1 DEF CountInv, AllocationTypeOK
<1> QED
  BY <1>1, <1>3 DEF CountInv, IdleInv, DenseInv, BalanceInv, SplitInv, HonestRefusal, Available

\* Every step of the allocator keeps the invariant of its counters.
LEMMA AllocationCount == CountInv /\ Allocation => CountInv'
BY BeginMacroCount, PlaceRestCount, PlaceFragmentCount, MoveOnCount, SealCount DEF Allocation

LEMMA CountStutters == CountInv /\ UNCHANGED allocation => CountInv'
<1> SUFFICES ASSUME CountInv, UNCHANGED allocation PROVE CountInv'
  OBVIOUS
<1>1. UNCHANGED <<macros, m, tok, split, sector, offset, start, placed, used, waste, outcome>>
  BY DEF allocation, cursor, ledger
<1>2. AllocationTypeOK'
  BY <1>1 DEF CountInv, AllocationTypeOK
<1> QED
  BY <1>1, <1>2 DEF CountInv, IdleInv, DenseInv, BalanceInv, SplitInv, HonestRefusal, Available

-----------------------------------------------------------------------------
(* The bytes that are not erased are the ones that were counted, and there  *)
(* are none behind the cursor.                                              *)

Data == Global \X (0 .. PageData - 1)
Filled(b) == b.src # NoPlace \/ b.op # "END"
Occupied == {a \in Data : Filled(At(a))}

FreeInv ==
  \A s \in Global, o \in 0 .. PageData - 1 :
    s > sector \/ (s = sector /\ o >= offset) => pages[s][o] = Erased

OccupiedInv ==
  outcome \in {"busy", "done"} =>
    /\ \A s \in Addressable : s \in DOMAIN pages
    /\ used = Cardinality(Occupied)
    /\ FreeInv

LEMMA DataFinite ==
  /\ IsFiniteSet(Data) /\ IsFiniteSet(Global)
  /\ Cardinality(Global) = GlobalLast - GlobalFirst + 1
<1>1. GlobalFirst \in Int /\ GlobalLast \in Int /\ ~(GlobalFirst > GlobalLast)
  BY Store
<1>2. IsFiniteSet(Global) /\ Cardinality(Global) = GlobalLast - GlobalFirst + 1
  BY <1>1, IntervalSize DEF Global
<1>3. IsFiniteSet(0 .. PageData - 1)
  <2>1. PageData - 1 \in Int
    BY Store
  <2> QED BY <2>1, IntervalSize
<1> QED BY <1>2, <1>3, FS_Product DEF Data

LEMMA ErasedIsNotFilled == ~Filled(Erased)
BY DEF Filled, Erased, Byte

\* k bytes of page s from offset o on.
Stretch(s, o, k) == {s} \X (o .. o + k - 1)

LEMMA Consecutive ==
  ASSUME NEW s, NEW o \in Nat, NEW k \in Nat
  PROVE  IsFiniteSet(Stretch(s, o, k)) /\ Cardinality(Stretch(s, o, k)) = k
<1> DEFINE T == o .. o + k - 1
           S == {s}
<1>1. IsFiniteSet(T) /\ Cardinality(T) = k
  <2>1. o \in Int /\ o + k - 1 \in Int
    OBVIOUS
  <2>2. IsFiniteSet(T) /\ Cardinality(T) = IF o > o + k - 1 THEN 0 ELSE o + k - 1 - o + 1
    BY <2>1, IntervalSize
  <2> HIDE DEF T
  <2> QED BY <2>2
<1>2. IsFiniteSet(S) /\ Cardinality(S) = 1
  BY FS_Singleton
<1> HIDE DEF S, T
<1>3. IsFiniteSet(S \X T) /\ Cardinality(S \X T) = Cardinality(S) * Cardinality(T)
  BY <1>1, <1>2, FS_Product
<1>4. Cardinality(S \X T) = k
  BY <1>1, <1>2, <1>3
<1> QED BY <1>3, <1>4 DEF S, T, Stretch

LEMMA Disjoint ==
  ASSUME NEW P, NEW R, IsFiniteSet(P), IsFiniteSet(R), \A x \in R : x \notin P
  PROVE  Cardinality(P \union R) = Cardinality(P) + Cardinality(R)
<1>1. P \cap R = {}
  OBVIOUS
<1>2. Cardinality(P \union R) = Cardinality(P) + Cardinality(R) - Cardinality(P \cap R)
  BY FS_Union
<1>3. Cardinality(P) \in Nat /\ Cardinality(R) \in Nat
  BY FS_CardinalityType
<1>4. Cardinality(P \cap R) = 0
  BY <1>1, FS_EmptySet
<1> QED BY <1>2, <1>3, <1>4

\* A step that fills the next k bytes of the page in hand.
LEMMA FillsNext ==
  ASSUME AllocationTypeOK, OccupiedInv, outcome = "busy",
         NEW k \in Nat, offset + k <= PageData,
         NEW f,
         \A o \in offset .. offset + k - 1 : Filled(f[o]),
         \A o \in 0 .. PageData - 1 :
           o \notin offset .. offset + k - 1 => f[o] = pages[sector][o],
         pages' = [pages EXCEPT ![sector] = f]
  PROVE  /\ \A s \in Addressable : s \in DOMAIN pages'
         /\ Cardinality(Occupied)' = Cardinality(Occupied) + k
         /\ \A s \in Global, o \in 0 .. PageData - 1 :
              s > sector \/ (s = sector /\ o >= offset + k) => pages'[s][o] = Erased
<1>1. sector \in Global /\ sector \in Addressable /\ sector \in DOMAIN pages /\ offset \in Nat
  BY Store, Numbers DEF AllocationTypeOK, OccupiedInv
<1>2. /\ DOMAIN pages' = DOMAIN pages
      /\ pages'[sector] = f
      /\ \A s \in DOMAIN pages : s # sector => pages'[s] = pages[s]
  BY <1>1
<1>3. FreeInv
  BY DEF OccupiedInv
<1>4. \A s \in Addressable : s \in DOMAIN pages'
  BY <1>2 DEF OccupiedInv
<1>5. ASSUME NEW s \in Global, NEW o \in 0 .. PageData - 1,
             s > sector \/ (s = sector /\ o >= offset + k)
      PROVE  pages'[s][o] = Erased
  <2>1. s \in DOMAIN pages
    BY Store DEF OccupiedInv
  <2>2. pages[s][o] = Erased
    BY <1>1, <1>3, <1>5, Store DEF FreeInv
  <2>3. CASE s = sector
    BY <1>1, <1>2, <1>5, <2>2, <2>3, Store
  <2>4. CASE s # sector
    BY <1>2, <2>1, <2>2, <2>4
  <2> QED BY <2>3, <2>4
<1> DEFINE R == {sector} \X (offset .. offset + k - 1)
<1>6. \A s \in Global, o \in 0 .. PageData - 1 :
        <<s, o>> \in R => ~Filled(pages[s][o]) /\ Filled(pages'[s][o])
  <2> SUFFICES ASSUME NEW s \in Global, NEW o \in 0 .. PageData - 1, <<s, o>> \in R
               PROVE  ~Filled(pages[s][o]) /\ Filled(pages'[s][o])
    OBVIOUS
  <2>1. s = sector /\ o \in offset .. offset + k - 1
    OBVIOUS
  <2>2. pages[s][o] = Erased
    BY <1>1, <1>3, <2>1 DEF FreeInv
  <2> QED BY <1>2, <2>1, <2>2, ErasedIsNotFilled
<1>7. \A s \in Global, o \in 0 .. PageData - 1 :
        <<s, o>> \notin R => pages'[s][o] = pages[s][o]
  <2> SUFFICES ASSUME NEW s \in Global, NEW o \in 0 .. PageData - 1, <<s, o>> \notin R
               PROVE  pages'[s][o] = pages[s][o]
    OBVIOUS
  <2>1. s \in DOMAIN pages
    BY Store DEF OccupiedInv
  <2>2. s # sector \/ o \notin offset .. offset + k - 1
    OBVIOUS
  <2> QED BY <1>2, <2>1, <2>2
<1>8. R \subseteq Data
  BY <1>1, Store DEF Data
<1>9. \A a \in R : a \notin Occupied
  <2> SUFFICES ASSUME NEW s \in Global, NEW o \in 0 .. PageData - 1, <<s, o>> \in R
               PROVE  <<s, o>> \notin Occupied
    BY <1>8 DEF Data
  <2> QED BY <1>6 DEF Occupied, At
<1>10. Occupied' = Occupied \union R
  <2>1. \A s \in Global, o \in 0 .. PageData - 1 :
          Filled(pages'[s][o]) <=> Filled(pages[s][o]) \/ <<s, o>> \in R
    <3> TAKE s \in Global, o \in 0 .. PageData - 1
    <3>1. <<s, o>> \in R => ~Filled(pages[s][o]) /\ Filled(pages'[s][o])
      BY <1>6
    <3>2. <<s, o>> \notin R => pages'[s][o] = pages[s][o]
      BY <1>7
    <3> HIDE DEF R
    <3> QED BY <3>1, <3>2
  <2>2. \A a \in Data : Filled(At(a)') <=> Filled(At(a)) \/ a \in R
    <3> SUFFICES ASSUME NEW s \in Global, NEW o \in 0 .. PageData - 1
                 PROVE  Filled(At(<<s, o>>)') <=> Filled(At(<<s, o>>)) \/ <<s, o>> \in R
      BY DEF Data
    <3> QED BY <2>1 DEF At
  <2>3. Occupied' = {a \in Data : Filled(At(a)')}
    BY DEF Occupied, Data, Filled
  <2> HIDE DEF R
  <2> QED BY <1>8, <2>2, <2>3 DEF Occupied
<1>11. IsFiniteSet(Occupied)
  <2>1. Occupied \in SUBSET Data
    BY DEF Occupied
  <2> QED BY <2>1, DataFinite, FS_Subset
<1>12. IsFiniteSet(R) /\ Cardinality(R) = k
  <2>1. IsFiniteSet(Stretch(sector, offset, k)) /\ Cardinality(Stretch(sector, offset, k)) = k
    BY <1>1, Consecutive
  <2> QED BY <2>1 DEF Stretch
<1> HIDE DEF R
<1>13. Cardinality(Occupied \union R) = Cardinality(Occupied) + Cardinality(R)
  BY <1>9, <1>11, <1>12, Disjoint
<1> QED BY <1>4, <1>5, <1>10, <1>12, <1>13

LEMMA WrittenIsFilled ==
  ASSUME AllocationTypeOK, tok > 0, NEW e, NEW o
  PROVE  Filled(Written(e, o))
<1> DEFINE b == Before(macros[m], tok) + (o - offset)
           here == {n \in tok .. e : Before(macros[m], n) = b}
<1>1. CASE here = {}
  <2>1. Written(e, o) = Operand
    BY <1>1 DEF Written
  <2> QED BY <2>1 DEF Filled, Operand, Byte
<1>2. CASE here # {}
  <2> DEFINE n == CHOOSE n \in here : TRUE
  <2>1. n \in here
    BY <1>2
  <2>2. Written(e, o) = Byte(Op(macros[m][n]), NoPlace, <<m, n>>)
    BY <1>2 DEF Written
  <2> HIDE DEF n
  <2>3. <<m, n>> # <<0, 0>>
    BY Numbers
  <2> QED BY <2>2, <2>3 DEF Filled, Byte, NoPlace
<1> QED BY <1>1, <1>2

LEMMA AllocateOccupied ==
  ASSUME CountInv, NEW unique, Allocate(unique) PROVE OccupiedInv'
<1>1. pages' = [s \in Addressable |-> IF s \in Global THEN ErasedPage ELSE pages[s]]
  BY DEF Allocate
<1>2. used' = 0
  BY DEF Allocate, CountInv, IdleInv, ledger
<1>3. \A s \in Global, o \in 0 .. PageData - 1 : pages'[s][o] = Erased
  <2> TAKE s \in Global, o \in 0 .. PageData - 1
  <2>1. s \in Addressable /\ o \in Offsets
    BY Store DEF Offsets
  <2> QED BY <1>1, <2>1 DEF ErasedPage
<1>4. FreeInv'
  BY <1>3 DEF FreeInv
<1>5. Occupied' = {}
  <2>1. \A s \in Global, o \in 0 .. PageData - 1 : ~Filled(At(<<s, o>>)')
    BY <1>3, ErasedIsNotFilled DEF At
  <2>2. \A a \in Data : ~Filled(At(a)')
    BY <2>1 DEF Data
  <2> QED BY <2>2 DEF Occupied, Data, Filled
<1>6. Cardinality(Occupied') = 0
  BY <1>5, FS_EmptySet
<1> QED BY <1>1, <1>2, <1>4, <1>6 DEF OccupiedInv

LEMMA SamePages ==
  ASSUME OccupiedInv, outcome = "busy", UNCHANGED <<pages, used>>,
         \A s \in Global, o \in 0 .. PageData - 1 :
           s > sector' \/ (s = sector' /\ o >= offset') => s > sector \/ (s = sector /\ o >= offset)
  PROVE  OccupiedInv'
<1>1. Occupied' = Occupied
  BY DEF Occupied, Data, At, Filled
<1> QED BY <1>1 DEF OccupiedInv, FreeInv

LEMMA BeginMacroOccupied == CountInv /\ OccupiedInv /\ BeginMacro => OccupiedInv'
<1> SUFFICES ASSUME CountInv, OccupiedInv, BeginMacro PROVE OccupiedInv'
  OBVIOUS
<1>1. AllocationTypeOK /\ outcome = "busy"
  BY DEF CountInv, BeginMacro
<1>2. CASE outcome' \in {"busy", "done"}
  <2>1. /\ UNCHANGED <<pages, used>>
        /\ \/ UNCHANGED <<sector, offset>>
           \/ sector' = sector + 1 /\ offset' = 0
    BY <1>2 DEF BeginMacro, GiveUp, memory
  <2>2. \A s \in Global, o \in 0 .. PageData - 1 :
          s > sector' \/ (s = sector' /\ o >= offset') => s > sector \/ (s = sector /\ o >= offset)
    BY <1>1, <2>1, Numbers, Store
  <2> QED BY <1>1, <2>1, <2>2, SamePages
<1> QED BY <1>2 DEF OccupiedInv

LEMMA MoveOnOccupied == CountInv /\ OccupiedInv /\ MoveOn => OccupiedInv'
<1> SUFFICES ASSUME CountInv, OccupiedInv, MoveOn PROVE OccupiedInv'
  OBVIOUS
<1>1. AllocationTypeOK /\ outcome = "busy"
  BY DEF CountInv, MoveOn
<1>2. CASE outcome' \in {"busy", "done"}
  <2>1. UNCHANGED <<pages, used>> /\ sector' = sector + 1 /\ offset' = 0
    BY <1>2 DEF MoveOn, GiveUp, memory
  <2>2. \A s \in Global, o \in 0 .. PageData - 1 :
          s > sector' \/ (s = sector' /\ o >= offset') => s > sector \/ (s = sector /\ o >= offset)
    BY <1>1, <2>1, Numbers, Store
  <2> QED BY <1>1, <2>1, <2>2, SamePages
<1> QED BY <1>2 DEF OccupiedInv

LEMMA PlaceRestOccupied == CountInv /\ OccupiedInv /\ PlaceRest => OccupiedInv'
<1> SUFFICES ASSUME CountInv, OccupiedInv, PlaceRest PROVE OccupiedInv'
  OBVIOUS
<1> DEFINE f == [o \in Offsets |->
                   IF o \in offset .. offset + Remaining - 1
                   THEN Written(Len(macros[m]), o) ELSE pages[sector][o]]
<1>1. AllocationTypeOK /\ outcome = "busy" /\ tok > 0 /\ Remaining <= Available
  BY DEF CountInv, PlaceRest
<1>2. Remaining \in Nat /\ offset + Remaining <= PageData
  BY <1>1, Extents, Numbers, Store
<1>3. /\ pages' = [pages EXCEPT ![sector] = f]
      /\ offset' = offset + Remaining /\ used' = used + Remaining /\ sector' = sector
  BY DEF PlaceRest
<1>4. \A o \in 0 .. PageData - 1 : o \in Offsets
  BY Store DEF Offsets
<1>5. \A o \in offset .. offset + Remaining - 1 : o \in 0 .. PageData - 1
  BY <1>1, <1>2, Numbers, Store
<1>6. \A o \in offset .. offset + Remaining - 1 : Filled(f[o])
  <2> TAKE o \in offset .. offset + Remaining - 1
  <2>1. f[o] = Written(Len(macros[m]), o)
    BY <1>4, <1>5
  <2> QED BY <1>1, <2>1, WrittenIsFilled
<1>7. \A o \in 0 .. PageData - 1 : o \notin offset .. offset + Remaining - 1 => f[o] = pages[sector][o]
  BY <1>4
<1> HIDE DEF f
<1>8. /\ \A s \in Addressable : s \in DOMAIN pages'
      /\ Cardinality(Occupied)' = Cardinality(Occupied) + Remaining
      /\ \A s \in Global, o \in 0 .. PageData - 1 :
           s > sector \/ (s = sector /\ o >= offset + Remaining) => pages'[s][o] = Erased
  BY <1>1, <1>2, <1>3, <1>6, <1>7, FillsNext
<1>9. FreeInv'
  BY <1>3, <1>8 DEF FreeInv
<1>10. used' = Cardinality(Occupied)'
  BY <1>1, <1>3, <1>8 DEF OccupiedInv
<1> QED BY <1>8, <1>9, <1>10 DEF OccupiedInv

LEMMA PlaceFragmentOccupied == CountInv /\ OccupiedInv /\ PlaceFragment => OccupiedInv'
<1> SUFFICES ASSUME CountInv, OccupiedInv, PlaceFragment PROVE OccupiedInv'
  OBVIOUS
<1> DEFINE e == LastFit
           jump == offset + Extent(e)
           f == [o \in Offsets |->
                   IF o \in offset .. jump - 1 THEN Written(e, o)
                   ELSE IF o = jump THEN Jump(sector + 1)
                   ELSE IF o \in jump + 1 .. jump + 4 THEN Operand
                   ELSE pages[sector][o]]
           k == Extent(e) + 5
<1>1. /\ AllocationTypeOK /\ outcome = "busy" /\ tok > 0
      /\ Remaining > Available /\ Fits(tok)
  BY DEF CountInv, PlaceFragment
<1>2. CASE sector = GlobalLast
  <2>1. outcome' = "exhausted"
    BY <1>2 DEF PlaceFragment, GiveUp
  <2> QED BY <2>1 DEF OccupiedInv
<1>3. CASE sector # GlobalLast
  <2>1. /\ pages' = [pages EXCEPT ![sector] = f]
        /\ sector' = sector + 1 /\ offset' = 0 /\ used' = used + Extent(e) + 5
    BY <1>3 DEF PlaceFragment
  <2>2. e \in tok .. Len(macros[m]) - 1 /\ Extent(e) <= Available - 5
    BY <1>1, LastFitFits DEF Fits
  <2>3. Extent(e) \in Nat
    <3>1. Len(macros[m]) \in Nat /\ tok \in Nat
      BY <1>1, InHand
    <3>2. e \in tok .. Len(macros[m])
      BY <2>2, <3>1
    <3> HIDE DEF e
    <3> QED BY <1>1, <3>2, Extents
  <2> HIDE DEF e
  <2>4. k \in Nat /\ offset + k <= PageData /\ jump + 5 = offset + k /\ jump \in Nat
    <3>1. Extent(e) <= Available - 5
      BY <2>2
    <3>2. offset \in Nat /\ Available = PageData - offset /\ PageData \in Nat
      BY <1>1, Numbers, Store
    <3> QED BY <2>3, <3>1, <3>2
  <2>5. \A o \in 0 .. PageData - 1 : o \in Offsets
    BY Store DEF Offsets
  <2>6. \A o \in offset .. offset + k - 1 :
          /\ o \in Offsets
          /\ o \in offset .. jump - 1 \/ o = jump \/ o \in jump + 1 .. jump + 4
    BY <1>1, <2>3, <2>4, <2>5, Numbers, Store
  <2>7. Filled(Jump(sector + 1)) /\ Filled(Operand)
    BY DEF Filled, Jump, Operand, Byte
  <2>8. \A o \in offset .. offset + k - 1 : Filled(f[o])
    <3> TAKE o \in offset .. offset + k - 1
    <3>1. f[o] \in {Written(e, o), Jump(sector + 1), Operand}
      BY <2>6
    <3> QED BY <1>1, <2>7, <3>1, WrittenIsFilled
  <2>9. \A o \in 0 .. PageData - 1 : o \notin offset .. offset + k - 1 => f[o] = pages[sector][o]
    <3> TAKE o \in 0 .. PageData - 1
    <3>1. o \notin offset .. offset + k - 1 =>
            /\ o \notin offset .. jump - 1 /\ o # jump /\ o \notin jump + 1 .. jump + 4
      BY <1>1, <2>3, <2>4, Numbers, Store
    <3> QED BY <2>5, <3>1
  <2> HIDE DEF f, k, jump
  <2>10. /\ \A s \in Addressable : s \in DOMAIN pages'
         /\ Cardinality(Occupied)' = Cardinality(Occupied) + k
         /\ \A s \in Global, o \in 0 .. PageData - 1 :
              s > sector \/ (s = sector /\ o >= offset + k) => pages'[s][o] = Erased
    BY <1>1, <2>1, <2>4, <2>8, <2>9, FillsNext
  <2>11. FreeInv'
    <3>1. \A s \in Global : s > sector' \/ s = sector' => s > sector
      BY <1>1, <2>1, Numbers, Store
    <3> QED BY <2>1, <2>10, <3>1 DEF FreeInv
  <2>12. used' = Cardinality(Occupied)'
    <3>1. used = Cardinality(Occupied) /\ used \in Nat
      BY <1>1, Numbers DEF OccupiedInv
    <3> QED BY <2>1, <2>3, <2>10, <3>1 DEF k
  <2> QED BY <2>10, <2>11, <2>12 DEF OccupiedInv
<1> QED BY <1>2, <1>3

LEMMA SealOccupied == CountInv /\ OccupiedInv /\ Seal => OccupiedInv'
<1> SUFFICES ASSUME CountInv, OccupiedInv, Seal PROVE OccupiedInv'
  OBVIOUS
<1>1. /\ outcome = "busy" /\ UNCHANGED <<sector, offset, used>>
      /\ pages' = [s \in Addressable |->
            IF s \in Global
            THEN [o \in Offsets |-> IF o < PageData THEN pages[s][o] ELSE Operand]
            ELSE pages[s]]
  BY DEF Seal, cursor, ledger
<1>2. \A s \in Global, o \in 0 .. PageData - 1 : pages'[s][o] = pages[s][o]
  <2> TAKE s \in Global, o \in 0 .. PageData - 1
  <2>1. s \in Addressable /\ o \in Offsets /\ o < PageData
    BY Store DEF Offsets
  <2> QED BY <1>1, <2>1
<1>3. Occupied' = Occupied
  <2>1. \A a \in Data : At(a)' = At(a)
    <3>1. \A s \in Global, o \in 0 .. PageData - 1 : At(<<s, o>>)' = At(<<s, o>>)
      BY <1>2 DEF At
    <3> QED BY <3>1 DEF Data
  <2> QED BY <2>1 DEF Occupied, Data, Filled
<1>4. FreeInv'
  BY <1>1, <1>2 DEF FreeInv, OccupiedInv
<1>5. \A s \in Addressable : s \in DOMAIN pages'
  BY <1>1
<1> QED BY <1>1, <1>3, <1>4, <1>5 DEF OccupiedInv

\* Every step of the allocator keeps the account of the bytes.
LEMMA AllocationOccupied == CountInv /\ OccupiedInv /\ Allocation => OccupiedInv'
BY BeginMacroOccupied, PlaceRestOccupied, PlaceFragmentOccupied, MoveOnOccupied, SealOccupied
   DEF Allocation

LEMMA OccupiedStutters == OccupiedInv /\ UNCHANGED <<memory, allocation>> => OccupiedInv'
<1> SUFFICES ASSUME OccupiedInv, UNCHANGED <<memory, allocation>> PROVE OccupiedInv'
  OBVIOUS
<1>1. UNCHANGED <<pages, sector, offset, used, outcome>>
  BY DEF memory, allocation, cursor, ledger
<1>2. Occupied' = Occupied
  BY <1>1 DEF Occupied, Data, At, Filled
<1> QED BY <1>1, <1>2 DEF OccupiedInv, FreeInv

LEMMA Accounted == CountInv /\ OccupiedInv => StoreIsAccounted
<1> SUFFICES ASSUME CountInv, OccupiedInv, outcome \in {"busy", "done"}
             PROVE  /\ used = Cardinality({a \in Global \X (0 .. PageData - 1) :
                                     At(a).src # NoPlace \/ At(a).op # "END"})
                    /\ Capacity - used - waste = (GlobalLast - sector) * PageData + Available
                    /\ \A s \in Global, o \in 0 .. PageData - 1 :
                         s > sector \/ (s = sector /\ o >= offset) => pages[s][o] = Erased
  BY DEF StoreIsAccounted
<1>1. used = Cardinality({a \in Global \X (0 .. PageData - 1) :
                            At(a).src # NoPlace \/ At(a).op # "END"})
  BY DEF OccupiedInv, Occupied, Data, Filled
<1>2. Capacity = Whole
  BY DataFinite DEF Capacity, Whole
<1>3. AllocationTypeOK /\ used + waste + Behind(sector) + Available = Whole
  BY DEF CountInv, BalanceInv
<1>4. Capacity - used - waste = Behind(sector) + Available
  BY <1>2, <1>3, Numbers, Products
<1> QED BY <1>1, <1>4 DEF Behind, OccupiedInv, FreeInv

-----------------------------------------------------------------------------
(* Where an instruction ends, the next one of its macro begins, or a JUMP   *)
(* leads to the page that begins with it.                                   *)

Cell(s, o, i, n) ==
  /\ s \in Global /\ o \in Nat /\ n \in 1 .. Len(macros[i])
  /\ pages[s][o].src = <<i, n>> /\ pages[s][o].op = Op(macros[i][n])
  /\ o + Width(macros[i][n]) <= PageData
JumpTo(s, o) ==
  /\ s \in Global /\ s + 1 \in Global /\ o \in Nat /\ o + 5 <= PageData
  /\ pages[s][o].op = "JUMP" /\ pages[s][o].to = <<s + 1, 0>>
AtCursor(s, o, i, n) == s = sector /\ o = offset /\ i = m /\ n = tok
Reached(s, o, i, n) == Cell(s, o, i, n) \/ AtCursor(s, o, i, n)
Linked(s, o, i, n) == Reached(s, o, i, n) \/ (JumpTo(s, o) /\ Reached(s + 1, 0, i, n))

LinkInv ==
  \A s, o, i, n :
    Cell(s, o, i, n) /\ n < Len(macros[i]) => Linked(s, o + Width(macros[i][n]), i, n + 1)
StartInv == \A i \in DOMAIN start : Reached(start[i][1], start[i][2], i, 1)
FirstInv == tok > 0 => (split <=> tok > 1)
SealedInv == outcome = "done" => tok = 0 /\ \A s \in Global : crc[s]

LayoutInv ==
  /\ outcome \in {"busy", "done"} => LinkInv /\ StartInv /\ FirstInv
  /\ SealedInv

\* Where the n-th instruction of the macro in hand goes.
Position(n) == offset + (Before(macros[m], n) - Before(macros[m], tok))

\* Two instructions of a macro never begin at the same offset.
LEMMA BeforeInjective ==
  ASSUME NEW code, NEW k \in Nat \ {0}, NEW n \in Nat \ {0}, Before(code, k) = Before(code, n)
  PROVE  k = n
<1>1. Before(code, k) \in Nat /\ Before(code, n) \in Nat
  BY BeforeNext
<1>2. CASE k < n
  <2>1. Before(code, k) + (n - k) <= Before(code, n)
    BY <1>2, BeforeGrows
  <2> QED BY <1>1, <1>2, <2>1
<1>3. CASE n < k
  <2>1. Before(code, n) + (k - n) <= Before(code, k)
    BY <1>3, BeforeGrows
  <2> QED BY <1>1, <1>3, <2>1
<1> QED BY <1>2, <1>3

LEMMA WrittenSource ==
  ASSUME AllocationTypeOK, tok > 0, NEW e \in tok .. Len(macros[m]), NEW o \in Int,
         NEW i, NEW n \in Nat \ {0}, Written(e, o).src = <<i, n>>
  PROVE  i = m /\ n \in tok .. e /\ o = Position(n)
<1> DEFINE b == Before(macros[m], tok) + (o - offset)
           here == {k \in tok .. e : Before(macros[m], k) = b}
           c == CHOOSE k \in here : TRUE
<1>1. here # {}
  <2> SUFFICES ASSUME here = {} PROVE FALSE
    OBVIOUS
  <2>1. Written(e, o) = Operand
    BY DEF Written
  <2>2. <<i, n>> = <<0, 0>>
    BY <2>1 DEF Operand, Byte, NoPlace
  <2> QED BY <2>2
<1>2. c \in here
  BY <1>1
<1>3. Written(e, o) = Byte(Op(macros[m][c]), NoPlace, <<m, c>>)
  BY <1>1 DEF Written
<1>4. c \in tok .. e /\ Before(macros[m], c) = Before(macros[m], tok) + (o - offset)
  BY <1>2
<1> HIDE DEF c
<1>5. <<m, c>> = <<i, n>>
  BY <1>3 DEF Byte
<1>6. i = m /\ n = c
  BY <1>5
<1>7. Before(macros[m], tok) \in Nat /\ offset \in Nat
  BY Extents, Numbers
<1> QED BY <1>4, <1>6, <1>7 DEF Position

LEMMA WrittenCell ==
  ASSUME AllocationTypeOK, tok > 0, NEW e \in tok .. Len(macros[m]), NEW n \in tok .. e
  PROVE  Written(e, Position(n)) = Byte(Op(macros[m][n]), NoPlace, <<m, n>>)
<1> DEFINE o == Position(n)
           b == Before(macros[m], tok) + (o - offset)
           here == {k \in tok .. e : Before(macros[m], k) = b}
<1>1. tok \in Nat \ {0} /\ n \in Nat \ {0} /\ \A k \in tok .. e : k \in Nat \ {0}
  BY Numbers
<1>2. Before(macros[m], tok) \in Nat /\ Before(macros[m], n) \in Nat /\ offset \in Nat
  BY <1>1, BeforeNext, Numbers
<1>3. b = Before(macros[m], n)
  BY <1>2 DEF Position
<1>4. here = {n}
  <2>1. n \in here
    BY <1>3
  <2>2. \A k \in here : k = n
    BY <1>1, <1>3, BeforeInjective
  <2> HIDE DEF here
  <2> QED BY <2>1, <2>2
<1>5. (CHOOSE k \in here : TRUE) = n
  <2> HIDE DEF here
  <2> QED BY <1>4
<1>6. Written(e, o) = IF here = {} THEN Operand
                      ELSE LET k == CHOOSE k \in here : TRUE
                           IN  Byte(Op(macros[m][k]), NoPlace, <<m, k>>)
  BY DEF Written
<1> HIDE DEF here
<1> QED BY <1>4, <1>5, <1>6

LEMMA Positions ==
  ASSUME AllocationTypeOK, tok > 0, NEW e \in tok .. Len(macros[m]), NEW n \in tok .. e
  PROVE  /\ Position(n) \in Nat /\ Position(n) >= offset /\ Position(tok) = offset
         /\ Width(macros[m][n]) \in {1, 3}
         /\ Position(n) + Width(macros[m][n]) = Position(n + 1)
         /\ Position(n + 1) <= offset + Extent(e)
         /\ n = e => Position(n + 1) = offset + Extent(e)
<1>1. tok \in Nat \ {0} /\ n \in Nat \ {0} /\ e \in Nat /\ tok <= n /\ n <= e
  BY Numbers
<1>2. n + 1 \in Nat \ {0} /\ e + 1 \in Nat \ {0} /\ n + 1 <= e + 1
  BY <1>1
<1> DEFINE B(k) == Before(macros[m], k)
<1>3. B(tok) \in Nat /\ B(n) \in Nat /\ B(n + 1) = B(n) + Width(macros[m][n]) /\ B(e + 1) \in Nat
  BY <1>1, <1>2, BeforeNext
<1>4. B(tok) + (n - tok) <= B(n) /\ B(n + 1) + (e + 1 - (n + 1)) <= B(e + 1)
  BY <1>1, <1>2, BeforeGrows
<1>5. Width(macros[m][n]) \in {1, 3}
  BY WidthOfOp
<1>6. /\ Position(n) = offset + (B(n) - B(tok)) /\ Position(tok) = offset + (B(tok) - B(tok))
      /\ Position(n + 1) = offset + (B(n + 1) - B(tok))
      /\ Extent(e) = B(e + 1) - B(tok)
  BY DEF Position, Extent
<1>7. offset \in Nat
  BY Numbers
<1> HIDE DEF B
<1>8. Position(n) \in Nat /\ Position(n) >= offset /\ Position(tok) = offset
  BY <1>1, <1>3, <1>4, <1>6, <1>7
<1>9. Width(macros[m][n]) \in Nat
  BY <1>5
<1>10. Position(n) + Width(macros[m][n]) = Position(n + 1)
  BY <1>3, <1>6, <1>7, <1>9
<1>11. Position(n + 1) <= offset + Extent(e)
  <2>1. B(n + 1) \in Nat
    BY <1>3, <1>9
  <2>2. B(n + 1) <= B(e + 1)
    BY <1>1, <1>3, <1>4, <2>1
  <2> QED BY <1>3, <1>6, <1>7, <2>1, <2>2
<1>12. n = e => Position(n + 1) = offset + Extent(e)
  BY <1>6
<1> QED BY <1>5, <1>8, <1>10, <1>11, <1>12

\* What a step that writes the instructions tok to e from the cursor on does to
\* the cells: it keeps the old ones and adds those of these instructions.
LEMMA Lays ==
  ASSUME AllocationTypeOK, OccupiedInv, outcome = "busy", tok > 0,
         NEW e \in tok .. Len(macros[m]), offset + Extent(e) <= PageData,
         NEW f,
         \A o \in offset .. offset + Extent(e) - 1 : f[o] = Written(e, o),
         \A o \in 0 .. PageData - 1 : o < offset => f[o] = pages[sector][o],
         \A o \in 0 .. PageData - 1 : o >= offset + Extent(e) => f[o].src = NoPlace,
         pages' = [pages EXCEPT ![sector] = f], macros' = macros
  PROVE  /\ \A s, o, i, n : Cell(s, o, i, n) => Cell(s, o, i, n)'
         /\ \A s, o : JumpTo(s, o) => JumpTo(s, o)'
         /\ \A s, o, i, n :
              s = sector /\ i = m /\ n \in tok .. e /\ o = Position(n) => Cell(s, o, i, n)'
         /\ \A s, o, i, n : Cell(s, o, i, n)' =>
              \/ Cell(s, o, i, n)
              \/ s = sector /\ i = m /\ n \in tok .. e /\ o = Position(n)
<1>1. /\ sector \in Global /\ sector \in DOMAIN pages /\ offset \in Nat
      /\ \A s \in Global : s \in DOMAIN pages
  BY Store, Numbers DEF AllocationTypeOK, OccupiedInv
<1>2. /\ pages'[sector] = f
      /\ \A s \in Global : s # sector => pages'[s] = pages[s]
  BY <1>1
<1>3. Extent(e) \in Nat
  BY Extents
<1>4. \A o \in 0 .. PageData - 1 : o >= offset => pages[sector][o] = Erased
  BY <1>1 DEF OccupiedInv, FreeInv
<1>5. \A o \in 0 .. PageData - 1 :
        pages[sector][o] # Erased => o < offset /\ f[o] = pages[sector][o]
  BY <1>1, <1>4
<1>6. Erased.src = <<0, 0>> /\ Erased.op = "END"
  BY DEF Erased, Byte, NoPlace
<1>7. \A s \in Global, o \in 0 .. PageData - 1 :
        pages[s][o].src # <<0, 0>> \/ pages[s][o].op = "JUMP" => pages'[s][o] = pages[s][o]
  <2> SUFFICES ASSUME NEW s \in Global, NEW o \in 0 .. PageData - 1,
                      pages[s][o].src # <<0, 0>> \/ pages[s][o].op = "JUMP"
               PROVE  pages'[s][o] = pages[s][o]
    OBVIOUS
  <2>1. pages[s][o] # Erased
    BY <1>6
  <2> QED BY <1>2, <1>5, <2>1
<1>8. ASSUME NEW s, NEW o, NEW i, NEW n, Cell(s, o, i, n)
      PROVE  Cell(s, o, i, n)'
  <2>1. /\ s \in Global /\ o \in Nat /\ n \in 1 .. Len(macros[i])
        /\ pages[s][o].src = <<i, n>> /\ pages[s][o].op = Op(macros[i][n])
        /\ o + Width(macros[i][n]) <= PageData
    BY <1>8 DEF Cell
  <2>2. Width(macros[i][n]) \in {1, 3}
    BY WidthOfOp
  <2>3. o \in 0 .. PageData - 1
    BY <2>1, <2>2, Store
  <2>4. <<i, n>> # <<0, 0>>
    BY <2>1
  <2>5. pages'[s][o] = pages[s][o]
    BY <1>7, <2>1, <2>3, <2>4
  <2> QED BY <2>1, <2>5 DEF Cell
<1>9. ASSUME NEW s, NEW o, JumpTo(s, o)
      PROVE  JumpTo(s, o)'
  <2>1. s \in Global /\ o \in 0 .. PageData - 1 /\ pages[s][o].op = "JUMP"
    BY <1>9, Store DEF JumpTo
  <2>2. pages'[s][o] = pages[s][o]
    BY <1>7, <2>1
  <2> QED BY <1>9, <2>2 DEF JumpTo
<1>10. ASSUME NEW s, NEW o, NEW i, NEW n,
              s = sector, i = m, n \in tok .. e, o = Position(n)
       PROVE  Cell(s, o, i, n)'
  <2>1. /\ o \in Nat /\ o >= offset /\ Width(macros[m][n]) \in {1, 3}
        /\ o + Width(macros[m][n]) <= offset + Extent(e)
    BY <1>10, Positions
  <2>2. o \in offset .. offset + Extent(e) - 1
    BY <1>1, <1>3, <2>1
  <2>3. f[o] = Byte(Op(macros[m][n]), NoPlace, <<m, n>>)
    BY <1>10, <2>2, WrittenCell
  <2>4. pages'[s][o] = f[o]
    BY <1>2, <1>10
  <2>5. n \in 1 .. Len(macros[i])
    BY <1>10, InHand
  <2>6. o + Width(macros[m][n]) <= PageData
    BY <1>1, <1>3, <2>1, Store
  <2> QED BY <1>1, <1>10, <2>1, <2>3, <2>4, <2>5, <2>6 DEF Cell, Byte
<1>11. ASSUME NEW s, NEW o, NEW i, NEW n, Cell(s, o, i, n)', ~Cell(s, o, i, n)
       PROVE  s = sector /\ i = m /\ n \in tok .. e /\ o = Position(n)
  <2>1. /\ s \in Global /\ o \in Nat /\ n \in 1 .. Len(macros[i])
        /\ pages'[s][o].src = <<i, n>> /\ pages'[s][o].op = Op(macros[i][n])
        /\ o + Width(macros[i][n]) <= PageData
    BY <1>11 DEF Cell
  <2>2. Width(macros[i][n]) \in {1, 3}
    BY WidthOfOp
  <2>3. o \in 0 .. PageData - 1
    BY <2>1, <2>2, Store
  <2>4. pages'[s][o] # pages[s][o]
    BY <1>11, <2>1 DEF Cell
  <2>5. s = sector /\ pages'[s][o] = f[o]
    BY <1>2, <2>1, <2>4
  <2>6. n \in Nat \ {0} /\ <<i, n>> # NoPlace
    BY <2>1 DEF NoPlace
  <2>7. o >= offset
    BY <1>1, <2>3, <2>4, <2>5
  <2>8. o < offset + Extent(e)
    <3>1. o >= offset + Extent(e) => f[o].src = NoPlace
      BY <2>3
    <3>2. f[o].src # NoPlace
      BY <2>1, <2>5, <2>6
    <3> QED BY <1>1, <1>3, <2>1, <3>1, <3>2
  <2>9. o \in offset .. offset + Extent(e) - 1 /\ o \in Int
    BY <1>1, <1>3, <2>3, <2>7, <2>8
  <2>10. Written(e, o).src = <<i, n>>
    BY <2>1, <2>5, <2>9
  <2> QED BY <2>5, <2>6, <2>9, <2>10, WrittenSource
<1> QED BY <1>8, <1>9, <1>10, <1>11

\* The cells and the jumps are where they were.
LEMMA SameCells ==
  ASSUME UNCHANGED <<pages, macros>>
  PROVE  /\ \A s, o, i, n : Cell(s, o, i, n)' <=> Cell(s, o, i, n)
         /\ \A s, o : JumpTo(s, o)' <=> JumpTo(s, o)
BY DEF Cell, JumpTo

LEMMA LinksKept ==
  ASSUME \A s, o, i, n : Cell(s, o, i, n) => Cell(s, o, i, n)',
         \A s, o : JumpTo(s, o) => JumpTo(s, o)',
         NEW s, NEW o, NEW i, NEW n, Linked(s, o, i, n),
         \A t, p : AtCursor(t, p, i, n) => Reached(t, p, i, n)'
  PROVE  Linked(s, o, i, n)'
<1>1. \A t, p : Reached(t, p, i, n) => Reached(t, p, i, n)'
  BY DEF Reached
<1>2. CASE Reached(s, o, i, n)
  BY <1>1, <1>2 DEF Linked
<1>3. CASE JumpTo(s, o) /\ Reached(s + 1, 0, i, n)
  <2>1. JumpTo(s, o)'
    BY <1>3
  <2>2. Reached(s + 1, 0, i, n)'
    BY <1>1, <1>3
  <2> QED BY <2>1, <2>2 DEF Linked
<1> QED BY <1>2, <1>3 DEF Linked

LEMMA PlaceRestLayout == CountInv /\ OccupiedInv /\ LayoutInv /\ PlaceRest => LayoutInv'
<1> SUFFICES ASSUME CountInv, OccupiedInv, LayoutInv, PlaceRest PROVE LayoutInv'
  OBVIOUS
<1> DEFINE e == Len(macros[m])
           f == [o \in Offsets |->
                   IF o \in offset .. offset + Remaining - 1
                   THEN Written(Len(macros[m]), o) ELSE pages[sector][o]]
<1>1. AllocationTypeOK /\ outcome = "busy" /\ tok > 0 /\ Remaining <= Available
  BY DEF CountInv, PlaceRest
<1>2. /\ pages' = [pages EXCEPT ![sector] = f] /\ tok' = 0 /\ m' = m + 1 /\ offset' = offset + Remaining
      /\ UNCHANGED <<macros, start, sector, split, outcome>>
  BY DEF PlaceRest
<1>3. LinkInv /\ StartInv
  BY <1>1 DEF LayoutInv
<1>4. e \in tok .. e /\ tok \in tok .. e /\ tok \in Nat \ {0} /\ e \in Nat
  BY <1>1, InHand, Numbers
<1>5. Extent(e) = Remaining /\ Remaining \in Nat /\ offset + Extent(e) <= PageData
  BY <1>1, Extents, Numbers, Store
<1>6. \A o \in 0 .. PageData - 1 : o \in Offsets
  BY Store DEF Offsets
<1>7. \A o \in offset .. offset + Extent(e) - 1 : f[o] = Written(e, o)
  <2> TAKE o \in offset .. offset + Extent(e) - 1
  <2>1. o \in 0 .. PageData - 1 /\ o \in offset .. offset + Remaining - 1
    BY <1>1, <1>5, Numbers, Store
  <2> QED BY <1>6, <2>1
<1>8. \A o \in 0 .. PageData - 1 : o < offset => f[o] = pages[sector][o]
  BY <1>1, <1>6, Numbers
<1>9. \A o \in 0 .. PageData - 1 : o >= offset + Extent(e) => f[o].src = NoPlace
  <2> TAKE o \in 0 .. PageData - 1
  <2> HAVE o >= offset + Extent(e)
  <2>1. o >= offset /\ o \notin offset .. offset + Remaining - 1 /\ sector \in Global
    BY <1>1, <1>5, Numbers DEF AllocationTypeOK
  <2>2. f[o] = pages[sector][o]
    BY <1>6, <2>1
  <2>3. pages[sector][o] = Erased
    BY <1>1, <2>1 DEF OccupiedInv, FreeInv
  <2> QED BY <2>2, <2>3 DEF Erased, Byte
<1> HIDE DEF f, e
<1>10. /\ \A s, o, i, n : Cell(s, o, i, n) => Cell(s, o, i, n)'
       /\ \A s, o : JumpTo(s, o) => JumpTo(s, o)'
       /\ \A s, o, i, n :
            s = sector /\ i = m /\ n \in tok .. e /\ o = Position(n) => Cell(s, o, i, n)'
       /\ \A s, o, i, n : Cell(s, o, i, n)' =>
            \/ Cell(s, o, i, n)
            \/ s = sector /\ i = m /\ n \in tok .. e /\ o = Position(n)
  <2>1. e \in tok .. Len(macros[m])
    BY <1>4 DEF e
  <2> QED BY <1>1, <1>2, <1>5, <1>7, <1>8, <1>9, <2>1, Lays
<1>11. \A s, o, i, n : AtCursor(s, o, i, n) => Cell(s, o, i, n)'
  <2> SUFFICES ASSUME NEW s, NEW o, NEW i, NEW n, AtCursor(s, o, i, n) PROVE Cell(s, o, i, n)'
    OBVIOUS
  <2>1. s = sector /\ o = offset /\ i = m /\ n = tok
    BY DEF AtCursor
  <2>2. Position(tok) = offset
    BY <1>1, Extents, Numbers DEF Position
  <2> QED BY <1>4, <1>10, <2>1, <2>2
<1>12. LinkInv'
  <2> SUFFICES ASSUME NEW s, NEW o, NEW i, NEW n, Cell(s, o, i, n)', n < Len(macros[i]),
                      NEW p, NEW l, p = o + Width(macros[i][n]), l = n + 1
               PROVE  Linked(s, p, i, l)'
    BY <1>2 DEF LinkInv
  <2>1. CASE Cell(s, o, i, n)
    <3>1. Linked(s, p, i, l)
      BY <1>3, <2>1 DEF LinkInv
    <3>2. \A t, q : AtCursor(t, q, i, l) => Reached(t, q, i, l)'
      BY <1>11 DEF Reached
    <3> HIDE DEF e
    <3> QED BY <1>10, <3>1, <3>2, LinksKept
  <2>2. CASE s = sector /\ i = m /\ n \in tok .. e /\ o = Position(n)
    <3>1. l \in tok .. e
      BY <1>4, <2>2 DEF e
    <3>2. p = Position(l)
      <4>1. e \in tok .. Len(macros[m])
        BY <1>4 DEF e
      <4> QED BY <1>1, <2>2, <4>1, Positions
    <3>3. Cell(s, p, i, l)'
      BY <1>10, <2>2, <3>1, <3>2
    <3> QED BY <3>3 DEF Linked, Reached
  <2> QED BY <1>10, <2>1, <2>2
<1>13. StartInv'
  <2> SUFFICES ASSUME NEW i \in DOMAIN start PROVE Reached(start[i][1], start[i][2], i, 1)'
    BY <1>2 DEF StartInv
  <2>1. Reached(start[i][1], start[i][2], i, 1)
    BY <1>3 DEF StartInv
  <2>2. \A s, o : Reached(s, o, i, 1) => Reached(s, o, i, 1)'
    BY <1>10, <1>11 DEF Reached
  <2> QED BY <1>2, <2>1, <2>2
<1> QED BY <1>1, <1>2, <1>12, <1>13 DEF LayoutInv, FirstInv, SealedInv

LEMMA PlaceFragmentLayout == CountInv /\ OccupiedInv /\ LayoutInv /\ PlaceFragment => LayoutInv'
<1> SUFFICES ASSUME CountInv, OccupiedInv, LayoutInv, PlaceFragment PROVE LayoutInv'
  OBVIOUS
<1> DEFINE e == LastFit
           jump == offset + Extent(e)
           f == [o \in Offsets |->
                   IF o \in offset .. jump - 1 THEN Written(e, o)
                   ELSE IF o = jump THEN Jump(sector + 1)
                   ELSE IF o \in jump + 1 .. jump + 4 THEN Operand
                   ELSE pages[sector][o]]
<1>1. /\ AllocationTypeOK /\ outcome = "busy" /\ tok > 0
      /\ Remaining > Available /\ Fits(tok)
  BY DEF CountInv, PlaceFragment
<1>2. CASE sector = GlobalLast
  <2>1. outcome' = "exhausted"
    BY <1>2 DEF PlaceFragment, GiveUp
  <2> QED BY <2>1 DEF LayoutInv, SealedInv
<1>3. CASE sector # GlobalLast
  <2>1. /\ pages' = [pages EXCEPT ![sector] = f]
        /\ sector' = sector + 1 /\ offset' = 0 /\ tok' = e + 1 /\ split' = TRUE
        /\ UNCHANGED <<macros, m, start, outcome>>
    BY <1>3 DEF PlaceFragment
  <2>2. LinkInv /\ StartInv
    BY <1>1 DEF LayoutInv
  <2>3. e \in tok .. Len(macros[m]) - 1 /\ Extent(e) <= Available - 5
    BY <1>1, LastFitFits DEF Fits
  <2>4. Len(macros[m]) \in Nat /\ tok \in Nat \ {0}
    BY <1>1, InHand, Numbers
  <2> HIDE DEF e
  <2>5. e \in tok .. Len(macros[m]) /\ e \in tok .. e /\ tok \in tok .. e /\ e \in Nat
    BY <2>3, <2>4
  <2>6. Extent(e) \in Nat
    BY <1>1, <2>5, Extents
  <2>7. offset \in Nat /\ offset + Extent(e) + 5 <= PageData /\ jump \in Nat /\ jump + 5 <= PageData
    <3>1. Extent(e) <= Available - 5
      BY <2>3
    <3>2. offset \in Nat /\ Available = PageData - offset /\ PageData \in Nat
      BY <1>1, Numbers, Store
    <3> QED BY <2>6, <3>1, <3>2
  <2>8. \A o \in 0 .. PageData - 1 : o \in Offsets
    BY Store DEF Offsets
  <2>9. \A o \in offset .. offset + Extent(e) - 1 : f[o] = Written(e, o)
    <3> TAKE o \in offset .. offset + Extent(e) - 1
    <3>1. o \in 0 .. PageData - 1 /\ o \in offset .. jump - 1
      BY <2>6, <2>7, Store
    <3> QED BY <2>8, <3>1
  <2>10. \A o \in 0 .. PageData - 1 : o < offset => f[o] = pages[sector][o]
    <3> TAKE o \in 0 .. PageData - 1
    <3> HAVE o < offset
    <3>1. o \notin offset .. jump - 1 /\ o # jump /\ o \notin jump + 1 .. jump + 4
      BY <2>6, <2>7
    <3> QED BY <2>8, <3>1
  <2>11. \A o \in 0 .. PageData - 1 : o >= offset + Extent(e) => f[o].src = NoPlace
    <3> TAKE o \in 0 .. PageData - 1
    <3> HAVE o >= offset + Extent(e)
    <3>1. o >= offset /\ o \notin offset .. jump - 1 /\ sector \in Global
      BY <1>1, <2>6, <2>7 DEF AllocationTypeOK
    <3>2. f[o] \in {Jump(sector + 1), Operand, pages[sector][o]}
      BY <2>8, <3>1
    <3>3. pages[sector][o] = Erased
      BY <1>1, <3>1 DEF OccupiedInv, FreeInv
    <3>4. Jump(sector + 1).src = NoPlace /\ Operand.src = NoPlace /\ Erased.src = NoPlace
      BY DEF Jump, Operand, Erased, Byte
    <3> HIDE DEF f
    <3> QED BY <3>2, <3>3, <3>4
  <2>12. f[jump] = Jump(sector + 1)
    <3>1. jump \in 0 .. PageData - 1 /\ jump \notin offset .. jump - 1
      BY <2>7, Store
    <3> QED BY <2>8, <3>1
  <2> HIDE DEF f
  <2>13. /\ \A s, o, i, n : Cell(s, o, i, n) => Cell(s, o, i, n)'
         /\ \A s, o : JumpTo(s, o) => JumpTo(s, o)'
         /\ \A s, o, i, n :
              s = sector /\ i = m /\ n \in tok .. e /\ o = Position(n) => Cell(s, o, i, n)'
         /\ \A s, o, i, n : Cell(s, o, i, n)' =>
              \/ Cell(s, o, i, n)
              \/ s = sector /\ i = m /\ n \in tok .. e /\ o = Position(n)
    <3>1. offset + Extent(e) <= PageData
      BY <2>6, <2>7, Store
    <3> HIDE DEF jump
    <3> QED BY <1>1, <2>1, <2>5, <2>9, <2>10, <2>11, <3>1, Lays
  <2>14. \A s, o, i, n : AtCursor(s, o, i, n) => Cell(s, o, i, n)'
    <3> SUFFICES ASSUME NEW s, NEW o, NEW i, NEW n, AtCursor(s, o, i, n) PROVE Cell(s, o, i, n)'
      OBVIOUS
    <3>1. s = sector /\ o = offset /\ i = m /\ n = tok
      BY DEF AtCursor
    <3>2. Position(tok) = offset
      BY <1>1, Extents, Numbers DEF Position
    <3> QED BY <2>5, <2>13, <3>1, <3>2
  <2>15. \A s, o : s = sector /\ o = jump => JumpTo(s, o)'
    <3> SUFFICES ASSUME NEW s, NEW o, s = sector, o = jump PROVE JumpTo(s, o)'
      OBVIOUS
    <3>1. s \in Global /\ s + 1 \in Global /\ s \in DOMAIN pages
      <4>1. sector \in Global /\ sector \in Nat /\ GlobalFirst <= sector /\ sector <= GlobalLast
        BY <1>1, Numbers DEF AllocationTypeOK
      <4>2. sector + 1 \in Global
        BY <1>3, <4>1, Store
      <4>3. sector \in DOMAIN pages
        BY <1>1, <4>1, Store DEF OccupiedInv
      <4> QED BY <4>1, <4>2, <4>3
    <3>2. pages'[s][o] = Jump(s + 1)
      BY <2>1, <2>12, <3>1
    <3> QED BY <2>7, <3>1, <3>2 DEF JumpTo, Jump, Byte
  <2>16. LinkInv'
    <3> SUFFICES ASSUME NEW s, NEW o, NEW i, NEW n, Cell(s, o, i, n)', n < Len(macros[i]),
                        NEW p, NEW l, p = o + Width(macros[i][n]), l = n + 1
                 PROVE  Linked(s, p, i, l)'
      BY <2>1 DEF LinkInv
    <3>1. CASE Cell(s, o, i, n)
      <4>1. Linked(s, p, i, l)
        BY <2>2, <3>1 DEF LinkInv
      <4>2. \A t, q : AtCursor(t, q, i, l) => Reached(t, q, i, l)'
        BY <2>14 DEF Reached
      <4> QED BY <2>13, <4>1, <4>2, LinksKept
    <3>2. CASE s = sector /\ i = m /\ n \in tok .. e /\ o = Position(n)
      <4>1. p = Position(l) /\ (n = e => p = jump)
        BY <1>1, <2>5, <3>2, Positions
      <4>2. CASE n # e
        <5>1. l \in tok .. e
          BY <2>5, <3>2, <4>2
        <5>2. Cell(s, p, i, l)'
          BY <2>13, <3>2, <4>1, <5>1
        <5> QED BY <5>2 DEF Linked, Reached
      <4>3. CASE n = e
        <5>1. JumpTo(s, p)'
          BY <2>15, <3>2, <4>1, <4>3
        <5>2. AtCursor(s + 1, 0, i, l)'
          BY <2>1, <3>2, <4>3 DEF AtCursor
        <5> QED BY <5>1, <5>2 DEF Linked, Reached
      <4> QED BY <4>2, <4>3
    <3> QED BY <2>13, <3>1, <3>2
  <2>17. StartInv'
    <3> SUFFICES ASSUME NEW i \in DOMAIN start PROVE Reached(start[i][1], start[i][2], i, 1)'
      BY <2>1 DEF StartInv
    <3>1. Reached(start[i][1], start[i][2], i, 1)
      BY <2>2 DEF StartInv
    <3>2. \A s, o : Reached(s, o, i, 1) => Reached(s, o, i, 1)'
      BY <2>13, <2>14 DEF Reached
    <3> QED BY <2>1, <3>1, <3>2
  <2>18. FirstInv'
    <3>1. e + 1 > 1
      BY <2>4, <2>5
    <3> QED BY <2>1, <3>1 DEF FirstInv
  <2> QED BY <1>1, <2>1, <2>16, <2>17, <2>18 DEF LayoutInv, SealedInv
<1> QED BY <1>2, <1>3

LEMMA BeginMacroLayout == CountInv /\ OccupiedInv /\ LayoutInv /\ BeginMacro => LayoutInv'
<1> SUFFICES ASSUME CountInv, OccupiedInv, LayoutInv, BeginMacro PROVE LayoutInv'
  OBVIOUS
<1>1. AllocationTypeOK /\ outcome = "busy" /\ tok = 0
  BY DEF CountInv, BeginMacro
<1>2. CASE outcome' \in {"busy", "done"}
  <2>1. /\ UNCHANGED <<pages, macros, m, outcome>>
        /\ tok' = 1 /\ split' = FALSE /\ start' = Append(start, <<sector', offset'>>)
    BY <1>2 DEF BeginMacro, GiveUp, memory
  <2>2. LinkInv /\ StartInv
    BY <1>1 DEF LayoutInv
  <2>3. \A s, o, i, n : AtCursor(s, o, i, n) => n = 0
    BY <1>1 DEF AtCursor
  <2>4. LinkInv'
    <3> SUFFICES ASSUME NEW s, NEW o, NEW i, NEW n, Cell(s, o, i, n)', n < Len(macros[i]),
                        NEW p, NEW l, p = o + Width(macros[i][n]), l = n + 1
                 PROVE  Linked(s, p, i, l)'
      BY <2>1 DEF LinkInv
    <3>1. Cell(s, o, i, n)
      BY <2>1, SameCells
    <3>2. Linked(s, p, i, l)
      BY <2>2, <3>1 DEF LinkInv
    <3>3. l # 0
      BY <3>1 DEF Cell
    <3>4. \A t, q : AtCursor(t, q, i, l) => Reached(t, q, i, l)'
      BY <2>3, <3>3
    <3>5. /\ \A t, q, j, k : Cell(t, q, j, k) => Cell(t, q, j, k)'
          /\ \A t, q : JumpTo(t, q) => JumpTo(t, q)'
      BY <2>1, SameCells
    <3> QED BY <3>2, <3>4, <3>5, LinksKept
  <2>5. StartInv'
    <3> SUFFICES ASSUME NEW i \in DOMAIN start', NEW s, NEW o, s = start'[i][1], o = start'[i][2]
                 PROVE  Reached(s, o, i, 1)'
      BY DEF StartInv
    <3>1. start \in Seq(Global \X (0 .. PageData - 1)) /\ Len(start) = m - 1 /\ m \in Nat \ {0}
      BY <1>1 DEF AllocationTypeOK
    <3>2. DOMAIN start = 1 .. m - 1 /\ DOMAIN start' = 1 .. m
          /\ start'[m] = <<sector', offset'>> /\ \A j \in DOMAIN start : start'[j] = start[j]
      <4> DEFINE x == <<sector', offset'>>
      <4> HIDE DEF x
      <4>1. start' = Append(start, x)
        BY <2>1 DEF x
      <4>2. DOMAIN start = 1 .. m - 1
        BY <3>1, LenProperties
      <4>3. DOMAIN start' = 1 .. m
        BY <3>1, <4>1
      <4>4. start'[m] = x
        BY <3>1, <4>1
      <4>5. \A j \in DOMAIN start : start'[j] = start[j]
        BY <3>1, <4>1, <4>2
      <4> QED BY <4>2, <4>3, <4>4, <4>5 DEF x
    <3>3. CASE i = m
      BY <2>1, <3>2, <3>3 DEF Reached, AtCursor
    <3>4. CASE i \in DOMAIN start
      <4>1. Reached(s, o, i, 1)
        BY <2>2, <3>2, <3>4 DEF StartInv
      <4>2. Cell(s, o, i, 1)
        BY <2>3, <4>1 DEF Reached
      <4> QED BY <2>1, <4>2, SameCells DEF Reached
    <3> QED BY <3>1, <3>2, <3>3, <3>4
  <2>6. FirstInv'
    BY <2>1 DEF FirstInv
  <2> QED BY <1>1, <2>1, <2>4, <2>5, <2>6 DEF LayoutInv, SealedInv
<1> QED BY <1>2 DEF LayoutInv, SealedInv

LEMMA MoveOnLayout == CountInv /\ OccupiedInv /\ LayoutInv /\ MoveOn => LayoutInv'
<1> SUFFICES ASSUME CountInv, OccupiedInv, LayoutInv, MoveOn PROVE LayoutInv'
  OBVIOUS
<1>1. AllocationTypeOK /\ outcome = "busy" /\ tok > 0
  BY DEF CountInv, MoveOn
<1>2. CASE outcome' \in {"busy", "done"}
  <2>1. /\ UNCHANGED <<pages, macros, m, tok, split, outcome>> /\ ~split
        /\ sector' = sector + 1 /\ offset' = 0
        /\ start' = [start EXCEPT ![m] = <<sector + 1, 0>>]
    BY <1>2 DEF MoveOn, GiveUp, memory
  <2>2. LinkInv /\ StartInv /\ FirstInv
    BY <1>1 DEF LayoutInv
  <2>3. tok = 1
    BY <1>1, <2>1, <2>2, Numbers DEF FirstInv
  <2>4. LinkInv'
    <3> SUFFICES ASSUME NEW s, NEW o, NEW i, NEW n, Cell(s, o, i, n)', n < Len(macros[i]),
                        NEW p, NEW l, p = o + Width(macros[i][n]), l = n + 1
                 PROVE  Linked(s, p, i, l)'
      BY <2>1 DEF LinkInv
    <3>1. Cell(s, o, i, n)
      BY <2>1, SameCells
    <3>2. Linked(s, p, i, l)
      BY <2>2, <3>1 DEF LinkInv
    <3>3. l # 1
      BY <3>1 DEF Cell
    <3>4. \A t, q : AtCursor(t, q, i, l) => Reached(t, q, i, l)'
      BY <2>3, <3>3 DEF AtCursor
    <3>5. /\ \A t, q, j, k : Cell(t, q, j, k) => Cell(t, q, j, k)'
          /\ \A t, q : JumpTo(t, q) => JumpTo(t, q)'
      BY <2>1, SameCells
    <3> QED BY <3>2, <3>4, <3>5, LinksKept
  <2>5. StartInv'
    <3> SUFFICES ASSUME NEW i \in DOMAIN start', NEW s, NEW o, s = start'[i][1], o = start'[i][2]
                 PROVE  Reached(s, o, i, 1)'
      BY DEF StartInv
    <3>1. i \in DOMAIN start /\ m \in DOMAIN start
      BY <1>1, <2>1, InHand
    <3>2. CASE i = m
      <4>1. s = sector + 1 /\ o = 0
        BY <2>1, <3>1, <3>2
      <4> QED BY <2>1, <2>3, <3>2, <4>1 DEF Reached, AtCursor
    <3>3. CASE i # m
      <4>1. Reached(s, o, i, 1)
        BY <2>1, <2>2, <3>1, <3>3 DEF StartInv
      <4>2. Cell(s, o, i, 1)
        BY <3>3, <4>1 DEF Reached, AtCursor
      <4> QED BY <2>1, <4>2, SameCells DEF Reached
    <3> QED BY <3>2, <3>3
  <2> QED BY <1>1, <2>1, <2>2, <2>4, <2>5 DEF LayoutInv, SealedInv, FirstInv
<1> QED BY <1>2 DEF LayoutInv, SealedInv

LEMMA SealLayout == CountInv /\ OccupiedInv /\ LayoutInv /\ Seal => LayoutInv'
<1> SUFFICES ASSUME CountInv, OccupiedInv, LayoutInv, Seal PROVE LayoutInv'
  OBVIOUS
<1>1. /\ outcome = "busy" /\ tok = 0 /\ tok' = 0
      /\ UNCHANGED <<macros, m, tok, split, sector, offset, start>>
      /\ pages' = [s \in Addressable |->
            IF s \in Global
            THEN [o \in Offsets |-> IF o < PageData THEN pages[s][o] ELSE Operand]
            ELSE pages[s]]
      /\ crc' = [s \in Addressable |-> s \in Global \/ crc[s]]
  BY DEF Seal, cursor, ledger
<1>2. \A s \in Global, o \in 0 .. PageData - 1 : pages'[s][o] = pages[s][o]
  <2> TAKE s \in Global, o \in 0 .. PageData - 1
  <2>1. s \in Addressable /\ o \in Offsets /\ o < PageData
    BY Store DEF Offsets
  <2> QED BY <1>1, <2>1
<1>3. \A s, o, i, n : Cell(s, o, i, n)' <=> Cell(s, o, i, n)
  <2> TAKE s, o, i, n
  <2>1. s \in Global /\ o \in Nat /\ o + Width(macros[i][n]) <= PageData =>
          pages'[s][o] = pages[s][o]
    <3>1. Width(macros[i][n]) \in {1, 3}
      BY WidthOfOp
    <3> QED BY <1>2, <3>1, Store
  <2> QED BY <1>1, <2>1 DEF Cell
<1>4. \A s, o : JumpTo(s, o)' <=> JumpTo(s, o)
  <2> TAKE s, o
  <2>1. s \in Global /\ o \in Nat /\ o + 5 <= PageData => pages'[s][o] = pages[s][o]
    BY <1>2, Store
  <2> QED BY <2>1 DEF JumpTo
<1>5. \A s, o, i, n : AtCursor(s, o, i, n)' <=> AtCursor(s, o, i, n)
  BY <1>1 DEF AtCursor
<1>6. \A s, o, i, n : Reached(s, o, i, n)' <=> Reached(s, o, i, n)
  BY <1>3, <1>5 DEF Reached
<1>7. \A s, o, i, n : Linked(s, o, i, n)' <=> Linked(s, o, i, n)
  BY <1>4, <1>6 DEF Linked
<1>8. LinkInv /\ StartInv /\ FirstInv
  BY <1>1 DEF LayoutInv
<1>9. LinkInv'
  <2> SUFFICES ASSUME NEW s, NEW o, NEW i, NEW n, Cell(s, o, i, n)', n < Len(macros[i]),
                      NEW p, NEW l, p = o + Width(macros[i][n]), l = n + 1
               PROVE  Linked(s, p, i, l)'
    BY <1>1 DEF LinkInv
  <2>1. Linked(s, p, i, l)
    BY <1>3, <1>8 DEF LinkInv
  <2> QED BY <1>7, <2>1
<1>10. StartInv'
  <2> SUFFICES ASSUME NEW i \in DOMAIN start, NEW s, NEW o, s = start[i][1], o = start[i][2]
               PROVE  Reached(s, o, i, 1)'
    BY <1>1 DEF StartInv
  <2>1. Reached(s, o, i, 1)
    BY <1>8 DEF StartInv
  <2> QED BY <1>6, <2>1
<1>11. FirstInv'
  BY <1>1 DEF FirstInv
<1>12. \A s \in Global : crc'[s]
  BY <1>1, Store
<1> QED BY <1>1, <1>9, <1>10, <1>11, <1>12 DEF LayoutInv, SealedInv

LEMMA AllocateLayout == ASSUME CountInv, NEW unique, Allocate(unique) PROVE LayoutInv'
<1>1. /\ outcome = "idle" /\ outcome' = "busy" /\ UNCHANGED <<start, tok>>
      /\ pages' = [s \in Addressable |-> IF s \in Global THEN ErasedPage ELSE pages[s]]
  BY DEF Allocate, cursor, ledger
<1>2. tok = 0 /\ start = <<>>
  BY <1>1 DEF CountInv, IdleInv
<1>3. ASSUME NEW s, NEW o, NEW i, NEW n, Cell(s, o, i, n)' PROVE FALSE
  <2>1. /\ s \in Global /\ o \in Nat /\ n \in 1 .. Len(macros'[i])
        /\ pages'[s][o].src = <<i, n>> /\ o + Width(macros'[i][n]) <= PageData
    BY <1>3 DEF Cell
  <2>2. Width(macros'[i][n]) \in {1, 3}
    BY WidthOfOp
  <2>3. o \in Offsets /\ s \in Addressable
    BY <2>1, <2>2, Store DEF Offsets
  <2>4. pages'[s][o] = Erased
    BY <1>1, <2>1, <2>3 DEF ErasedPage
  <2>5. <<i, n>> = <<0, 0>>
    BY <2>1, <2>4 DEF Erased, Byte, NoPlace
  <2> QED BY <2>1, <2>5
<1>4. LinkInv'
  <2> SUFFICES ASSUME NEW s, NEW o, NEW i, NEW n, Cell(s, o, i, n)' PROVE FALSE
    BY DEF LinkInv
  <2> QED BY <1>3
<1>5. StartInv'
  BY <1>1, <1>2 DEF StartInv
<1> QED BY <1>1, <1>2, <1>4, <1>5 DEF LayoutInv, FirstInv, SealedInv

\* Every step of the allocator keeps the instructions of a macro linked.
LEMMA AllocationLayout == CountInv /\ OccupiedInv /\ LayoutInv /\ Allocation => LayoutInv'
BY BeginMacroLayout, PlaceRestLayout, PlaceFragmentLayout, MoveOnLayout, SealLayout DEF Allocation

LEMMA LayoutInit == AllocationInit => LayoutInv
BY DEF AllocationInit, LayoutInv, SealedInv

LEMMA LayoutStutters == LayoutInv /\ UNCHANGED <<memory, allocation>> => LayoutInv'
<1> SUFFICES ASSUME LayoutInv, UNCHANGED <<memory, allocation>> PROVE LayoutInv'
  OBVIOUS
<1>1. UNCHANGED <<pages, crc, macros, m, tok, split, sector, offset, start, outcome>>
  BY DEF memory, allocation, cursor, ledger
<1>2. /\ \A s, o, i, n : Reached(s, o, i, n)' <=> Reached(s, o, i, n)
      /\ \A s, o, i, n : Cell(s, o, i, n)' <=> Cell(s, o, i, n)
      /\ \A s, o : JumpTo(s, o)' <=> JumpTo(s, o)
  BY <1>1, SameCells DEF Reached, AtCursor
<1>3. \A s, o, i, n : Linked(s, o, i, n)' <=> Linked(s, o, i, n)
  BY <1>2 DEF Linked
<1>4. LinkInv => LinkInv'
  <2> SUFFICES ASSUME LinkInv,
                      NEW s, NEW o, NEW i, NEW n, Cell(s, o, i, n)', n < Len(macros[i]),
                      NEW p, NEW l, p = o + Width(macros[i][n]), l = n + 1
               PROVE  Linked(s, p, i, l)'
    BY <1>1 DEF LinkInv
  <2>1. Linked(s, p, i, l)
    BY <1>2 DEF LinkInv
  <2> QED BY <1>3, <2>1
<1>5. StartInv => StartInv'
  <2> SUFFICES ASSUME StartInv, NEW i \in DOMAIN start, NEW s, NEW o, s = start[i][1], o = start[i][2]
               PROVE  Reached(s, o, i, 1)'
    BY <1>1 DEF StartInv
  <2>1. Reached(s, o, i, 1)
    BY DEF StartInv
  <2> QED BY <1>2, <2>1
<1>6. (FirstInv => FirstInv') /\ (SealedInv => SealedInv')
  BY <1>1 DEF FirstInv, SealedInv
<1> QED BY <1>1, <1>4, <1>5, <1>6 DEF LayoutInv
-----------------------------------------------------------------------------
(* The virtual machine on the macros of the compiler *)

StoreInv == CountInv /\ OccupiedInv /\ LayoutInv

(* The walk of a compiled macro: after n - 1 instructions it stands where   *)
(* the n-th begins or where a JUMP leads to it, and everything it has read  *)
(* lies before.                                                             *)

Walked(i, n) ==
  /\ chain \in Seq({i} \X Nat) /\ Len(chain) = n
  /\ \A k \in DOMAIN chain : chain[k] = <<i, k>>

Earlier(b, s, o) == b[1] < s \/ (b[1] = s /\ b[2] < o)

Walking(i) ==
  \E s, o, n :
    /\ at = <<s, o>> /\ Linked(s, o, i, n) /\ n \in Nat \ {0}
    /\ Walked(i, n - 1)
    /\ seen \subseteq Data /\ \A b \in seen : Earlier(b, s, o)

Accepted(i) ==
  \E n \in 1 .. Len(macros[i]) : Walked(i, n) /\ macros[i][n] = End

OwnInv(i) ==
  origin = start[i] =>
    /\ verdict \in {"idle", "walking", "accepted"}
    /\ verdict = "walking" => Walking(i)
    /\ verdict = "accepted" => Accepted(i)

WalkInv == outcome = "done" => \A i \in DOMAIN start : OwnInv(i)

\* What is read where a macro of the compiler goes on.
LEMMA LinkedPlace ==
  ASSUME StoreInv, outcome = "done", NEW i \in DOMAIN start, NEW s, NEW o, NEW n, Linked(s, o, i, n)
  PROVE  /\ s \in Global /\ o \in 0 .. PageData - 1 /\ n \in Nat \ {0}
         /\ n \in 1 .. Len(macros[i])
         /\ Limit(s) = PageData /\ InStore(<<s, o>>) /\ At(<<s, o>>) = pages[s][o]
         /\ Cell(s, o, i, n) \/ (JumpTo(s, o) /\ Cell(s + 1, 0, i, n))
<1>1. tok = 0 /\ \A t \in Global : crc[t]
  BY DEF StoreInv, LayoutInv, SealedInv
<1>2. \A t, p : Reached(t, p, i, n) => Cell(t, p, i, n) \/ n = 0
  BY <1>1 DEF Reached, AtCursor
<1>3. \A t, p : AtCursor(t, p, i, n) => FALSE
  <2> SUFFICES ASSUME NEW t, NEW p, AtCursor(t, p, i, n) PROVE FALSE
    OBVIOUS
  <2>1. i = m
    BY DEF AtCursor
  <2>2. DOMAIN start = 1 .. m - 1 /\ m \in Nat
    BY <1>1, LenProperties DEF StoreInv, CountInv, AllocationTypeOK
  <2> QED BY <2>1, <2>2
<1>4. Cell(s, o, i, n) \/ (JumpTo(s, o) /\ Cell(s + 1, 0, i, n))
  BY <1>3 DEF Linked, Reached
<1>5. n \in 1 .. Len(macros[i])
  BY <1>4 DEF Cell
<1>6. n \in Nat \ {0}
  BY <1>5
<1>7. s \in Global /\ o \in 0 .. PageData - 1
  <2>1. CASE Cell(s, o, i, n)
    <3>1. Width(macros[i][n]) \in {1, 3}
      BY WidthOfOp
    <3> QED BY <2>1, <3>1, Store DEF Cell
  <2>2. CASE JumpTo(s, o)
    BY <2>2, Store DEF JumpTo
  <2> QED BY <1>4, <2>1, <2>2
<1>8. Limit(s) = PageData
  BY <1>1, <1>7 DEF Limit
<1>9. InStore(<<s, o>>)
  BY <1>7, <1>8, Store DEF InStore
<1> QED BY <1>4, <1>5, <1>6, <1>7, <1>8, <1>9 DEF At

\* There are too few bytes for the bound of the loop to matter.
LEMMA NeverTooLong == ASSUME seen \subseteq Data PROVE Cardinality(seen) # MaxInstructions
<1>1. IsFiniteSet(Addressable) /\ Cardinality(Addressable) \in Nat
  BY PagesAssumption, FS_CardinalityType
<1>2. IsFiniteSet(Offsets) /\ Cardinality(Offsets) = SectorSize
  BY IntervalSize, FS_Interval, Store DEF Offsets
<1>3. /\ IsFiniteSet(Addressable \X Offsets)
      /\ Cardinality(Addressable \X Offsets) = Cardinality(Addressable) * Cardinality(Offsets)
  BY <1>1, <1>2, FS_Product
<1>4. seen \subseteq Addressable \X Offsets
  BY Store DEF Data, Offsets
<1>5. Cardinality(seen) <= Cardinality(Addressable \X Offsets)
  BY <1>3, <1>4, FS_Subset
<1>6. IsFiniteSet(seen)
  BY <1>3, <1>4, FS_Subset
<1>7. Cardinality(seen) \in Nat
  BY <1>6, FS_CardinalityType
<1>8. MaxInstructions \in Nat /\ Cardinality(Addressable) * SectorSize < MaxInstructions
  BY LimitAssumption
<1> DEFINE x == Cardinality(Addressable) * SectorSize
<1>9. Cardinality(seen) <= x /\ x < MaxInstructions /\ x \in Int
  BY <1>1, <1>2, <1>3, <1>5, <1>8, Store
<1> HIDE DEF x
<1> QED BY <1>7, <1>8, <1>9

\* One turn of the loop in a macro of the compiler.
LEMMA WalkOn ==
  ASSUME StoreInv, outcome = "done", NEW i \in DOMAIN start, verdict = "walking", Walking(i),
         Walk, UNCHANGED <<memory, allocation>>
  PROVE  /\ verdict' \in {"walking", "accepted"}
         /\ verdict' = "walking" => Walking(i)'
         /\ verdict' = "accepted" => Accepted(i)'
<1>1. PICK s, o, n :
        /\ at = <<s, o>> /\ Linked(s, o, i, n) /\ n \in Nat \ {0}
        /\ Walked(i, n - 1)
        /\ seen \subseteq Data /\ \A b \in seen : Earlier(b, s, o)
  BY DEF Walking
<1>2. /\ s \in Global /\ o \in 0 .. PageData - 1 /\ n \in 1 .. Len(macros[i])
      /\ Limit(s) = PageData /\ InStore(<<s, o>>) /\ At(<<s, o>>) = pages[s][o]
      /\ Cell(s, o, i, n) \/ (JumpTo(s, o) /\ Cell(s + 1, 0, i, n))
  BY <1>1, LinkedPlace
<1>3. s \in Int /\ o \in Int
  BY <1>2, Store
<1>4. at \notin seen
  <2>1. ~Earlier(<<s, o>>, s, o)
    BY <1>3 DEF Earlier
  <2> QED BY <1>1, <2>1
<1>5. Cardinality(seen) # MaxInstructions
  BY <1>1, NeverTooLong
<1>6. \A t, p, k : Linked(t, p, i, k) => Linked(t, p, i, k)'
  <2>1. UNCHANGED <<pages, macros, m, tok, sector, offset>>
    BY DEF memory, allocation, cursor
  <2>2. \A t, p, k : Reached(t, p, i, k) => Reached(t, p, i, k)'
    BY <2>1, SameCells DEF Reached, AtCursor
  <2>3. \A t, p : JumpTo(t, p) => JumpTo(t, p)'
    BY <2>1, SameCells
  <2> QED BY <2>2, <2>3 DEF Linked
<1>7. seen \union {at} \subseteq Data
  BY <1>1, <1>2 DEF Data
<1>8. \A t, p : Earlier(<<s, o>>, t, p) /\ t \in Int /\ p \in Int =>
        \A b \in seen \union {at} : Earlier(b, t, p)
  <2> SUFFICES ASSUME NEW t \in Int, NEW p \in Int, Earlier(<<s, o>>, t, p), NEW b \in seen
               PROVE  Earlier(b, t, p)
    BY <1>1
  <2>1. Earlier(b, s, o)
    BY <1>1
  <2>2. b \in Data
    BY <1>1
  <2>3. b[1] \in Int /\ b[2] \in Int
    BY <2>2, Store DEF Data
  <2> QED BY <1>3, <2>1, <2>3 DEF Earlier
<1>9. CASE JumpTo(s, o) /\ Cell(s + 1, 0, i, n)
  <2>1. /\ s + 1 \in Global /\ o + 5 <= PageData
        /\ At(at).op = "JUMP" /\ At(at).to = <<s + 1, 0>>
    BY <1>1, <1>2, <1>9 DEF JumpTo
  <2>2. Linked(s + 1, 0, i, n)
    BY <1>9 DEF Linked, Reached
  <2>3. InStore(<<s + 1, 0>>)
    BY <2>2, LinkedPlace
  <2>4. Decodes(at)
    BY <1>1, <1>2, <2>1, <2>3 DEF Decodes, Size
  <2>5. After(at) = <<s + 1, 0>> /\ ~Falls(at) /\ At(at).op # "END"
    BY <2>1 DEF After, Falls
  <2>6. /\ verdict' = "walking" /\ at' = <<s + 1, 0>> /\ seen' = seen \union {at} /\ chain' = chain
    BY <1>4, <1>5, <2>1, <2>4, <2>5 DEF Walk
  <2>7. \A b \in seen' : Earlier(b, s + 1, 0)
    <3>1. Earlier(<<s, o>>, s + 1, 0)
      BY <1>3 DEF Earlier
    <3> QED BY <1>3, <1>8, <2>6, <3>1
  <2>8. Walked(i, n - 1)'
    BY <1>1, <2>6 DEF Walked
  <2>9. Linked(s + 1, 0, i, n)'
    BY <1>6, <2>2
  <2>10. Walking(i)'
    <3> DEFINE t == s + 1
    <3>1. /\ at' = <<t, 0>> /\ Linked(t, 0, i, n)' /\ n \in Nat \ {0} /\ Walked(i, n - 1)'
          /\ seen' \subseteq Data /\ \A b \in seen' : Earlier(b, t, 0)
      BY <1>1, <1>7, <2>6, <2>7, <2>8, <2>9
    <3> HIDE DEF t
    <3> QED BY <3>1 DEF Walking, Data
  <2> QED BY <2>6, <2>10
<1>10. CASE Cell(s, o, i, n)
  <2> DEFINE w == Width(macros[i][n])
  <2>1. /\ At(at).src = <<i, n>> /\ At(at).op = Op(macros[i][n]) /\ o + w <= PageData
    BY <1>1, <1>2, <1>10 DEF Cell
  <2>2. /\ w \in {1, 3} /\ Op(macros[i][n]) \in {"END", "ONE", "THREE"}
        /\ Size(Op(macros[i][n])) = w
        /\ Op(macros[i][n]) = "END" <=> macros[i][n] = End
    BY WidthOfOp
  <2>3. Decodes(at)
    BY <1>1, <1>2, <2>1, <2>2 DEF Decodes
  <2>4. At(at).op # "JUMP" /\ After(at) = <<s, o + w>>
    BY <1>1, <2>1, <2>2 DEF After
  <2>5. seen' = seen \union {at} /\ chain' = Append(chain, <<i, n>>)
    BY <1>4, <1>5, <2>1, <2>3, <2>4 DEF Walk
  <2>6. Walked(i, n)'
    <3>1. chain \in Seq({i} \X Nat) /\ Len(chain) = n - 1 /\ <<i, n>> \in {i} \X Nat
          /\ \A k \in DOMAIN chain : chain[k] = <<i, k>>
      BY <1>1 DEF Walked
    <3>2. /\ chain' \in Seq({i} \X Nat) /\ Len(chain') = Len(chain) + 1
          /\ \A k \in 1 .. Len(chain) : chain'[k] = chain[k]
          /\ chain'[Len(chain) + 1] = <<i, n>>
      BY <2>5, <3>1, AppendProperties
    <3>3. DOMAIN chain' = 1 .. n /\ DOMAIN chain = 1 .. n - 1
      BY <1>1, <3>1, <3>2, LenProperties
    <3>4. \A k \in DOMAIN chain' : chain'[k] = <<i, k>>
      <4> TAKE k \in DOMAIN chain'
      <4>1. CASE k = n
        BY <1>1, <3>1, <3>2, <4>1
      <4>2. CASE k # n
        <5>1. k \in 1 .. n - 1
          BY <1>1, <3>3, <4>2
        <5> QED BY <3>1, <3>2, <3>3, <5>1
      <4> QED BY <4>1, <4>2
    <3>5. Len(chain') = n
      BY <1>1, <3>1, <3>2
    <3> QED BY <3>2, <3>4, <3>5 DEF Walked
  <2>7. CASE macros[i][n] = End
    <3>1. verdict' = "accepted"
      BY <1>4, <1>5, <2>1, <2>2, <2>3, <2>7 DEF Walk
    <3>2. macros' = macros
      BY DEF allocation
    <3>3. Accepted(i)'
      BY <1>2, <2>6, <2>7, <3>2 DEF Accepted
    <3> QED BY <3>1, <3>3
  <2>8. CASE macros[i][n] # End
    <3>1. Tokens(macros[i])
      BY DEF StoreInv, CountInv, AllocationTypeOK
    <3>2. n < Len(macros[i])
      <4>1. Len(macros[i]) \in Nat
        BY <3>1, LenProperties DEF Tokens
      <4>2. n # Len(macros[i])
        BY <2>8, <3>1 DEF Tokens
      <4> QED BY <1>2, <4>1, <4>2
    <3>3. PICK p, l : p = o + w /\ l = n + 1
      OBVIOUS
    <3>4. Linked(s, p, i, l)
      BY <1>10, <3>2, <3>3 DEF StoreInv, LayoutInv, LinkInv
    <3>5. p \in 0 .. PageData - 1
      BY <3>4, LinkedPlace
    <3>6. ~Falls(at)
      BY <1>1, <1>2, <2>4, <3>3, <3>5, Store DEF Falls
    <3>7. verdict' = "walking" /\ at' = <<s, p>>
      BY <1>4, <1>5, <2>1, <2>2, <2>3, <2>4, <2>8, <3>3, <3>6 DEF Walk
    <3>8. \A b \in seen' : Earlier(b, s, p)
      <4>1. Earlier(<<s, o>>, s, p)
        BY <1>3, <2>2, <3>3 DEF Earlier
      <4> QED BY <1>3, <1>8, <2>5, <3>5, <4>1
    <3>9. Linked(s, p, i, l)'
      BY <1>6, <3>4
    <3>10. Walking(i)'
      <4>1. /\ l \in Nat \ {0} /\ n = l - 1
        BY <1>1, <3>3
      <4>2. /\ at' = <<s, p>> /\ Linked(s, p, i, l)' /\ l \in Nat \ {0} /\ Walked(i, l - 1)'
            /\ seen' \subseteq Data /\ \A b \in seen' : Earlier(b, s, p)
        BY <1>7, <2>5, <2>6, <3>7, <3>8, <3>9, <4>1
      <4> QED BY <4>2 DEF Walking, Data
    <3> QED BY <3>7, <3>10
  <2> QED BY <2>7, <2>8
<1> QED BY <1>2, <1>9, <1>10

LEMMA WalkBegins ==
  ASSUME StoreInv, outcome = "done", NEW i \in DOMAIN start, NEW a, a = start[i],
         StartWalk(a), UNCHANGED <<memory, allocation>>
  PROVE  verdict' = "walking" /\ Walking(i)'
<1>1. PICK s, o : s = start[i][1] /\ o = start[i][2] /\ start[i] = <<s, o>>
  BY DEF StoreInv, CountInv, AllocationTypeOK
<1>2. Linked(s, o, i, 1)
  BY <1>1 DEF StoreInv, LayoutInv, StartInv, Linked
<1>3. Linked(s, o, i, 1)'
  <2>1. UNCHANGED <<pages, macros, m, tok, sector, offset>>
    BY DEF memory, allocation, cursor
  <2> QED BY <1>2, <2>1, SameCells DEF Linked, Reached, AtCursor
<1>4. at' = <<s, o>> /\ seen' = {} /\ chain' = <<>> /\ verdict' = "walking"
  BY <1>1 DEF StartWalk
<1>5. Walked(i, 1 - 1)'
  BY <1>4 DEF Walked
<1> QED BY <1>3, <1>4, <1>5 DEF Walking

\* Every step of the walk keeps it; so does whatever leaves it alone.
LEMMA WalkKept ==
  ASSUME StoreInv, WalkInv, UNCHANGED <<memory, allocation>>,
         \/ Walk \/ verdict' = "idle" \/ UNCHANGED walk
         \/ \E a : StartWalk(a)
  PROVE  WalkInv'
<1> SUFFICES ASSUME outcome = "done", NEW i \in DOMAIN start PROVE OwnInv(i)'
  BY DEF WalkInv, allocation, ledger
<1>1. OwnInv(i) /\ start' = start
  BY DEF WalkInv, allocation, ledger
<1>2. CASE verdict' = "idle"
  BY <1>2 DEF OwnInv
<1>3. CASE Walk /\ origin = start[i]
  <2>1. verdict = "walking" /\ Walking(i)
    BY <1>1, <1>3 DEF Walk, OwnInv
  <2> QED BY <1>3, <2>1, WalkOn DEF OwnInv
<1>4. CASE Walk /\ origin # start[i]
  <2>1. origin' = origin
    BY <1>4 DEF Walk, Refuse
  <2> QED BY <1>1, <1>4, <2>1 DEF OwnInv
<1>5. CASE UNCHANGED walk
  <2>1. UNCHANGED <<pages, macros, m, tok, sector, offset, start, origin, at, seen, chain, verdict>>
    BY <1>5 DEF memory, allocation, cursor, ledger, walk
  <2>2. Walking(i) => Walking(i)'
    BY <2>1, SameCells DEF Walking, Walked, Linked, Reached, AtCursor, Data
  <2>3. Accepted(i) => Accepted(i)'
    BY <2>1 DEF Accepted, Walked
  <2> QED BY <1>1, <2>1, <2>2, <2>3 DEF OwnInv
<1>6. ASSUME NEW a, StartWalk(a) PROVE OwnInv(i)'
  <2>1. origin' = a /\ verdict' = "walking"
    BY <1>6 DEF StartWalk
  <2>2. a = start[i] => Walking(i)'
    BY <1>6, WalkBegins
  <2> QED BY <1>1, <2>1, <2>2 DEF OwnInv
<1> QED BY <1>2, <1>3, <1>4, <1>5, <1>6
=============================================================================
