-------------------------- MODULE BreakpointsProofs --------------------------
(***************************************************************************)
(* Proofs about Breakpoints, for pools of any size and programs of any     *)
(* length: no record is lost or used twice; when the user is careful the   *)
(* monitor gives the program every byte back; and when the program is only *)
(* run with c, without watchpoints, the debugger of Debugger is            *)
(* implemented.                                                            *)
(***************************************************************************)
EXTENDS Breakpoints, SequenceTheorems, WellFoundedInduction, TLAPS

-------------------------------------------------------------------------------
(* Lists of numbers *)

Elements(s) == {s[k] : k \in 1 .. Len(s)}
NoRepeat(s) == \A j, k \in 1 .. Len(s) : s[j] = s[k] => j = k

\* A number is put at the front of a list.
LEMMA ConsList ==
  ASSUME NEW S, NEW s \in Seq(S), NEW e \in S
  PROVE  /\ << e >> \o s \in Seq(S)
         /\ Elements(<< e >> \o s) = {e} \cup Elements(s)
         /\ NoRepeat(s) /\ e \notin Elements(s) => NoRepeat(<< e >> \o s)
  <1> DEFINE t == << e >> \o s
  <1>1. << e >> \in Seq(S) /\ Len(<< e >>) = 1 /\ << e >>[1] = e /\ Len(s) \in Nat
    OBVIOUS
  <1>2. t \in Seq(S) /\ Len(t) = 1 + Len(s)
        /\ \A k \in 1 .. 1 + Len(s) : t[k] = IF k <= 1 THEN << e >>[k] ELSE s[k - 1]
    BY <1>1, ConcatProperties
  <1> HIDE DEF t
  <1>3. t[1] = e /\ \A k \in 1 .. Len(s) : t[k + 1] = s[k]
    BY <1>1, <1>2
  <1>4. Elements(t) = {e} \cup Elements(s)
    <2>1. \A k \in 1 .. Len(t) : t[k] \in {e} \cup Elements(s)
      <3> TAKE k \in 1 .. Len(t)
      <3>1. CASE k = 1
        BY <3>1, <1>3
      <3>2. CASE k > 1
        <4>1. k - 1 \in 1 .. Len(s) /\ t[k] = s[k - 1]
          BY <3>2, <1>1, <1>2
        <4> QED
          BY <4>1 DEF Elements
      <3> QED
        BY <3>1, <3>2, <1>1, <1>2
    <2>2. e \in Elements(t)
      BY <1>1, <1>2, <1>3 DEF Elements
    <2>3. \A k \in 1 .. Len(s) : s[k] \in Elements(t)
      <3> TAKE k \in 1 .. Len(s)
      <3>1. k + 1 \in 1 .. Len(t) /\ t[k + 1] = s[k]
        BY <1>1, <1>2, <1>3
      <3> QED
        BY <3>1 DEF Elements
    <2> QED
      BY <2>1, <2>2, <2>3 DEF Elements
  <1>5. ASSUME NoRepeat(s), e \notin Elements(s) PROVE NoRepeat(t)
    <2> SUFFICES ASSUME NEW j \in 1 .. Len(t), NEW k \in 1 .. Len(t), t[j] = t[k]
                 PROVE  j = k
      BY DEF NoRepeat
    <2>1. \A m \in 2 .. Len(t) : m - 1 \in 1 .. Len(s) /\ t[m] = s[m - 1] /\ t[m] # e
      <3> TAKE m \in 2 .. Len(t)
      <3>1. m - 1 \in 1 .. Len(s) /\ t[m] = s[m - 1]
        BY <1>1, <1>2
      <3> QED
        BY <3>1, <1>5 DEF Elements
    <2>2. (j = 1 \/ j \in 2 .. Len(t)) /\ (k = 1 \/ k \in 2 .. Len(t))
      BY <1>1, <1>2
    <2>3. j \in 2 .. Len(t) /\ k \in 2 .. Len(t) => j - 1 = k - 1
      BY <2>1, <1>5 DEF NoRepeat
    <2> QED
      BY <2>1, <2>2, <2>3, <1>3
  <1> QED
    BY <1>2, <1>4, <1>5 DEF t

\* The first number of a list is taken off.
LEMMA TailList ==
  ASSUME NEW S, NEW s \in Seq(S), s # << >>
  PROVE  /\ Head(s) \in S /\ Tail(s) \in Seq(S)
         /\ Elements(s) = {Head(s)} \cup Elements(Tail(s))
         /\ NoRepeat(s) => NoRepeat(Tail(s)) /\ Head(s) \notin Elements(Tail(s))
  <1> DEFINE t == Tail(s)
  <1>1. /\ Head(s) \in S /\ t \in Seq(S) /\ Len(t) = Len(s) - 1 /\ Len(s) \in Nat \ {0}
        /\ Head(s) = s[1] /\ \A k \in 1 .. Len(t) : t[k] = s[k + 1]
    BY HeadTailProperties
  <1> HIDE DEF t
  <1>2. Elements(s) = {Head(s)} \cup Elements(t)
    <2>1. \A k \in 1 .. Len(s) : s[k] \in {Head(s)} \cup Elements(t)
      <3> TAKE k \in 1 .. Len(s)
      <3>1. CASE k > 1
        <4>1. k - 1 \in 1 .. Len(t) /\ t[k - 1] = s[k]
          BY <3>1, <1>1
        <4> QED
          BY <4>1 DEF Elements
      <3> QED
        BY <3>1, <1>1
    <2>2. Head(s) \in Elements(s)
      BY <1>1 DEF Elements
    <2>3. \A k \in 1 .. Len(t) : t[k] \in Elements(s)
      <3> TAKE k \in 1 .. Len(t)
      <3>1. k + 1 \in 1 .. Len(s) /\ t[k] = s[k + 1]
        BY <1>1
      <3> QED
        BY <3>1 DEF Elements
    <2> QED
      BY <2>1, <2>2, <2>3 DEF Elements
  <1>3. ASSUME NoRepeat(s) PROVE NoRepeat(t) /\ Head(s) \notin Elements(t)
    <2>1. \A k \in 1 .. Len(t) : k + 1 \in 1 .. Len(s) /\ t[k] = s[k + 1]
      BY <1>1
    <2>2. 1 \in 1 .. Len(s)
      BY <1>1
    <2>3. NoRepeat(t)
      <3> SUFFICES ASSUME NEW j \in 1 .. Len(t), NEW k \in 1 .. Len(t), t[j] = t[k]
                   PROVE  j = k
        BY DEF NoRepeat
      <3>1. j + 1 = k + 1
        BY <2>1, <1>3 DEF NoRepeat
      <3> QED
        BY <3>1
    <2>4. ASSUME NEW k \in 1 .. Len(t), t[k] = Head(s) PROVE FALSE
      <3>1. k + 1 = 1
        BY <2>1, <2>2, <2>4, <1>1, <1>3 DEF NoRepeat
      <3> QED
        BY <3>1
    <2> QED
      BY <2>3, <2>4 DEF Elements
  <1> QED
    BY <1>1, <1>2, <1>3 DEF t

\* A number is taken out of a list.
LEMMA RemoveList ==
  ASSUME NEW S, NEW s \in Seq(S), NEW k \in 1 .. Len(s), NoRepeat(s)
  PROVE  /\ RemoveAt(s, k) \in Seq(S)
         /\ Elements(RemoveAt(s, k)) = Elements(s) \ {s[k]}
         /\ NoRepeat(RemoveAt(s, k))
  <1> DEFINE a == SubSeq(s, 1, k - 1)
             b == SubSeq(s, k + 1, Len(s))
             t == RemoveAt(s, k)
             from(j) == IF j < k THEN j ELSE j + 1
  <1>1. Len(s) \in Nat /\ k \in Nat /\ 1 <= k /\ k <= Len(s)
    OBVIOUS
  <1>2. a \in Seq(S) /\ Len(a) = k - 1 /\ \A j \in 1 .. k - 1 : a[j] = s[j]
    <2>1. \A j \in 1 .. k - 1 : s[j] \in S
      BY <1>1
    <2>2. 1 \in Int /\ k - 1 \in Int
      BY <1>1
    <2>3. /\ a \in Seq(S) /\ Len(a) = (IF 1 <= k - 1 THEN (k - 1) - 1 + 1 ELSE 0)
          /\ \A j \in 1 .. (k - 1) - 1 + 1 : a[j] = s[1 + j - 1]
      BY <2>1, <2>2, SubSeqProperties
    <2> QED
      BY <2>3, <1>1
  <1>3. b \in Seq(S) /\ Len(b) = Len(s) - k /\ \A j \in 1 .. Len(s) - k : b[j] = s[k + j]
    <2>1. \A j \in k + 1 .. Len(s) : s[j] \in S
      BY <1>1
    <2>2. k + 1 \in Int /\ Len(s) \in Int
      BY <1>1
    <2>3. /\ b \in Seq(S) /\ Len(b) = (IF k + 1 <= Len(s) THEN Len(s) - (k + 1) + 1 ELSE 0)
          /\ \A j \in 1 .. Len(s) - (k + 1) + 1 : b[j] = s[(k + 1) + j - 1]
      BY <2>1, <2>2, SubSeqProperties
    <2> QED
      BY <2>3, <1>1
  <1>4. t = a \o b
    BY DEF RemoveAt
  <1> HIDE DEF a, b, t
  <1>5. t \in Seq(S) /\ Len(t) = Len(a) + Len(b)
        /\ \A j \in 1 .. Len(a) + Len(b) : t[j] = IF j <= Len(a) THEN a[j] ELSE b[j - Len(a)]
    BY <1>2, <1>3, <1>4, ConcatProperties
  <1>6. Len(t) = Len(s) - 1
    BY <1>1, <1>2, <1>3, <1>5
  <1>7. ASSUME NEW j \in 1 .. Len(t)
        PROVE  from(j) \in 1 .. Len(s) /\ from(j) # k /\ t[j] = s[from(j)]
    <2>1. CASE j < k
      BY <2>1, <1>1, <1>2, <1>3, <1>5, <1>6
    <2>2. CASE j >= k
      <3>1. j - (k - 1) \in 1 .. Len(s) - k /\ k + (j - (k - 1)) = j + 1
        BY <2>2, <1>1, <1>6
      <3>2. t[j] = b[j - (k - 1)]
        <4>1. ~(j <= Len(a)) /\ Len(a) = k - 1
          BY <2>2, <1>1, <1>2
        <4> QED
          BY <4>1, <1>5
      <3>3. t[j] = s[j + 1]
        BY <3>1, <3>2, <1>3
      <3> QED
        BY <2>2, <3>3, <1>1, <1>6
    <2> QED
      BY <2>1, <2>2, <1>1
  <1>8. \A m \in 1 .. Len(s) : m # k => \E j \in 1 .. Len(t) : from(j) = m
    <2> SUFFICES ASSUME NEW m \in 1 .. Len(s), m # k PROVE \E j \in 1 .. Len(t) : from(j) = m
      OBVIOUS
    <2>1. CASE m < k
      <3>1. m \in 1 .. Len(t) /\ from(m) = m
        BY <2>1, <1>1, <1>6
      <3> QED
        BY <3>1
    <2>2. CASE m > k
      <3>1. m - 1 \in 1 .. Len(t) /\ from(m - 1) = m
        BY <2>2, <1>1, <1>6
      <3> QED
        BY <3>1
    <2> QED
      BY <2>1, <2>2
  <1>9. \A i, j \in 1 .. Len(t) : from(i) = from(j) => i = j
    BY <1>1
  <1> HIDE DEF from
  <1>10. Elements(t) = Elements(s) \ {s[k]}
    <2>1. \A j \in 1 .. Len(t) : t[j] \in Elements(s) \ {s[k]}
      <3> TAKE j \in 1 .. Len(t)
      <3>1. from(j) \in 1 .. Len(s) /\ from(j) # k /\ t[j] = s[from(j)]
        BY <1>7
      <3>2. s[from(j)] # s[k]
        BY <3>1 DEF NoRepeat
      <3> QED
        BY <3>1, <3>2 DEF Elements
    <2>2. \A m \in 1 .. Len(s) : s[m] # s[k] => s[m] \in Elements(t)
      <3> SUFFICES ASSUME NEW m \in 1 .. Len(s), s[m] # s[k] PROVE s[m] \in Elements(t)
        OBVIOUS
      <3>1. PICK j \in 1 .. Len(t) : from(j) = m
        BY <1>8
      <3>2. t[j] = s[m]
        BY <3>1, <1>7
      <3> QED
        BY <3>2 DEF Elements
    <2> QED
      BY <2>1, <2>2 DEF Elements
  <1>11. NoRepeat(t)
    <2> SUFFICES ASSUME NEW i \in 1 .. Len(t), NEW j \in 1 .. Len(t), t[i] = t[j]
                 PROVE  i = j
      BY DEF NoRepeat
    <2>1. s[from(i)] = s[from(j)] /\ from(i) \in 1 .. Len(s) /\ from(j) \in 1 .. Len(s)
      BY <1>7
    <2>2. from(i) = from(j)
      BY <2>1 DEF NoRepeat
    <2> QED
      BY <2>2, <1>9
  <1> QED
    BY <1>5, <1>10, <1>11 DEF t

\* Two lists become one.
LEMMA ConcatList ==
  ASSUME NEW S, NEW s \in Seq(S), NEW r \in Seq(S), NoRepeat(s), NoRepeat(r),
         Elements(s) \cap Elements(r) = {}
  PROVE  /\ s \o r \in Seq(S)
         /\ Elements(s \o r) = Elements(s) \cup Elements(r)
         /\ NoRepeat(s \o r)
  <1> DEFINE t == s \o r
  <1>1. Len(s) \in Nat /\ Len(r) \in Nat
    OBVIOUS
  <1>2. t \in Seq(S) /\ Len(t) = Len(s) + Len(r)
        /\ \A k \in 1 .. Len(s) + Len(r) : t[k] = IF k <= Len(s) THEN s[k] ELSE r[k - Len(s)]
    BY ConcatProperties
  <1> HIDE DEF t
  <1>3. \A k \in 1 .. Len(s) : k \in 1 .. Len(t) /\ t[k] = s[k]
    BY <1>1, <1>2
  <1>4. \A k \in 1 .. Len(r) : k + Len(s) \in 1 .. Len(t) /\ t[k + Len(s)] = r[k]
    <2> TAKE k \in 1 .. Len(r)
    <2>1. k + Len(s) \in 1 .. Len(s) + Len(r) /\ ~(k + Len(s) <= Len(s))
          /\ (k + Len(s)) - Len(s) = k
      BY <1>1
    <2> QED
      BY <2>1, <1>2
  <1>5. \A k \in 1 .. Len(t) : \/ k \in 1 .. Len(s) /\ t[k] = s[k]
                               \/ k - Len(s) \in 1 .. Len(r) /\ t[k] = r[k - Len(s)]
    BY <1>1, <1>2
  <1>6. Elements(t) = Elements(s) \cup Elements(r)
    <2>1. \A k \in 1 .. Len(t) : t[k] \in Elements(s) \cup Elements(r)
      BY <1>5 DEF Elements
    <2>2. \A k \in 1 .. Len(s) : s[k] \in Elements(t)
      BY <1>3 DEF Elements
    <2>3. \A k \in 1 .. Len(r) : r[k] \in Elements(t)
      BY <1>4 DEF Elements
    <2> QED
      BY <2>1, <2>2, <2>3 DEF Elements
  <1>7. NoRepeat(t)
    <2> SUFFICES ASSUME NEW j \in 1 .. Len(t), NEW k \in 1 .. Len(t), t[j] = t[k]
                 PROVE  j = k
      BY DEF NoRepeat
    <2>1. \A m \in 1 .. Len(s), n_ \in 1 .. Len(r) : s[m] # r[n_]
      BY DEF Elements
    <2>2. CASE j \in 1 .. Len(s) /\ t[j] = s[j]
      BY <2>1, <2>2, <1>5 DEF NoRepeat
    <2>3. CASE j - Len(s) \in 1 .. Len(r) /\ t[j] = r[j - Len(s)]
      <3>1. k - Len(s) \in 1 .. Len(r) /\ t[k] = r[k - Len(s)]
        BY <2>1, <2>3, <1>5
      <3>2. j - Len(s) = k - Len(s)
        BY <2>3, <3>1 DEF NoRepeat
      <3> QED
        BY <3>2, <1>1
    <2> QED
      BY <2>2, <2>3, <1>5
  <1> QED
    BY <1>2, <1>6, <1>7 DEF t

\* The smallest of some natural numbers is one of them.
LEMMA MinIsElement ==
  ASSUME NEW I \in SUBSET Nat, I # {}
  PROVE  Min(I) \in I
  <1>1. PICK x \in I : \A y \in I : ~(<<y, x>> \in OpToRel(<, Nat))
    BY NatLessThanWellFounded, WFMin
  <1>2. \A y \in I : ~(y < x)
    BY <1>1, Zenon DEF OpToRel
  <1>3. \A y \in I : x <= y
    BY <1>2
  <1> QED
    BY <1>3 DEF Min

-------------------------------------------------------------------------------
(* Records and lists *)

Record == {Unused} \cup [kind : {"break"}, addr : Addr, ori : Bytes]
            \cup [kind : {"watch"}, old : Values]

LEMMA Records ==
  /\ Unused \in Record /\ Unused.kind = "unused"
  /\ \A a \in Addr, b \in Bytes :
       /\ Break(a, b) \in Record /\ Break(a, b) # Unused /\ Break(a, b).kind = "break"
       /\ Break(a, b).addr = a /\ Break(a, b).ori = b
  /\ \A v \in Values :
       Watch(v) \in Record /\ Watch(v) # Unused /\ Watch(v).kind = "watch"
  /\ \A r \in Record :
       /\ r.kind \in {"unused", "break", "watch"}
       /\ r.kind = "unused" <=> r = Unused
       /\ r.kind = "break" => r.addr \in Addr /\ r.ori \in Bytes
  BY DEF Record, Unused, Break, Watch

\* The records in use are those of the one list, those that are not are those
\* of the other.
ListInv ==
  /\ NoRepeat(head) /\ NoRepeat(free_)
  /\ Elements(head) \cap Elements(free_) = {}
  /\ Elements(head) \cup Elements(free_) = Numbers
  /\ \A i \in Numbers : i \in Elements(head) <=> bp[i] # Unused

PoolInv == TypeOK /\ ListInv

LEMMA PoolTypes ==
  ASSUME TypeOK
  PROVE  /\ bp \in [Numbers -> Record] /\ head \in Seq(Numbers) /\ free_ \in Seq(Numbers)
         /\ Used = Elements(head) /\ Breaks = {i \in Used : bp[i].kind = "break"}
  BY DEF TypeOK, Record, Used, Elements, Breaks

\* A list walk that finds something finds what it looks for.
LEMMA FirstIsFound ==
  ASSUME TypeOK, NEW S \in SUBSET Used, S # {}
  PROVE  FirstOf(S) \in S
  <1> DEFINE I == {k \in 1 .. Len(head) : head[k] \in S}
  <1>1. I \in SUBSET Nat /\ I # {}
    BY DEF Used
  <1>2. Min(I) \in I
    BY <1>1, MinIsElement
  <1>3. FirstOf(S) = head[Min(I)]
    BY <1>1 DEF FirstOf, SelectInSeq
  <1> QED
    BY <1>2, <1>3

\* What a scan of the watchpoints leaves of the pool
LEMMA ScanKeeps ==
  ASSUME PoolInv, NEW v \in Values, NEW state, Scan(state, v)
  PROVE  /\ UNCHANGED <<head, free_>> /\ bp' \in [Numbers -> Record]
         /\ \A i \in Numbers : /\ bp'[i] # Unused <=> bp[i] # Unused
                               /\ bp'[i].kind = bp[i].kind
                               /\ bp[i].kind = "break" => bp'[i] = bp[i]
         /\ Breaks' = Breaks /\ Points' = Points
         /\ phase' \in {"intr", "prompt"} /\ rerun' = FALSE /\ value' = v
         /\ Changed(v) = {} => nemu_state' = state /\ phase' = "intr"
         /\ Changed(v) # {} => nemu_state' = "ready" /\ phase' = "prompt"
         /\ n' = IF n = Forever THEN n ELSE n - 1
  <1>1. /\ bp \in [Numbers -> Record] /\ head \in Seq(Numbers) /\ Used = Elements(head)
        /\ UNCHANGED <<head, free_>>
    BY PoolTypes DEF PoolInv, Scan
  <1>2. /\ bp' \in [Numbers -> Record]
        /\ \A i \in Numbers : /\ bp'[i].kind = bp[i].kind
                              /\ bp[i].kind = "break" => bp'[i] = bp[i]
    <2>1. CASE Changed(v) = {}
      BY <2>1, <1>1 DEF Scan
    <2>2. CASE Changed(v) # {}
      <3> DEFINE f == FirstOf(Changed(v))
      <3>1. f \in Changed(v)
        BY <2>2, FirstIsFound DEF Changed, PoolInv
      <3>2. bp' = [bp EXCEPT ![f] = Watch(v)]
        BY <2>2 DEF Scan
      <3>3. f \in Numbers /\ bp[f].kind = "watch"
        BY <3>1, <1>1 DEF Changed, Elements
      <3> HIDE DEF f
      <3>4. Watch(v) \in Record /\ Watch(v).kind = "watch"
        BY Records
      <3> QED
        BY <3>2, <3>3, <3>4, <1>1
    <2> QED
      BY <2>1, <2>2
  <1>3. \A i \in Numbers : bp'[i] # Unused <=> bp[i] # Unused
    <2> TAKE i \in Numbers
    <2>1. bp[i] \in Record /\ bp'[i] \in Record /\ bp'[i].kind = bp[i].kind
      BY <1>1, <1>2
    <2> QED
      BY <2>1, Records
  <1>4. Used' = Used /\ Used \subseteq Numbers
    BY <1>1 DEF Used
  <1>5. Breaks' = Breaks
    BY <1>2, <1>4 DEF Breaks
  <1>6. \A i \in Breaks : bp'[i] = bp[i]
    BY <1>2, <1>4 DEF Breaks
  <1>7. Points' = Points
    BY <1>5, <1>6 DEF Points
  <1> QED
    BY <1>1, <1>2, <1>3, <1>5, <1>7 DEF Scan

\* A record is taken from the one list to the other, or back.
LEMMA NewList ==
  ASSUME PoolInv, NEW r \in Record, r # Unused, NewBP(r)
  PROVE  /\ ListInv' /\ bp' \in [Numbers -> Record]
         /\ head' \in Seq(Numbers) /\ free_' \in Seq(Numbers)
         /\ Head(free_) \in Numbers \ Used /\ Used' = Used \cup {Head(free_)}
         /\ bp' = [bp EXCEPT ![Head(free_)] = r]
  <1> DEFINE f == Head(free_)
  <1>1. /\ bp \in [Numbers -> Record] /\ head \in Seq(Numbers) /\ free_ \in Seq(Numbers)
        /\ Used = Elements(head) /\ Used' = Elements(head')
    BY PoolTypes DEF PoolInv, Used, Elements
  <1>2. /\ free_ # << >> /\ bp' = [bp EXCEPT ![f] = r] /\ free_' = Tail(free_)
        /\ head' = << f >> \o head
    BY DEF NewBP
  <1>3. /\ f \in Numbers /\ Tail(free_) \in Seq(Numbers)
        /\ Elements(free_) = {f} \cup Elements(Tail(free_))
        /\ NoRepeat(Tail(free_)) /\ f \notin Elements(Tail(free_))
    BY <1>1, <1>2, TailList DEF PoolInv, ListInv
  <1>4. f \notin Elements(head)
    BY <1>3 DEF PoolInv, ListInv
  <1>5. /\ << f >> \o head \in Seq(Numbers)
        /\ Elements(<< f >> \o head) = {f} \cup Elements(head)
        /\ NoRepeat(<< f >> \o head)
    BY <1>1, <1>3, <1>4, ConsList DEF PoolInv, ListInv
  <1> HIDE DEF f
  <1>6. bp' \in [Numbers -> Record] /\ \A i \in Numbers : bp'[i] = IF i = f THEN r ELSE bp[i]
    BY <1>1, <1>2, <1>3
  <1>7. /\ NoRepeat(head') /\ NoRepeat(free_') /\ Elements(head') = {f} \cup Elements(head)
        /\ Elements(free_) = {f} \cup Elements(free_') /\ f \notin Elements(free_')
    BY <1>2, <1>3, <1>5
  <1>8. /\ Elements(head) \cap Elements(free_) = {} /\ Elements(head) \cup Elements(free_) = Numbers
        /\ \A i \in Numbers : i \in Elements(head) <=> bp[i] # Unused
    BY DEF PoolInv, ListInv
  <1>9. ListInv'
    <2>1. Elements(head') \cap Elements(free_') = {}
      BY <1>7, <1>8
    <2>2. Elements(head') \cup Elements(free_') = Numbers
      BY <1>7, <1>8
    <2>3. \A i \in Numbers : i \in Elements(head') <=> bp'[i] # Unused
      BY <1>6, <1>7, <1>8
    <2> QED
      BY <1>7, <2>1, <2>2, <2>3 DEF ListInv, NoRepeat, Elements
  <1> QED
    BY <1>1, <1>2, <1>3, <1>4, <1>5, <1>6, <1>9 DEF f

LEMMA DeleteList ==
  ASSUME PoolInv, NEW i \in Numbers, Delete(i)
  PROVE  /\ ListInv' /\ bp' \in [Numbers -> Record]
         /\ head' \in Seq(Numbers) /\ free_' \in Seq(Numbers)
         /\ i \in Used /\ Used' = Used \ {i} /\ bp' = [bp EXCEPT ![i] = Unused]
  <1>1. /\ bp \in [Numbers -> Record] /\ head \in Seq(Numbers) /\ free_ \in Seq(Numbers)
        /\ Used = Elements(head) /\ Used' = Elements(head')
    BY PoolTypes DEF PoolInv, Used, Elements
  <1>2. /\ i \in Used /\ free_' = << i >> \o free_ /\ bp' = [bp EXCEPT ![i] = Unused]
    BY DEF Delete
  <1>3. PICK k \in 1 .. Len(head) : head[k] = i /\ head' = RemoveAt(head, k)
    BY DEF Delete, Unlink
  <1>4. /\ head' \in Seq(Numbers) /\ Elements(head') = Elements(head) \ {i}
        /\ NoRepeat(head')
    BY <1>1, <1>3, RemoveList DEF PoolInv, ListInv
  <1>5. /\ Elements(head) \cap Elements(free_) = {} /\ Elements(head) \cup Elements(free_) = Numbers
        /\ \A j \in Numbers : j \in Elements(head) <=> bp[j] # Unused
        /\ NoRepeat(free_)
    BY DEF PoolInv, ListInv
  <1>6. i \notin Elements(free_)
    BY <1>1, <1>2, <1>5
  <1>7. /\ free_' \in Seq(Numbers) /\ Elements(free_') = {i} \cup Elements(free_)
        /\ NoRepeat(free_')
    BY <1>1, <1>2, <1>5, <1>6, ConsList
  <1>8. /\ bp' \in [Numbers -> Record]
        /\ \A j \in Numbers : bp'[j] = IF j = i THEN Unused ELSE bp[j]
    BY <1>1, <1>2, Records
  <1>9. ListInv'
    <2>1. Elements(head') \cap Elements(free_') = {}
      BY <1>4, <1>5, <1>7
    <2>2. Elements(head') \cup Elements(free_') = Numbers
      BY <1>1, <1>2, <1>4, <1>5, <1>7
    <2>3. \A j \in Numbers : j \in Elements(head') <=> bp'[j] # Unused
      BY <1>4, <1>5, <1>8
    <2> QED
      BY <1>4, <1>7, <2>1, <2>2, <2>3 DEF ListInv, NoRepeat, Elements
  <1> QED
    BY <1>1, <1>2, <1>4, <1>7, <1>8, <1>9

LEMMA DeleteAllList ==
  ASSUME PoolInv, DeleteAll
  PROVE  /\ ListInv' /\ bp' \in [Numbers -> Record]
         /\ head' \in Seq(Numbers) /\ free_' \in Seq(Numbers) /\ Used' = {}
  <1>1. head \in Seq(Numbers) /\ free_ \in Seq(Numbers) /\ Used' = Elements(head')
    BY PoolTypes DEF PoolInv, Used, Elements
  <1>2. head' = << >> /\ free_' = head \o free_ /\ bp' = [i \in Numbers |-> Unused]
    BY DEF DeleteAll
  <1>3. /\ free_' \in Seq(Numbers) /\ Elements(free_') = Elements(head) \cup Elements(free_)
        /\ NoRepeat(free_')
    BY <1>1, <1>2, ConcatList DEF PoolInv, ListInv
  <1>4. head' \in Seq(Numbers) /\ Elements(head') = {} /\ NoRepeat(head')
    BY <1>2 DEF Elements, NoRepeat
  <1>5. bp' \in [Numbers -> Record] /\ \A i \in Numbers : bp'[i] = Unused
    BY <1>2, Records
  <1>6. ListInv'
    BY <1>3, <1>4, <1>5 DEF PoolInv, ListInv, NoRepeat, Elements
  <1> QED
    BY <1>1, <1>3, <1>4, <1>5, <1>6

-------------------------------------------------------------------------------
(* Types, and the pool *)

LEMMA InitPool == Init => PoolInv
  <1> SUFFICES ASSUME Init PROVE PoolInv
    OBVIOUS
  <1>1. NR_BP \in Nat \ {0} /\ Numbers = 0 .. NR_BP - 1
    BY PoolAssumption DEF Numbers
  <1>2. free_ \in Seq(Numbers) /\ Len(free_) = NR_BP /\ \A k \in 1 .. NR_BP : free_[k] = k - 1
    <2>1. \A k \in 1 .. NR_BP : k - 1 \in Numbers
      BY <1>1
    <2>2. free_ = [k \in 1 .. NR_BP |-> k - 1]
      BY DEF Init
    <2>3. free_ \in [1 .. NR_BP -> Numbers]
      BY <2>1, <2>2
    <2> QED
      BY <1>1, <2>2, <2>3
  <1>3. NoRepeat(free_) /\ Elements(free_) = Numbers
    <2>1. \A i \in Numbers : i + 1 \in 1 .. NR_BP /\ free_[i + 1] = i
      BY <1>1, <1>2
    <2>2. NoRepeat(free_)
      BY <1>1, <1>2 DEF NoRepeat
    <2>3. \A k \in 1 .. Len(free_) : free_[k] \in Numbers
      BY <1>1, <1>2
    <2> QED
      BY <2>1, <2>2, <2>3, <1>2 DEF Elements
  <1>4. head \in Seq(Numbers) /\ Elements(head) = {} /\ NoRepeat(head)
    BY DEF Init, Elements, NoRepeat
  <1>5. ListInv
    BY <1>3, <1>4 DEF ListInv, Init
  <1>6. text \in [Addr -> Bytes] /\ mem \in [Addr -> Bytes]
    BY ProgramAssumption DEF Init, Bytes
  <1>7. TypeOK
    <2>1. bp \in [Numbers -> Record]
      BY Records DEF Init
    <2>2. /\ eip \in Addr /\ value \in Values /\ nemu_state = "ready" /\ n = 0 /\ rerun = FALSE
          /\ phase = "prompt"
      BY DEF Init
    <2>3. n \in {Forever} \cup 0 .. MaxN
      BY <2>2, PoolAssumption
    <2> QED
      BY <1>2, <1>4, <1>6, <2>1, <2>2, <2>3 DEF TypeOK, Record
  <1> QED
    BY <1>5, <1>7 DEF PoolInv

LEMMA ResumedType ==
  ASSUME NEW m \in [Addr -> Bytes]
  PROVE  Resumed(m) \in [Addr -> Bytes]
  BY DEF Resumed, Arm, Bytes

LEMMA FoundAt ==
  ASSUME PoolInv, At(eip) # {}
  PROVE  /\ FirstOf(At(eip)) \in Breaks /\ bp[FirstOf(At(eip))].addr = eip
         /\ bp[FirstOf(At(eip))].ori \in Bytes
  <1>1. At(eip) \in SUBSET Used
    BY DEF At, Breaks
  <1>2. FirstOf(At(eip)) \in At(eip)
    BY <1>1, FirstIsFound DEF PoolInv
  <1>3. \A i \in Breaks : i \in Numbers /\ bp[i] \in Record /\ bp[i].kind = "break"
    BY PoolTypes DEF PoolInv, Elements, Breaks
  <1> QED
    BY <1>2, <1>3, Records DEF At

\* An instruction, of whatever kind: the loop's part of it is a scan.
LEMMA InstructionTypes ==
  ASSUME PoolInv, Instruction \/ NemuTrap \/ OwnBreak \/ BreakHit
  PROVE  /\ mem' \in [Addr -> Bytes] /\ text' \in [Addr -> Bytes] /\ eip' \in Addr
         /\ phase = "inst"
         /\ \E v \in Values, state \in {"stop", "run", "break"} : Scan(state, v)
  <1>0. mem \in [Addr -> Bytes] /\ text \in [Addr -> Bytes] /\ eip \in Addr /\ value \in Values
        /\ Resumed(mem) \in [Addr -> Bytes]
    BY ResumedType DEF PoolInv, TypeOK
  <1>1. CASE Instruction
    <2>1. /\ phase = "inst" /\ eip' \in Addr /\ \E v \in Values : Scan("run", v)
          /\ \/ text' = text /\ mem' = Resumed(mem)
             \/ \E a \in Late : /\ text' = [text EXCEPT ![a] = Program[a]]
                                /\ mem' = Resumed([mem EXCEPT ![a] = Program[a]])
      BY <1>1 DEF Instruction
    <2>2. ASSUME NEW a \in Late, NEW m \in [Addr -> Bytes]
          PROVE  [m EXCEPT ![a] = Program[a]] \in [Addr -> Bytes]
      BY ProgramAssumption DEF Bytes
    <2>3. CASE text' = text /\ mem' = Resumed(mem)
      BY <1>0, <2>1, <2>3
    <2>4. CASE \E a \in Late : /\ text' = [text EXCEPT ![a] = Program[a]]
                             /\ mem' = Resumed([mem EXCEPT ![a] = Program[a]])
      <3>1. PICK a \in Late : /\ text' = [text EXCEPT ![a] = Program[a]]
                             /\ mem' = Resumed([mem EXCEPT ![a] = Program[a]])
        BY <2>4
      <3>2. text' \in [Addr -> Bytes] /\ mem' \in [Addr -> Bytes]
        BY <1>0, <2>2, <3>1, ResumedType
      <3> QED
        BY <2>1, <3>2
    <2> QED
      BY <2>1, <2>3, <2>4
  <1>2. CASE NemuTrap
    BY <1>0, <1>2 DEF NemuTrap
  <1>3. CASE OwnBreak
    BY <1>0, <1>3 DEF OwnBreak
  <1>4. CASE BreakHit
    <2>1. bp[FirstOf(At(eip))].ori \in Bytes
      BY <1>4, FoundAt DEF BreakHit
    <2> QED
      BY <1>0, <1>4, <2>1 DEF BreakHit
  <1> QED
    BY <1>1, <1>2, <1>3, <1>4

LEMMA PoolStep == ASSUME PoolInv, [Next]_vars PROVE PoolInv'
  <1>0. /\ bp \in [Numbers -> Record] /\ head \in Seq(Numbers) /\ free_ \in Seq(Numbers)
        /\ mem \in [Addr -> Bytes] /\ text \in [Addr -> Bytes]
        /\ eip \in Addr /\ value \in Values
        /\ nemu_state \in {"stop", "run", "ready", "break"}
        /\ n \in {Forever} \cup 0 .. MaxN /\ rerun \in BOOLEAN
        /\ phase \in {"prompt", "inst", "intr", "aborted"} /\ ListInv
    BY PoolTypes DEF PoolInv, TypeOK
  <1>1. ASSUME NEW a \in Addr, SetBreakpoint(a) PROVE PoolInv'
    <2>1. /\ NewBP(Break(a, mem[a])) /\ mem' = [mem EXCEPT ![a] = Int3]
          /\ UNCHANGED <<text, eip, value, nemu_state, n, rerun, phase>>
      BY <1>1 DEF SetBreakpoint, loop
    <2>2. Break(a, mem[a]) \in Record /\ Break(a, mem[a]) # Unused
      BY <1>0, Records
    <2>3. /\ ListInv' /\ bp' \in [Numbers -> Record]
          /\ head' \in Seq(Numbers) /\ free_' \in Seq(Numbers)
      BY <2>1, <2>2, NewList
    <2>4. mem' \in [Addr -> Bytes]
      BY <1>0, <2>1 DEF Bytes
    <2> QED
      BY <1>0, <2>1, <2>3, <2>4 DEF PoolInv, TypeOK, Record
  <1>2. CASE SetWatchpoint
    <2>1. /\ NewBP(Watch(value))
          /\ UNCHANGED <<mem, text, eip, value, nemu_state, n, rerun, phase>>
      BY <1>2 DEF SetWatchpoint, loop, guest
    <2>2. Watch(value) \in Record /\ Watch(value) # Unused
      BY <1>0, Records
    <2>3. /\ ListInv' /\ bp' \in [Numbers -> Record]
          /\ head' \in Seq(Numbers) /\ free_' \in Seq(Numbers)
      BY <2>1, <2>2, NewList
    <2> QED
      BY <1>0, <2>1, <2>3 DEF PoolInv, TypeOK, Record
  <1>3. ASSUME NEW i \in Numbers, Delete(i) PROVE PoolInv'
    <2>1. /\ ListInv' /\ bp' \in [Numbers -> Record]
          /\ head' \in Seq(Numbers) /\ free_' \in Seq(Numbers) /\ i \in Used
      BY <1>3, DeleteList
    <2>2. mem' = Restored(i) /\ UNCHANGED <<text, eip, value, nemu_state, n, rerun, phase>>
      BY <1>3 DEF Delete, loop
    <2>3. bp[i].kind = "break" => bp[i].ori \in Bytes
      BY <1>0, Records
    <2>4. mem' \in [Addr -> Bytes]
      BY <1>0, <2>2, <2>3 DEF Restored
    <2> QED
      BY <1>0, <2>1, <2>2, <2>4 DEF PoolInv, TypeOK, Record
  <1>4. CASE DeleteAll
    <2>1. /\ ListInv' /\ bp' \in [Numbers -> Record]
          /\ head' \in Seq(Numbers) /\ free_' \in Seq(Numbers)
      BY <1>4, DeleteAllList
    <2>2. /\ mem' = [a \in Addr |-> IF At(a) # {} THEN bp[FirstOf(At(a))].ori ELSE mem[a]]
          /\ UNCHANGED <<text, eip, value, nemu_state, n, rerun, phase>>
      BY <1>4 DEF DeleteAll, loop
    <2>3. ASSUME NEW a \in Addr, At(a) # {} PROVE bp[FirstOf(At(a))].ori \in Bytes
      <3>1. At(a) \in SUBSET Used
        BY DEF At, Breaks
      <3>2. FirstOf(At(a)) \in At(a)
        BY <2>3, <3>1, FirstIsFound DEF PoolInv
      <3>3. FirstOf(At(a)) \in Numbers /\ bp[FirstOf(At(a))].kind = "break"
        BY <3>2, PoolTypes DEF PoolInv, At, Breaks, Elements
      <3> QED
        BY <1>0, <3>3, Records
    <2>4. mem' \in [Addr -> Bytes]
      BY <1>0, <2>2, <2>3
    <2> QED
      BY <1>0, <2>1, <2>2, <2>4 DEF PoolInv, TypeOK, Record
  <1>5. ASSUME NEW count \in {Forever} \cup 1 .. MaxN, Exec(count) PROVE PoolInv'
    <2>1. /\ n' = count /\ rerun' \in BOOLEAN /\ nemu_state' = "run" /\ phase' = "inst"
          /\ UNCHANGED <<bp, head, free_, mem, text, eip, value>>
      BY <1>5 DEF Exec, pool, guest
    <2>2. n' \in {Forever} \cup 0 .. MaxN
      BY <2>1, PoolAssumption
    <2> QED
      BY <1>0, <2>1, <2>2 DEF PoolInv, TypeOK, Record, ListInv
  <1>6. CASE Instruction \/ NemuTrap \/ OwnBreak \/ BreakHit
    <2>1. /\ mem' \in [Addr -> Bytes] /\ text' \in [Addr -> Bytes] /\ eip' \in Addr
          /\ \E v \in Values, state \in {"stop", "run", "break"} : Scan(state, v)
      BY <1>6, InstructionTypes
    <2>2. PICK v \in Values, state \in {"stop", "run", "break"} : Scan(state, v)
      BY <2>1
    <2>3. /\ UNCHANGED <<head, free_>> /\ bp' \in [Numbers -> Record]
          /\ \A i \in Numbers : bp'[i] # Unused <=> bp[i] # Unused
          /\ phase' \in {"intr", "prompt"} /\ rerun' = FALSE /\ value' = v
          /\ nemu_state' \in {"stop", "run", "ready", "break"}
          /\ n' = IF n = Forever THEN n ELSE n - 1
      BY <2>2, ScanKeeps
    <2>4. n' \in {Forever} \cup 0 .. MaxN
      BY <1>0, <2>3, PoolAssumption DEF Forever
    <2>5. ListInv'
      BY <1>0, <2>3 DEF ListInv
    <2> QED
      BY <1>0, <2>1, <2>3, <2>4, <2>5 DEF PoolInv, TypeOK, Record
  <1>7. CASE DoIntr
    <2>1. /\ UNCHANGED <<bp, head, free_, mem, text, n, rerun>>
          /\ eip' \in Addr /\ value' \in Values
          /\ nemu_state' \in {"stop", "run", "ready", "break"}
          /\ phase' \in {"prompt", "inst"}
      BY <1>0, <1>7, ProgramAssumption DEF DoIntr, pool
    <2> QED
      BY <1>0, <2>1 DEF PoolInv, TypeOK, Record, ListInv
  <1>8. CASE PoolExhausted \/ UNCHANGED vars
    <2>1. UNCHANGED <<bp, head, free_, mem, text, eip, value, nemu_state, n, rerun>>
          /\ phase' \in {phase, "aborted"}
      BY <1>8 DEF PoolExhausted, vars, pool, guest
    <2> QED
      BY <1>0, <2>1 DEF PoolInv, TypeOK, Record, ListInv
  <1> QED
    BY <1>1, <1>2, <1>3, <1>4, <1>5, <1>6, <1>7, <1>8 DEF Next, Command, Iteration

\* The invariant of the pool holds in every state.
THEOREM Invariance == Spec => []PoolInv
  BY InitPool, PoolStep, PTL DEF Spec

\* Variables keep their types.
THEOREM TypeCorrect == Spec => []TypeOK
  <1>1. PoolInv => TypeOK
    BY DEF PoolInv
  <1> QED
    BY <1>1, Invariance, PTL

\* Every record is on one of the two lists, once, and in_use tells which
\* (breakpoint.c:20, 41).
THEOREM Partition == Spec => []PoolPartition
  <1>1. PoolInv => PoolPartition
    <2> SUFFICES ASSUME PoolInv PROVE PoolPartition
      OBVIOUS
    <2>1. head \in Seq(Numbers) /\ free_ \in Seq(Numbers) /\ Used = Elements(head)
      BY PoolTypes DEF PoolInv
    <2>2. head \o free_ \in Seq(Numbers) /\ NoRepeat(head \o free_)
      BY <2>1, ConcatList DEF PoolInv, ListInv
    <2>3. IsInjective(head \o free_)
      BY <2>2 DEF IsInjective, NoRepeat
    <2> QED
      BY <2>1, <2>3 DEF PoolPartition, PoolInv, ListInv, Elements
  <1> QED
    BY <1>1, Invariance, PTL

-------------------------------------------------------------------------------
(* The program's text, when the user is careful *)

\* m is t but for the INT3 bytes of breakpoints.
Differs(m, t) == \A a \in Addr : m[a] # t[a] => m[a] = Int3 /\ a \in Points

TextInv ==
  /\ \A i, j \in Breaks : bp[i].addr = bp[j].addr => i = j
  /\ \A i \in Breaks : bp[i].ori = text[bp[i].addr] /\ bp[i].ori \notin {Int3, "zero"}
  /\ Differs(mem, text)

LEMMA BreakRecords ==
  ASSUME PoolInv
  PROVE  /\ \A i \in Breaks : /\ i \in Numbers /\ i \in Used /\ bp[i].kind = "break"
                             /\ bp[i].addr \in Addr /\ bp[i].ori \in Bytes
         /\ Points = {bp[i].addr : i \in Breaks} /\ Points \subseteq Addr
         /\ \A a : a \in Points <=> At(a) # {}
  <1>1. \A i \in Breaks : i \in Numbers /\ i \in Used /\ bp[i].kind = "break" /\ bp[i] \in Record
    BY PoolTypes DEF PoolInv, Elements, Breaks
  <1>2. \A i \in Breaks : bp[i].addr \in Addr /\ bp[i].ori \in Bytes
    BY <1>1, Records
  <1> QED
    BY <1>1, <1>2 DEF Points, At

\* The points after a breakpoint is set
LEMMA SetPoints ==
  ASSUME PoolInv, NEW a \in Addr, NEW b \in Bytes, NewBP(Break(a, b))
  PROVE  /\ Head(free_) \notin Breaks /\ Breaks' = Breaks \cup {Head(free_)}
         /\ \A i \in Breaks : bp'[i] = bp[i]
         /\ bp'[Head(free_)].addr = a /\ bp'[Head(free_)].ori = b
         /\ bp'[Head(free_)].kind = "break"
         /\ Points' = Points \cup {a}
  <1> DEFINE f == Head(free_)
  <1>1. /\ Break(a, b) \in Record /\ Break(a, b) # Unused /\ Break(a, b).kind = "break"
        /\ Break(a, b).addr = a /\ Break(a, b).ori = b
    BY Records
  <1>2. f \in Numbers \ Used /\ Used' = Used \cup {f} /\ bp' = [bp EXCEPT ![f] = Break(a, b)]
    BY <1>1, NewList
  <1>3. bp \in [Numbers -> Record] /\ \A i \in Used : i \in Numbers
    BY PoolTypes DEF PoolInv, Elements
  <1> HIDE DEF f
  <1>4. bp'[f] = Break(a, b) /\ \A i \in Used : bp'[i] = bp[i]
    BY <1>2, <1>3
  <1>5. f \notin Breaks /\ Breaks' = Breaks \cup {f} /\ \A i \in Breaks : bp'[i] = bp[i]
    BY <1>1, <1>2, <1>4 DEF Breaks
  <1>6. Points' = Points \cup {a}
    BY <1>1, <1>4, <1>5 DEF Points
  <1> QED
    BY <1>1, <1>4, <1>5, <1>6 DEF f

LEMMA DeletePoints ==
  ASSUME PoolInv, NEW i \in Numbers, Delete(i)
  PROVE  /\ Breaks' = Breaks \ {i} /\ \A j \in Breaks \ {i} : bp'[j] = bp[j]
         /\ i \in Used /\ (i \in Breaks <=> bp[i].kind = "break")
  <1>1. i \in Used /\ Used' = Used \ {i} /\ bp' = [bp EXCEPT ![i] = Unused]
    BY DeleteList
  <1>2. bp \in [Numbers -> Record] /\ \A j \in Used : j \in Numbers
    BY PoolTypes DEF PoolInv, Elements
  <1>3. \A j \in Used \ {i} : bp'[j] = bp[j]
    BY <1>1, <1>2
  <1> QED
    BY <1>1, <1>3 DEF Breaks

LEMMA ResumedDiffers ==
  ASSUME NEW m \in [Addr -> Bytes], NEW t, Differs(m, t)
  PROVE  Differs(Resumed(m), t)
  BY DEF Differs, Resumed, Arm

LEMMA InitText == Init => TextInv
  BY DEF Init, TextInv, Breaks, Used, Differs

LEMMA SetText == ASSUME Careful, PoolInv, TextInv, NEW a \in Addr, SetBreakpoint(a) PROVE TextInv'
  <1> DEFINE f == Head(free_)
  <1>0. mem \in [Addr -> Bytes]
    BY DEF PoolInv, TypeOK
  <1>1. /\ a \notin Points /\ mem[a] \notin {Int3, "zero"} /\ NewBP(Break(a, mem[a]))
        /\ mem' = [mem EXCEPT ![a] = Int3] /\ text' = text
    BY DEF SetBreakpoint
  <1>2. mem[a] = text[a]
    BY <1>1 DEF TextInv, Differs
  <1>3. /\ f \notin Breaks /\ Breaks' = Breaks \cup {f} /\ \A i \in Breaks : bp'[i] = bp[i]
        /\ bp'[f].addr = a /\ bp'[f].ori = mem[a] /\ Points' = Points \cup {a}
    BY <1>0, <1>1, SetPoints
  <1> HIDE DEF f
  <1>4. \A i \in Breaks : bp[i].addr \in Points
    BY DEF Points
  <1>5. \A i, j \in Breaks' : bp'[i].addr = bp'[j].addr => i = j
    BY <1>1, <1>3, <1>4 DEF TextInv
  <1>6. \A i \in Breaks' : bp'[i].ori = text'[bp'[i].addr] /\ bp'[i].ori \notin {Int3, "zero"}
    BY <1>1, <1>2, <1>3 DEF TextInv
  <1>7. Differs(mem, text)'
    BY <1>0, <1>1, <1>3 DEF TextInv, Differs
  <1> QED
    BY <1>5, <1>6, <1>7 DEF TextInv

LEMMA DeleteText == ASSUME PoolInv, TextInv, NEW i \in Numbers, Delete(i) PROVE TextInv'
  <1>0. mem \in [Addr -> Bytes]
    BY DEF PoolInv, TypeOK
  <1>1. /\ Breaks' = Breaks \ {i} /\ \A j \in Breaks \ {i} : bp'[j] = bp[j]
        /\ i \in Used /\ (i \in Breaks <=> bp[i].kind = "break")
    BY DeletePoints
  <1>2. mem' = Restored(i) /\ text' = text
    BY DEF Delete
  <1>3. \A j, k \in Breaks' : bp'[j].addr = bp'[k].addr => j = k
    BY <1>1 DEF TextInv
  <1>4. \A j \in Breaks' : bp'[j].ori = text'[bp'[j].addr] /\ bp'[j].ori \notin {Int3, "zero"}
    BY <1>1, <1>2 DEF TextInv
  <1>5. Points' = {bp[j].addr : j \in Breaks \ {i}}
    BY <1>1 DEF Points
  <1>6. CASE i \in Breaks
    <2>1. mem' = [mem EXCEPT ![bp[i].addr] = bp[i].ori] /\ bp[i].ori = text[bp[i].addr]
          /\ bp[i].addr \in Addr
      BY <1>1, <1>2, <1>6, BreakRecords DEF Restored, TextInv
    <2>2. \A a \in Points : a # bp[i].addr => a \in Points'
      BY <1>5 DEF Points
    <2>3. Differs(mem, text)'
      BY <1>0, <1>2, <2>1, <2>2 DEF Differs, TextInv
    <2> QED
      BY <1>3, <1>4, <2>3 DEF TextInv
  <1>7. CASE i \notin Breaks
    <2>1. mem' = mem /\ Points' = Points
      BY <1>1, <1>2, <1>5, <1>7 DEF Restored, Points
    <2>2. Differs(mem, text)'
      BY <1>2, <2>1 DEF Differs, TextInv
    <2> QED
      BY <1>3, <1>4, <2>2 DEF TextInv
  <1> QED
    BY <1>6, <1>7

LEMMA DeleteAllText == ASSUME PoolInv, TextInv, DeleteAll PROVE TextInv'
  <1>1. Breaks' = {}
    BY DeleteAllList DEF Breaks
  <1>2. /\ mem' = [a \in Addr |-> IF At(a) # {} THEN bp[FirstOf(At(a))].ori ELSE mem[a]]
        /\ text' = text
    BY DEF DeleteAll
  <1>3. ASSUME NEW a \in Addr PROVE mem'[a] = text[a]
    <2>1. CASE At(a) # {}
      <3>1. At(a) \in SUBSET Used
        BY DEF At, Breaks
      <3>2. FirstOf(At(a)) \in At(a)
        BY <2>1, <3>1, FirstIsFound DEF PoolInv
      <3>3. bp[FirstOf(At(a))].ori = text[a]
        BY <3>2 DEF At, TextInv
      <3> QED
        BY <1>2, <2>1, <3>3
    <2>2. CASE At(a) = {}
      <3>1. mem'[a] = mem[a] /\ a \notin Points
        BY <1>2, <2>2, BreakRecords
      <3> QED
        BY <3>1 DEF TextInv, Differs
    <2> QED
      BY <2>1, <2>2
  <1> QED
    BY <1>1, <1>2, <1>3 DEF TextInv, Differs

\* The loader stores text where no breakpoint is.
LEMMA LateIsFree ==
  ASSUME PoolInv, TextInv, NEW a \in Addr, text[a] = "zero"
  PROVE  a \notin Points
  BY DEF TextInv, Points

LEMMA InstructionText ==
  ASSUME PoolInv, TextInv, Instruction \/ NemuTrap \/ OwnBreak \/ BreakHit
  PROVE  TextInv'
  <1>0. mem \in [Addr -> Bytes] /\ text \in [Addr -> Bytes] /\ eip \in Addr
        /\ Differs(Resumed(mem), text) /\ Resumed(mem) \in [Addr -> Bytes]
    BY ResumedDiffers, ResumedType DEF PoolInv, TypeOK, TextInv
  <1>1. PICK v \in Values, state \in {"stop", "run", "break"} : Scan(state, v)
    BY InstructionTypes
  <1>2. /\ \A i \in Numbers : bp[i].kind = "break" => bp'[i] = bp[i]
        /\ Breaks' = Breaks /\ Points' = Points
    BY <1>1, ScanKeeps
  <1>3. \A i \in Breaks : bp'[i] = bp[i] /\ bp[i].addr \in Addr /\ bp[i].addr \in Points
    BY <1>2, BreakRecords
  <1>4. ASSUME text' = text, Differs(mem', text) PROVE TextInv'
    BY <1>2, <1>3, <1>4 DEF TextInv, Differs
  <1>5. ASSUME mem' = Resumed(mem), text' = text PROVE TextInv'
    BY <1>0, <1>4, <1>5
  <1>6. ASSUME NEW a \in Late, text[a] = "zero", text' = [text EXCEPT ![a] = Program[a]],
               mem' = Resumed([mem EXCEPT ![a] = Program[a]])
        PROVE  TextInv'
    <2> DEFINE m == [mem EXCEPT ![a] = Program[a]]
    <2>1. a \in Addr /\ a \notin Points /\ Program[a] \in Bytes
      BY <1>6, LateIsFree, ProgramAssumption DEF Bytes
    <2>2. m \in [Addr -> Bytes] /\ Differs(m, text')
      BY <1>0, <1>6, <2>1 DEF Differs, TextInv
    <2> HIDE DEF m
    <2>3. Differs(Resumed(m), text')
      BY <2>2, ResumedDiffers
    <2>4. Differs(mem, text)'
      BY <1>2, <1>6, <2>3 DEF Differs, m
    <2>5. \A i \in Breaks : text'[bp[i].addr] = text[bp[i].addr]
      BY <1>0, <1>3, <1>6, <2>1
    <2> QED
      BY <1>2, <1>3, <2>4, <2>5 DEF TextInv
  <1>7. CASE Instruction
    BY <1>5, <1>6, <1>7 DEF Instruction
  <1>8. CASE NemuTrap \/ OwnBreak
    BY <1>5, <1>8 DEF NemuTrap, OwnBreak
  <1>9. CASE BreakHit
    <2> DEFINE ori == bp[FirstOf(At(eip))].ori
    <2>1. mem' = [Resumed(mem) EXCEPT ![eip] = ori] /\ text' = text /\ At(eip) # {}
      BY <1>9 DEF BreakHit
    <2>2. ori = text[eip]
      BY <2>1, FoundAt DEF TextInv
    <2> HIDE DEF ori
    <2>3. Differs(mem', text)
      BY <1>0, <2>1, <2>2 DEF Differs
    <2> QED
      BY <2>1, <2>3, <1>4
  <1> QED
    BY <1>7, <1>8, <1>9

LEMMA TextStep == ASSUME Careful, PoolInv, TextInv, [Next]_vars PROVE TextInv'
  <1>1. ASSUME UNCHANGED <<bp, head, mem, text>> PROVE TextInv'
    BY <1>1 DEF TextInv, Breaks, Used, Differs, Points
  <1>2. CASE SetWatchpoint
    <2>1. NewBP(Watch(value)) /\ UNCHANGED <<mem, text>> /\ value \in Values
      BY <1>2 DEF SetWatchpoint, guest, PoolInv, TypeOK
    <2>2. Watch(value) \in Record /\ Watch(value) # Unused /\ Watch(value).kind = "watch"
      BY <2>1, Records
    <2>3. /\ Head(free_) \in Numbers \ Used /\ Used' = Used \cup {Head(free_)}
          /\ bp' = [bp EXCEPT ![Head(free_)] = Watch(value)]
      BY <2>1, <2>2, NewList
    <2>4. bp \in [Numbers -> Record] /\ \A i \in Used : i \in Numbers
      BY PoolTypes DEF PoolInv, Elements
    <2>5. bp'[Head(free_)].kind = "watch" /\ \A i \in Used : bp'[i] = bp[i]
      BY <2>2, <2>3, <2>4
    <2>6. Breaks' = Breaks /\ \A i \in Breaks : bp'[i] = bp[i]
      BY <2>3, <2>5 DEF Breaks
    <2>7. Points' = Points
      BY <2>6 DEF Points
    <2> QED
      BY <2>1, <2>6, <2>7 DEF TextInv, Differs
  <1>3. CASE PoolExhausted \/ DoIntr \/ UNCHANGED vars
    BY <1>1, <1>3 DEF PoolExhausted, DoIntr, vars, pool, guest
  <1>4. ASSUME NEW count, Exec(count) PROVE TextInv'
    BY <1>1, <1>4 DEF Exec, pool, guest
  <1> QED
    BY <1>2, <1>3, <1>4, SetText, DeleteText, DeleteAllText, InstructionText
       DEF Next, Command, Iteration

\* With a careful user the monitor never damages the program: each
\* breakpoint remembers the program's byte, and only addresses with a
\* breakpoint hold an INT3 for it (breakpoint.c:57).
THEOREM Integrity == ASSUME Careful PROVE Spec => []TextIntact
  <1>1. Spec => []TextInv
    <2>1. Init => TextInv
      BY InitText
    <2>2. PoolInv /\ TextInv /\ [Next]_vars => TextInv'
      BY TextStep
    <2> QED
      BY <2>1, <2>2, Invariance, PTL DEF Spec
  <1>2. TextInv => TextIntact
    BY DEF TextInv, TextIntact, Differs
  <1> QED
    BY <1>1, <1>2, PTL

-------------------------------------------------------------------------------
(* Breakpoints as the user sees them, with c as the only command that runs *)
(* the program, and no watchpoints                                         *)

Plain == Careful /\ MaxN = 0 /\ ~Watching

\* Only the breakpoint that has just been hit is not in memory.
Missing ==
  \A a \in Points : mem[a] # Int3 =>
    \/ phase = "inst" /\ rerun
    \/ phase = "intr" /\ nemu_state = "break" /\ a = eip
    \/ phase = "prompt" /\ nemu_state = "break"
    \/ phase = "aborted"

RunInv ==
  /\ \A i \in Numbers : bp[i].kind # "watch"
  /\ phase \in {"inst", "intr"} => n = Forever
  /\ phase = "inst" => nemu_state = "run"
  /\ phase # "inst" => ~rerun
  /\ phase = "intr" => nemu_state \in {"run", "stop", "break"}
  /\ phase = "prompt" => nemu_state # "run"
  /\ Missing

PlainInv == PoolInv /\ TextInv /\ RunInv

ArmedIn(m) == \A a \in Points : m[a] = Int3

LEMMA ResumedIsArmed ==
  ASSUME PlainInv, phase = "inst"
  PROVE  /\ ArmedIn(Resumed(mem))
         /\ \A a \in Late : text[a] = "zero" => ArmedIn(Resumed([mem EXCEPT ![a] = Program[a]]))
  <1>0. Points \subseteq Addr /\ mem \in [Addr -> Bytes] /\ Late \subseteq Addr
    BY BreakRecords, ProgramAssumption DEF PlainInv, PoolInv, TypeOK
  <1>1. ASSUME NEW m PROVE rerun => ArmedIn(Resumed(m))
    BY <1>0 DEF ArmedIn, Resumed, Arm
  <1>2. ~rerun => ArmedIn(mem)
    BY DEF PlainInv, RunInv, Missing, ArmedIn
  <1>3. ~rerun => ArmedIn(Resumed(mem))
    BY <1>2 DEF Resumed
  <1>4. ASSUME NEW a \in Late, text[a] = "zero", ~rerun
        PROVE  ArmedIn(Resumed([mem EXCEPT ![a] = Program[a]]))
    <2>1. a \notin Points
      BY <1>0, <1>4, LateIsFree DEF PlainInv
    <2> QED
      BY <1>0, <1>2, <1>4, <2>1 DEF ArmedIn, Resumed
  <1> QED
    BY <1>1, <1>3, <1>4

\* Without watchpoints a scan changes nothing but the flags of the loop.
LEMMA PlainScan ==
  ASSUME PlainInv, phase = "inst", NEW v \in Values, NEW state, Scan(state, v)
  PROVE  /\ UNCHANGED <<bp, head, free_, n>> /\ Points' = Points /\ n = Forever
         /\ nemu_state' = state /\ phase' = "intr" /\ rerun' = FALSE
  <1>1. Used \subseteq Numbers
    BY PoolTypes DEF PlainInv, PoolInv, Elements
  <1>2. Changed(v) = {}
    BY <1>1 DEF Changed, PlainInv, RunInv
  <1>3. n = Forever
    BY DEF PlainInv, RunInv
  <1> QED
    BY <1>2, <1>3, ScanKeeps DEF Scan, PlainInv

\* The four kinds of instruction
LEMMA PlainInstruction ==
  ASSUME PlainInv, Instruction \/ NemuTrap \/ OwnBreak \/ BreakHit
  PROVE  /\ UNCHANGED <<bp, head, free_, n>> /\ Points' = Points /\ n = Forever
         /\ phase = "inst" /\ phase' = "intr" /\ rerun' = FALSE /\ nemu_state = "run"
         /\ \/ /\ ~BreakHit /\ nemu_state' \in {"run", "stop", "break"} /\ ArmedIn(mem')
               /\ eip' \in Addr /\ (eip \in Points => mem[eip] # Int3)
            \/ /\ BreakHit /\ nemu_state' = "break" /\ eip' = eip /\ eip \in Points
               /\ mem[eip] = Int3 /\ mem'[eip] # Int3
               /\ \A a \in Points : mem'[a] # Int3 => a = eip
  <1>0. /\ phase = "inst" /\ nemu_state = "run" /\ ArmedIn(Resumed(mem)) /\ PoolInv
        /\ \A a \in Late : text[a] = "zero" => ArmedIn(Resumed([mem EXCEPT ![a] = Program[a]]))
    <2>1. phase = "inst"
      BY DEF Instruction, NemuTrap, OwnBreak, BreakHit
    <2> QED
      BY <2>1, ResumedIsArmed DEF PlainInv, RunInv
  <1>1. CASE Instruction
    <2>1. /\ mem[eip] # Int3 /\ eip' \in Addr /\ \E v \in Values : Scan("run", v)
          /\ ArmedIn(mem')
      BY <1>0, <1>1 DEF Instruction, Int3
    <2>2. ~BreakHit
      BY <2>1 DEF BreakHit
    <2> QED
      BY <1>0, <2>1, <2>2, PlainScan
  <1>2. CASE NemuTrap
    <2>1. /\ mem[eip] # Int3 /\ eip' \in Addr /\ Scan("stop", value) /\ ArmedIn(mem')
      BY <1>0, <1>2 DEF NemuTrap, Int3
    <2>2. ~BreakHit /\ value \in Values
      BY <1>0, <2>1 DEF BreakHit, PoolInv, TypeOK
    <2> QED
      BY <1>0, <2>1, <2>2, PlainScan
  <1>3. CASE OwnBreak
    <2>1. /\ At(eip) = {} /\ eip' \in Addr /\ Scan("break", value) /\ ArmedIn(mem')
      BY <1>0, <1>3 DEF OwnBreak
    <2>2. ~BreakHit /\ value \in Values /\ eip \notin Points
      BY <1>0, <2>1, BreakRecords DEF BreakHit, PoolInv, TypeOK
    <2> QED
      BY <1>0, <2>1, <2>2, PlainScan
  <1>4. CASE BreakHit
    <2> DEFINE ori == bp[FirstOf(At(eip))].ori
    <2>1. /\ mem[eip] = Int3 /\ At(eip) # {} /\ Scan("break", value) /\ eip' = eip
          /\ mem' = [Resumed(mem) EXCEPT ![eip] = ori]
      BY <1>4 DEF BreakHit
    <2>2. ori # Int3
      BY <1>0, <2>1, FoundAt DEF PlainInv, TextInv
    <2>3. eip \in Points /\ eip \in Addr /\ value \in Values /\ Resumed(mem) \in [Addr -> Bytes]
          /\ Points \subseteq Addr
      BY <1>0, <2>1, BreakRecords, ResumedType DEF PoolInv, TypeOK
    <2> HIDE DEF ori
    <2>4. mem'[eip] # Int3 /\ \A a \in Points : mem'[a] # Int3 => a = eip
      BY <1>0, <2>1, <2>2, <2>3 DEF ArmedIn
    <2> QED
      BY <1>0, <1>4, <2>1, <2>3, <2>4, PlainScan
  <1> QED
    BY <1>1, <1>2, <1>3, <1>4

LEMMA InitRun == ASSUME Init PROVE RunInv
  <1>1. \A i \in Numbers : bp[i].kind # "watch"
    BY Records DEF Init
  <1>2. Points = {}
    BY DEF Init, Points, Breaks, Used
  <1> QED
    BY <1>1, <1>2 DEF Init, RunInv, Missing

LEMMA RunStep == ASSUME Plain, PlainInv, [Next]_vars PROVE RunInv'
  <1>0. /\ PoolInv /\ TextInv /\ RunInv /\ bp \in [Numbers -> Record]
        /\ mem \in [Addr -> Bytes] /\ nemu_state \in {"stop", "run", "ready", "break"}
        /\ phase \in {"prompt", "inst", "intr", "aborted"}
    BY PoolTypes DEF PlainInv, PoolInv, TypeOK
  <1>1. ASSUME NEW a \in Addr, SetBreakpoint(a) PROVE RunInv'
    <2>1. /\ NewBP(Break(a, mem[a])) /\ mem' = [mem EXCEPT ![a] = Int3] /\ phase = "prompt"
          /\ UNCHANGED <<eip, nemu_state, n, rerun, phase>>
      BY <1>1 DEF SetBreakpoint, loop, Prompt
    <2>2. Points' = Points \cup {a} /\ Points \subseteq Addr
      BY <1>0, <2>1, SetPoints, BreakRecords
    <2>3. /\ Break(a, mem[a]) \in Record /\ Break(a, mem[a]) # Unused
          /\ Break(a, mem[a]).kind = "break"
      BY <1>0, Records
    <2>4. /\ Head(free_) \in Numbers /\ bp' = [bp EXCEPT ![Head(free_)] = Break(a, mem[a])]
      BY <1>0, <2>1, <2>3, NewList
    <2>5. \A i \in Numbers : bp'[i].kind # "watch"
      BY <1>0, <2>3, <2>4 DEF RunInv
    <2>6. Missing'
      BY <1>0, <2>1, <2>2 DEF RunInv, Missing
    <2> QED
      BY <1>0, <2>1, <2>5, <2>6 DEF RunInv
  <1>2. ASSUME NEW i \in Numbers, Delete(i) PROVE RunInv'
    <2>1. /\ mem' = Restored(i) /\ phase = "prompt" /\ bp' = [bp EXCEPT ![i] = Unused]
          /\ UNCHANGED <<eip, nemu_state, n, rerun, phase>>
      BY <1>2 DEF Delete, loop, Prompt
    <2>2. /\ Breaks' = Breaks \ {i} /\ \A j \in Breaks \ {i} : bp'[j] = bp[j]
          /\ i \in Used /\ (i \in Breaks <=> bp[i].kind = "break")
      BY <1>0, <1>2, DeletePoints
    <2>3. \A j \in Numbers : bp'[j].kind # "watch"
      BY <1>0, <2>1, Records DEF RunInv
    <2>4. ASSUME NEW a \in Points' PROVE a \in Points /\ a \in Addr /\ mem'[a] = mem[a]
      <3>1. PICK j \in Breaks \ {i} : a = bp[j].addr
        BY <2>2 DEF Points
      <3>2. a \in Points /\ a \in Addr
        BY <1>0, <3>1, BreakRecords
      <3>3. i \in Breaks => bp[i].addr # a
        BY <1>0, <3>1 DEF TextInv
      <3> QED
        BY <1>0, <2>1, <2>2, <3>2, <3>3 DEF Restored
    <2>5. Missing'
      BY <1>0, <2>1, <2>4 DEF RunInv, Missing
    <2> QED
      BY <1>0, <2>1, <2>3, <2>5 DEF RunInv
  <1>3. CASE DeleteAll
    <2>1. /\ bp' = [i \in Numbers |-> Unused] /\ phase = "prompt"
          /\ UNCHANGED <<eip, nemu_state, n, rerun, phase>>
      BY <1>3 DEF DeleteAll, loop, Prompt
    <2>2. Points' = {}
      BY <1>0, <1>3, DeleteAllList DEF Breaks, Points
    <2>3. \A i \in Numbers : bp'[i].kind # "watch"
      BY <2>1, Records
    <2> QED
      BY <1>0, <2>1, <2>2, <2>3 DEF RunInv, Missing
  <1>4. ASSUME UNCHANGED <<bp, head, mem>> PROVE Points' = Points
    BY <1>4 DEF Points, Breaks, Used
  <1>5. CASE Exec(Forever)
    <2>1. /\ phase = "prompt" /\ nemu_state # "stop" /\ n' = Forever
          /\ rerun' = (nemu_state = "break")
          /\ nemu_state' = "run" /\ phase' = "inst" /\ UNCHANGED <<bp, head, free_, mem, eip>>
      BY <1>5 DEF Exec, Prompt, pool, guest
    <2>2. Missing'
      BY <1>0, <1>4, <2>1 DEF RunInv, Missing
    <2> QED
      BY <1>0, <2>1, <2>2 DEF RunInv
  <1>6. CASE PoolExhausted \/ UNCHANGED vars
    <2>1. /\ UNCHANGED <<bp, head, free_, mem, eip, nemu_state, n, rerun>>
          /\ \/ phase' = phase
             \/ phase = "prompt" /\ phase' = "aborted"
      BY <1>6 DEF PoolExhausted, vars, pool, guest, Prompt
    <2>2. Missing'
      BY <1>0, <1>4, <2>1 DEF RunInv, Missing
    <2> QED
      BY <1>0, <2>1, <2>2 DEF RunInv
  <1>7. CASE Instruction \/ NemuTrap \/ OwnBreak \/ BreakHit
    <2>1. /\ UNCHANGED <<bp, n>> /\ n = Forever /\ phase' = "intr" /\ rerun' = FALSE
          /\ nemu_state' \in {"run", "stop", "break"}
      BY <1>7, PlainInstruction
    <2>2. Missing'
      BY <1>7, PlainInstruction DEF Missing, ArmedIn
    <2> QED
      BY <1>0, <2>1, <2>2 DEF RunInv
  <1>8. CASE DoIntr
    <2>1. /\ UNCHANGED <<bp, head, free_, mem, n, rerun>> /\ phase = "intr" /\ n = Forever /\ ~rerun
          /\ nemu_state \in {"run", "stop", "break"}
      BY <1>0, <1>8 DEF DoIntr, pool, RunInv
    <2>2. \/ nemu_state = "run" /\ phase' = "inst" /\ nemu_state' = "run"
          \/ nemu_state # "run" /\ phase' = "prompt" /\ nemu_state' = nemu_state
      BY <1>8, <2>1 DEF DoIntr, Forever
    <2>3. Missing'
      BY <1>0, <1>4, <2>1, <2>2 DEF RunInv, Missing
    <2> QED
      BY <1>0, <2>1, <2>2, <2>3 DEF RunInv
  <1>9. ~SetWatchpoint /\ ~(\E count \in 1 .. MaxN : Exec(count))
    BY DEF Plain, SetWatchpoint
  <1> QED
    BY <1>1, <1>2, <1>3, <1>5, <1>6, <1>7, <1>8, <1>9 DEF Next, Command, Iteration

LEMMA PlainAlways == ASSUME Plain PROVE Spec => []PlainInv
  <1>1. Careful
    BY DEF Plain
  <1>2. Init => PlainInv
    BY InitPool, InitText, InitRun DEF PlainInv
  <1>3. PlainInv /\ [Next]_vars => PlainInv'
    BY <1>1, PoolStep, TextStep, RunStep DEF PlainInv
  <1> QED
    BY <1>2, <1>3, PTL DEF Spec

\* After every instruction all breakpoints are in memory, the one it ran
\* under included (cpu.c:93).
THEOREM AlwaysArmed == ASSUME Plain PROVE Spec => []Armed
  <1>1. PlainInv => Armed
    BY DEF PlainInv, RunInv, Missing, Armed
  <1> QED
    BY <1>1, PlainAlways, PTL
-------------------------------------------------------------------------------
(* The debugger *)

Reported ==
  /\ nemu_state = "break" \/ rerun
  /\ eip \in Points /\ mem[eip] # Int3

Mode ==
  IF phase \in {"prompt", "aborted"} THEN "stopped"
  ELSE IF nemu_state = "run" /\ n # 0 THEN "running" ELSE "stopping"

LEMMA SetView ==
  ASSUME Careful, PlainInv, NEW a \in Addr, SetBreakpoint(a)
  PROVE  View!Set(a)
  <1>1. /\ phase = "prompt" /\ a \notin Points /\ NewBP(Break(a, mem[a]))
        /\ mem' = [mem EXCEPT ![a] = Int3] /\ UNCHANGED <<eip, nemu_state, n, rerun, phase>>
    BY DEF SetBreakpoint, Prompt, loop
  <1>2. Points' = Points \cup {a} /\ mem \in [Addr -> Bytes]
    BY <1>1, SetPoints DEF PlainInv, PoolInv, TypeOK
  <1>3. Mode = "stopped" /\ Mode' = Mode
    BY <1>1 DEF Mode
  <1>4. Reported' = Reported
    <2>1. CASE eip = a
      BY <1>1, <1>2, <2>1 DEF Reported
    <2>2. CASE eip # a
      BY <1>1, <1>2, <2>2 DEF Reported
    <2> QED
      BY <2>1, <2>2
  <1> QED
    BY <1>1, <1>2, <1>3, <1>4 DEF View!Set, Mode, Reported

LEMMA DeleteView ==
  ASSUME PlainInv, NEW i \in Numbers, Delete(i)
  PROVE  bp[i].addr \in Addr /\ View!Clear({bp[i].addr})
  <1>1. phase = "prompt" /\ mem' = Restored(i) /\ UNCHANGED <<eip, nemu_state, n, rerun, phase>>
    BY DEF Delete, Prompt, loop
  <1>2. /\ Breaks' = Breaks \ {i} /\ \A j \in Breaks \ {i} : bp'[j] = bp[j]
        /\ i \in Used /\ (i \in Breaks <=> bp[i].kind = "break")
    BY DeletePoints DEF PlainInv
  <1>3. i \in Breaks /\ bp[i].addr \in Addr /\ mem \in [Addr -> Bytes]
    <2>1. bp[i] \in Record /\ bp[i] # Unused
      BY <1>2, PoolTypes DEF PlainInv, PoolInv, ListInv
    <2>2. i \in Breaks
      BY <1>2, <2>1, Records DEF PlainInv, RunInv
    <2> QED
      BY <2>2, BreakRecords DEF PlainInv, PoolInv, TypeOK
  <1>4. mem' = [mem EXCEPT ![bp[i].addr] = bp[i].ori]
    BY <1>1, <1>2, <1>3 DEF Restored
  <1>5. Points' = Points \ {bp[i].addr}
    <2>1. Points' = {bp[j].addr : j \in Breaks \ {i}}
      BY <1>2 DEF Points
    <2>2. \A j \in Breaks \ {i} : bp[j].addr # bp[i].addr
      BY <1>3 DEF PlainInv, TextInv
    <2> QED
      BY <1>3, <2>1, <2>2 DEF Points
  <1>6. Mode = "stopped" /\ Mode' = Mode
    BY <1>1 DEF Mode
  <1>7. Reported' = (Reported /\ eip \notin {bp[i].addr})
    <2>1. CASE eip = bp[i].addr
      BY <1>5, <2>1, <1>1 DEF Reported
    <2>2. CASE eip # bp[i].addr
      <3>1. mem'[eip] = mem[eip] /\ (eip \in Points' <=> eip \in Points)
        BY <1>3, <1>4, <1>5, <2>2
      <3> QED
        BY <1>1, <2>2, <3>1 DEF Reported
    <2> QED
      BY <2>1, <2>2
  <1> QED
    BY <1>1, <1>3, <1>5, <1>6, <1>7 DEF View!Clear, Mode, Reported

LEMMA DeleteAllView ==
  ASSUME PlainInv, DeleteAll
  PROVE  Points \in SUBSET Addr /\ View!Clear(Points)
  <1>1. phase = "prompt" /\ UNCHANGED <<eip, nemu_state, n, rerun, phase>>
    BY DEF DeleteAll, Prompt, loop
  <1>2. Points' = {} /\ Points \in SUBSET Addr
    BY DeleteAllList, BreakRecords DEF Breaks, Points, PlainInv
  <1>3. Mode = "stopped" /\ Mode' = Mode
    BY <1>1 DEF Mode
  <1>4. ~Reported' /\ ~(Reported /\ eip \notin Points)
    BY <1>2 DEF Reported
  <1> QED
    BY <1>1, <1>2, <1>3, <1>4 DEF View!Clear, Mode, Reported

LEMMA ExecView == ASSUME PlainInv, Exec(Forever) PROVE View!Resume
  <1>1. /\ phase = "prompt" /\ n' = Forever /\ rerun' = (nemu_state = "break")
        /\ nemu_state' = "run" /\ phase' = "inst" /\ UNCHANGED <<bp, head, free_, mem, eip>>
    BY DEF Exec, Prompt, pool, guest
  <1>2. ~rerun
    BY <1>1 DEF PlainInv, RunInv
  <1>3. Points' = Points
    BY <1>1 DEF Points, Breaks, Used
  <1>4. Mode = "stopped" /\ Mode' = "running"
    BY <1>1 DEF Mode, Forever
  <1>5. Reported' = Reported
    BY <1>1, <1>2, <1>3 DEF Reported
  <1> QED
    BY <1>1, <1>3, <1>4, <1>5 DEF View!Resume, Mode, Reported

LEMMA InstructionView ==
  ASSUME PlainInv, Instruction \/ NemuTrap \/ OwnBreak \/ BreakHit
  PROVE  View!Execute \/ View!Report
  <1>1. /\ UNCHANGED <<bp, head, free_, n>> /\ Points' = Points /\ n = Forever
        /\ phase = "inst" /\ phase' = "intr" /\ rerun' = FALSE /\ nemu_state = "run"
    BY PlainInstruction
  <1>2. Mode = "running"
    BY <1>1 DEF Mode, Forever
  <1>3. CASE BreakHit
    <2>1. /\ nemu_state' = "break" /\ eip' = eip /\ eip \in Points
          /\ mem[eip] = Int3 /\ mem'[eip] # Int3
      BY <1>3, PlainInstruction
    <2>2. Mode' = "stopping" /\ ~Reported /\ Reported'
      BY <1>1, <2>1 DEF Mode, Reported
    <2> QED
      BY <1>1, <1>2, <2>1, <2>2 DEF View!Report, Mode, Reported
  <1>4. CASE ~BreakHit
    <2>1. /\ ArmedIn(mem') /\ eip' \in Addr /\ (eip \in Points => mem[eip] # Int3)
      BY <1>4, PlainInstruction
    <2>2. eip \in Points => Reported
      BY <1>1, <2>1 DEF Reported, PlainInv, RunInv, Missing
    <2>3. ~Reported'
      BY <1>1, <2>1 DEF Reported, ArmedIn
    <2>4. Mode' \in {"running", "stopping", "stopped"}
      BY DEF Mode
    <2> QED
      BY <1>1, <1>2, <2>1, <2>2, <2>3, <2>4 DEF View!Execute, Mode, Reported
  <1> QED
    BY <1>3, <1>4

LEMMA DoIntrView ==
  ASSUME PlainInv, DoIntr
  PROVE  View!Interrupt \/ View!Stop \/ UNCHANGED View!view
  <1>1. /\ UNCHANGED <<bp, head, free_, mem, n, rerun>> /\ phase = "intr" /\ n = Forever /\ ~rerun
        /\ \/ eip' = eip
           \/ eip' \in Handlers
    BY DEF DoIntr, pool, PlainInv, RunInv
  <1>2. \/ nemu_state = "run" /\ phase' = "inst" /\ nemu_state' = "run"
        \/ nemu_state # "run" /\ phase' = "prompt" /\ nemu_state' = nemu_state
    BY <1>1 DEF DoIntr, Forever
  <1>3. Points' = Points
    BY <1>1 DEF Points, Breaks, Used
  <1>4. \/ Mode = "running" /\ Mode' = Mode
        \/ Mode = "stopping" /\ Mode' = "stopped"
    BY <1>1, <1>2 DEF Mode, Forever
  <1>5. CASE eip' = eip
    <2>1. Reported' = Reported
      BY <1>1, <1>2, <1>3, <1>5 DEF Reported
    <2> QED
      BY <1>3, <1>4, <1>5, <2>1 DEF View!Stop, View!view, Mode, Reported
  <1>6. CASE eip' \in Handlers /\ eip' # eip
    <2>1. ~Reported'
      BY <1>1, <1>2, <1>3, <1>6 DEF Reported, PlainInv, RunInv, Missing
    <2> QED
      BY <1>3, <1>4, <1>6, <2>1 DEF View!Interrupt, Mode, Reported
  <1> QED
    BY <1>1, <1>5, <1>6

\* A breakpoint stops the program each time before its instruction, and once
\* (cpu.c:77): the INT3 bytes, the lists and the flags of exec implement
\* Debugger.
THEOREM DebuggerImplemented == ASSUME Plain PROVE Spec => ImplementsDebugger
  <1>1. Init => View!Init
    BY DEF Init, View!Init, Points, Breaks, Used
  <1>2. ASSUME PlainInv, [Next]_vars PROVE View!Next \/ UNCHANGED View!view
    <2>1. ASSUME NEW a \in Addr, SetBreakpoint(a) PROVE View!Next
      BY <1>2, <2>1, SetView DEF Plain, View!Next
    <2>2. ASSUME NEW i \in Numbers, Delete(i) PROVE View!Next
      <3>1. {bp[i].addr} \in SUBSET Addr /\ View!Clear({bp[i].addr})
        BY <1>2, <2>2, DeleteView
      <3> QED
        BY <3>1 DEF View!Next
    <2>3. CASE DeleteAll
      BY <1>2, <2>3, DeleteAllView DEF View!Next
    <2>4. CASE Exec(Forever)
      BY <1>2, <2>4, ExecView DEF View!Next
    <2>5. CASE PoolExhausted \/ UNCHANGED vars
      <3>1. /\ UNCHANGED <<bp, head, free_, mem, eip, nemu_state, n, rerun>>
            /\ \/ phase' = phase
               \/ phase = "prompt" /\ phase' = "aborted"
        BY <2>5 DEF PoolExhausted, vars, pool, guest, Prompt
      <3>2. Points' = Points
        BY <3>1 DEF Points, Breaks, Used
      <3> QED
        BY <3>1, <3>2 DEF View!view
    <2>6. CASE Instruction \/ NemuTrap \/ OwnBreak \/ BreakHit
      BY <1>2, <2>6, InstructionView DEF View!Next
    <2>7. CASE DoIntr
      BY <1>2, <2>7, DoIntrView DEF View!Next
    <2>8. ~SetWatchpoint /\ ~(\E count \in 1 .. MaxN : Exec(count))
      BY DEF Plain, SetWatchpoint
    <2> QED
      BY <1>2, <2>1, <2>2, <2>3, <2>4, <2>5, <2>6, <2>7, <2>8 DEF Next, Command, Iteration
  <1> QED
    BY <1>1, <1>2, PlainAlways, PTL DEF Spec, ImplementsDebugger, View!Spec

===============================================================================
