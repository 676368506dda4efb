------------------------ MODULE BrowserParts_proofs ------------------------
(***************************************************************************)
(* What the smaller parts of the browsers keep, for any number of windows, *)
(* studies, sessions, reports, inbox items, cameras and requests in        *)
(* flight.  Each part has an inductive invariant of its own; a step of one *)
(* part leaves no other part open.                                         *)
(***************************************************************************)
EXTENDS BrowserParts, Lemmas

-----------------------------------------------------------------------------
(* What several parts do: one place of a table holds something else now. *)
IsPut(new, old, k, e) == new = [old EXCEPT ![k] = e]

-----------------------------------------------------------------------------
(* The select box *)

(* Of some numbers up to n there is a least and a largest. *)
LEMMA Extremes ==
  ASSUME NEW n \in Nat, NEW S, S \subseteq 1 .. n, S # {}
  PROVE  /\ Selecting!Min(S) \in S /\ \A y \in S : Selecting!Min(S) <= y
         /\ Selecting!Max(S) \in S
<1> DEFINE T == {k \in Nat : n - k \in S}
<1>1. \E x \in S : \A y \in S : x <= y
  <2> S \subseteq Nat
    OBVIOUS
  <2> QED BY LeastExists
<1>2. PICK s \in S : TRUE
  OBVIOUS
<1>3. n - s \in T
  BY <1>2
<1>4. PICK k \in T : \A j \in T : k <= j
  <2>1. T \subseteq Nat /\ T # {}
    BY <1>3
  <2> HIDE DEF T
  <2> QED BY <2>1, LeastExists
<1>5. \A y \in S : n - k >= y
  <2> TAKE y \in S
  <2>1. y \in Nat /\ y <= n /\ n - y \in T
    OBVIOUS
  <2> QED BY <1>4, <2>1
<1>6. n - k \in S
  BY <1>4
<1>7. Selecting!Min(S) \in S /\ \A y \in S : Selecting!Min(S) <= y
  BY <1>1, Zenon DEF Selecting!Min
<1>8. Selecting!Max(S) \in S
  BY <1>5, <1>6, Zenon DEF Selecting!Max
<1> QED BY <1>7, <1>8

(* What the page renders *)
IsOptions(os) ==
  /\ Len(os) \in Nat /\ DOMAIN os = 1 .. Len(os)
  /\ \A i, j \in DOMAIN os : os[i].value = os[j].value => i = j

(* Every list the model offers is one of options. *)
LEMMA ListsAreOptions ==
  ASSUME NEW os \in Selecting!OptionLists
  PROVE  IsOptions(os)
<1>1. PICK n \in 0 .. Selecting!Cardinality(OptionValue) :
        os \in [1 .. n -> [value : OptionValue, disabled : BOOLEAN]]
  BY DEF Selecting!OptionLists
<1>2. n \in Nat
  OBVIOUS
<1>3. Len(os) = n
  BY <1>1, <1>2
<1> QED BY <1>1, <1>2, <1>3 DEF IsOptions, Selecting!OptionLists

Place(n, i, k, down) ==
  IF down THEN IF i + k <= n THEN i + k ELSE i + k - n
  ELSE IF k < i THEN i - k ELSE i - k + n

(* A step of k around the end, either way *)
LEMMA SteppedPlace ==
  ASSUME NEW os, IsOptions(os), NEW i \in DOMAIN os, NEW k \in DOMAIN os, NEW down \in BOOLEAN
  PROVE  Selecting!Stepped(os, i, k, down) = Place(Len(os), i, k, down)
<1> DEFINE n == Len(os)
<1>1. n \in Nat /\ i \in 1 .. n /\ k \in 1 .. n
  BY DEF IsOptions
<1>0. /\ Selecting!Stepped(os, i, k, down)
           = ((IF down THEN i - 1 + k ELSE i - 1 + n - k) % n) + 1
      /\ Place(Len(os), i, k, down) = Place(n, i, k, down)
  BY Zenon DEF Selecting!Stepped
<1> HIDE DEF n
<1>2. CASE down
  <2>1. (i - 1 + k) % n = IF i - 1 + k < n THEN i - 1 + k ELSE i - 1 + k - n
    <3> DEFINE x == i - 1 + k
    <3>1. x \in Nat /\ x < n + n
      BY <1>1
    <3> HIDE DEF x
    <3>2. x % n = IF x < n THEN x ELSE x - n
      BY <1>1, <3>1, Around
    <3> QED BY <1>1, <3>2 DEF x
  <2> DEFINE r == (i - 1 + k) % n
  <2>2. Selecting!Stepped(os, i, k, down) = r + 1
    BY <1>0, <1>2, Zenon
  <2>3. r = IF i - 1 + k < n THEN i - 1 + k ELSE i - 1 + k - n
    BY <2>1
  <2> HIDE DEF r
  <2>4. Place(n, i, k, down) = r + 1
    BY <1>1, <1>2, <2>3 DEF Place
  <2> QED BY <1>0, <2>2, <2>4
<1>3. CASE ~down
  <2>1. (i - 1 + n - k) % n = IF i - 1 + n - k < n THEN i - 1 + n - k ELSE i - 1 + n - k - n
    <3> DEFINE x == i - 1 + n - k
    <3>1. x \in Nat /\ x < n + n
      BY <1>1
    <3> HIDE DEF x
    <3>2. x % n = IF x < n THEN x ELSE x - n
      BY <1>1, <3>1, Around
    <3> QED BY <1>1, <3>2 DEF x
  <2> DEFINE r == (i - 1 + n - k) % n
  <2>2. Selecting!Stepped(os, i, k, down) = r + 1
    BY <1>0, <1>3, Zenon
  <2>3. r = IF i - 1 + n - k < n THEN i - 1 + n - k ELSE i - 1 + n - k - n
    BY <2>1
  <2> HIDE DEF r
  <2>4. Place(n, i, k, down) = r + 1
    BY <1>1, <1>3, <2>3 DEF Place
  <2> QED BY <1>0, <2>2, <2>4
<1> QED BY <1>2, <1>3

(* Steps of k and back of l are one of k - l. *)
LEMMA StepsBack ==
  ASSUME NEW n \in Nat, NEW i \in 1 .. n, NEW k \in 1 .. n, NEW l \in 1 .. k,
         NEW down \in BOOLEAN, NEW back \in BOOLEAN, back # down
  PROVE  /\ Place(n, i, k, down) \in 1 .. n
         /\ Place(n, Place(n, i, k, down), l, back) = IF l = k THEN i ELSE Place(n, i, k - l, down)
         /\ Place(n, i, n, down) = i
<1>1. CASE down /\ ~back
  BY <1>1 DEF Place
<1>2. CASE ~down /\ back
  BY <1>2 DEF Place
<1> QED BY <1>1, <1>2

(* An arrow ends on an enabled option, the opposite one comes back. *)
LEMMA ArrowUndone ==
  ASSUME NEW os, IsOptions(os), NEW i \in Selecting!Enabled(os), NEW down \in BOOLEAN,
         NEW back \in BOOLEAN, back # down
  PROVE  /\ Selecting!nextEnabledOptionIndex(os, i, down) \in Selecting!Enabled(os)
         /\ Selecting!nextEnabledOptionIndex(
              os, Selecting!nextEnabledOptionIndex(os, i, down), back) = i
<1> DEFINE n == Len(os)
           E == Selecting!Enabled(os)
           steps(s, d) == {k \in DOMAIN os : Selecting!Stepped(os, s, k, d) \in E}
           k == Selecting!Min(steps(i, down))
           j == Place(n, i, k, down)
<1>1. n \in Nat /\ DOMAIN os = 1 .. n /\ i \in 1 .. n /\ E \subseteq 1 .. n /\ os # <<>> /\ i \in E
  BY DEF IsOptions, Selecting!Enabled
<1>2. \A s \in 1 .. n, d \in BOOLEAN : steps(s, d) = {l \in 1 .. n : Place(n, s, l, d) \in E}
  BY <1>1, SteppedPlace
<1>3. ASSUME NEW s \in 1 .. n, NEW d \in BOOLEAN, steps(s, d) # {}
      PROVE  /\ Selecting!Min(steps(s, d)) \in steps(s, d)
             /\ \A l \in steps(s, d) : Selecting!Min(steps(s, d)) <= l
             /\ Selecting!nextEnabledOptionIndex(os, s, d)
                  = Place(n, s, Selecting!Min(steps(s, d)), d)
  <2>1. steps(s, d) \subseteq 1 .. n
    BY <1>1
  <2>2. /\ Selecting!Min(steps(s, d)) \in steps(s, d)
        /\ \A l \in steps(s, d) : Selecting!Min(steps(s, d)) <= l
    <3> HIDE DEF steps
    <3> QED BY <1>1, <1>3, <2>1, Extremes
  <2>3. Selecting!nextEnabledOptionIndex(os, s, d)
          = Selecting!Stepped(os, s, Selecting!Min(steps(s, d)), d)
    BY <1>1, <1>3 DEF Selecting!nextEnabledOptionIndex
  <2> QED BY <1>1, <2>1, <2>2, <2>3, SteppedPlace
<1> HIDE DEF steps, E, n
<1>4. n \in steps(i, down)
  BY <1>1, <1>2, StepsBack
<1>5. /\ k \in 1 .. n /\ k \in steps(i, down) /\ \A l \in steps(i, down) : k <= l
      /\ Selecting!nextEnabledOptionIndex(os, i, down) = j
  BY <1>1, <1>2, <1>3, <1>4
<1> HIDE DEF k
<1>6. j \in 1 .. n /\ j \in E
  BY <1>1, <1>2, <1>5, StepsBack
<1>7. k \in steps(j, back) /\ Place(n, j, k, back) = i
  BY <1>1, <1>2, <1>5, <1>6, StepsBack
<1>8. ASSUME NEW l \in steps(j, back), l < k PROVE FALSE
  <2>1. l \in 1 .. k /\ l # k /\ k - l \in 1 .. n
    BY <1>1, <1>2, <1>5, <1>6, <1>8
  <2>2. Place(n, j, l, back) = Place(n, i, k - l, down)
    BY <1>1, <1>5, <2>1, StepsBack
  <2>3. Place(n, j, l, back) \in E
    BY <1>2, <1>6, <1>8
  <2>4. k - l \in steps(i, down)
    BY <1>1, <1>2, <2>1, <2>2, <2>3
  <2> QED BY <1>1, <1>5, <2>1, <2>4
<1>9. Selecting!nextEnabledOptionIndex(os, j, back) = i
  <2> DEFINE m == Selecting!Min(steps(j, back))
  <2>1. m \in steps(j, back) /\ m <= k /\ Selecting!nextEnabledOptionIndex(os, j, back) = Place(n, j, m, back)
    BY <1>3, <1>6, <1>7
  <2>2. m \in 1 .. n
    BY <1>2, <1>6, <2>1
  <2>3. m = k
    BY <1>5, <1>8, <2>1, <2>2
  <2> QED BY <1>7, <2>1, <2>3
<1> QED BY <1>5, <1>6, <1>9 DEF E

(* While the options under an open list stay, the active one is enabled. *)
SelectInv ==
  /\ x1 \in Selecting!OptionLists /\ x6 \in Nat
  /\ x4 /\ x6 = 0 /\ Selecting!Enabled(x1) # {} => x5 \in Selecting!Enabled(x1)
  /\ x7.value \in x7.offered

(* It starts closed. *)
LEMMA SelectInit == Selecting!Init => SelectInv
BY DEF Selecting!Init, SelectInv

(* The first, the last and the default option are enabled ones. *)
LEMMA EnabledEnds ==
  ASSUME x1 \in Selecting!OptionLists, Selecting!Enabled(x1) # {}
  PROVE  /\ Selecting!firstEnabledOptionIndex(x1) \in Selecting!Enabled(x1)
         /\ Selecting!lastEnabledOptionIndex(x1) \in Selecting!Enabled(x1)
         /\ Selecting!DefaultActiveIndex(x1, x2) \in Selecting!Enabled(x1)
<1> DEFINE E == Selecting!Enabled(x1)
           S == Selecting!Selected(x1, x2)
<1>1. IsOptions(x1)
  BY ListsAreOptions
<1>2. E \subseteq 1 .. Len(x1) /\ S \subseteq 1 .. Len(x1) /\ Len(x1) \in Nat
  BY <1>1 DEF IsOptions, Selecting!Enabled, Selecting!Selected
<1>3. Selecting!Min(E) \in E /\ Selecting!Max(E) \in E
  <2> HIDE DEF E
  <2> QED BY <1>2, Extremes DEF E
<1>4. S # {} => Selecting!Min(S) \in S
  <2> HIDE DEF S
  <2> QED BY <1>2, Extremes
<1>5. \A i, j \in S : i = j
  BY <1>1 DEF IsOptions, Selecting!Selected
<1>6. S \cap E # {} => Selecting!Min(S) \in E
  BY <1>4, <1>5
<1> QED
  BY <1>3, <1>6 DEF Selecting!firstEnabledOptionIndex, Selecting!lastEnabledOptionIndex,
     Selecting!DefaultActiveIndex

(* Every step of the box keeps its invariant. *)
LEMMA SelectNext == SelectInv /\ Selecting!Next => SelectInv'
<1> SUFFICES ASSUME SelectInv, Selecting!Next PROVE SelectInv'
  OBVIOUS
<1> DEFINE E == Selecting!Enabled(x1)
           Moved == E # {} /\ x4 /\ x6 = 0 => x5' \in E
           Kept == x1' = x1 /\ x4' = x4 /\ x6' = x6 /\ x7' = x7
           Closed == x1' = x1 /\ x4' = FALSE /\ x6' = 0 /\ x7'.value \in x7'.offered
           Opened == x1' = x1 /\ x6' = x6 /\ x7' = x7 /\ (E # {} => x5' \in E)
<1>0. ASSUME (Kept /\ Moved) \/ Closed \/ Opened PROVE SelectInv'
  BY <1>0 DEF SelectInv, Selecting!Enabled
<1>1. ASSUME Selecting!OpenMenu PROVE Opened
  BY <1>1, EnabledEnds DEF Selecting!OpenMenu, SelectInv, Selecting!pageVars
<1>2. ASSUME Selecting!Dismiss PROVE Closed
  BY <1>2 DEF Selecting!Dismiss, Selecting!CloseMenu, Selecting!pageVars, SelectInv
<1>3. ASSUME NEW i \in E, Selecting!CommitSelection(x1[i].value) PROVE Closed
  BY <1>3 DEF Selecting!CommitSelection, Selecting!CloseMenu, SelectInv
<1>4. ASSUME Selecting!Choose PROVE Closed
  BY <1>3, <1>4 DEF Selecting!Choose
<1>5. ASSUME NEW i, Selecting!MoveActive(i), E # {} /\ x4 /\ x6 = 0 => i \in E
      PROVE  Kept /\ Moved
  BY <1>5 DEF Selecting!MoveActive, Selecting!pageVars
<1>6. ASSUME Selecting!Arrow PROVE Kept /\ Moved
  <2>1. PICK down \in BOOLEAN :
          Selecting!MoveActive(Selecting!nextEnabledOptionIndex(x1,
            IF x5 = 0 THEN Selecting!DefaultActiveIndex(x1, x2) ELSE x5, down))
    BY <1>6 DEF Selecting!Arrow
  <2> DEFINE s == IF x5 = 0 THEN Selecting!DefaultActiveIndex(x1, x2) ELSE x5
  <2>2. PICK back \in BOOLEAN : back # down
    OBVIOUS
  <2>3. E # {} /\ x4 /\ x6 = 0 => Selecting!nextEnabledOptionIndex(x1, s, down) \in E
    <3>1. E # {} /\ x4 /\ x6 = 0 => s \in E
      BY EnabledEnds DEF SelectInv
    <3>2. IsOptions(x1)
      BY ListsAreOptions DEF SelectInv
    <3> HIDE DEF s
    <3> QED BY <2>2, <3>1, <3>2, ArrowUndone
  <2> QED BY <1>5, <2>1, <2>3
<1>7. ASSUME \/ Selecting!MoveActive(Selecting!firstEnabledOptionIndex(x1))
             \/ Selecting!MoveActive(Selecting!lastEnabledOptionIndex(x1))
      PROVE  Kept /\ Moved
  BY <1>5, <1>7, EnabledEnds DEF SelectInv
<1>8. CASE Selecting!ClickTrigger \/ Selecting!HandlePointerDown
  BY <1>0, <1>1, <1>2, <1>8 DEF Selecting!ClickTrigger, Selecting!HandlePointerDown
<1>9. CASE Selecting!TriggerKey \/ Selecting!ListKey
  BY <1>0, <1>1, <1>2, <1>4, <1>6, <1>7, <1>9 DEF Selecting!TriggerKey, Selecting!ListKey
<1>10. CASE \E i \in DOMAIN x1 : Selecting!Hover(i) \/ Selecting!ClickOption(i)
  BY <1>0, <1>3, <1>5, <1>10 DEF Selecting!Hover, Selecting!ClickOption
<1>11. CASE Selecting!Render
  <2>1. x6' = x6 + 1 /\ x6 \in Nat /\ x6' # 0
    BY <1>11 DEF Selecting!Render, SelectInv
  <2> QED BY <1>11, <2>1 DEF Selecting!Render, SelectInv
<1> QED BY <1>8, <1>9, <1>10, <1>11 DEF Selecting!Next

(* What the keyboard chooses has been offered. *)
LEMMA SelectKeyboard == SelectInv => Selecting!KeyboardChoosesOffered
<1> SUFFICES ASSUME SelectInv PROVE Selecting!KeyboardChoosesOffered
  OBVIOUS
<1>1. IsOptions(x1)
  BY ListsAreOptions DEF SelectInv
<1>2. ASSUME NEW i \in Selecting!Enabled(x1), NEW down \in BOOLEAN
      PROVE  Selecting!nextEnabledOptionIndex(
               x1, Selecting!nextEnabledOptionIndex(x1, i, down), ~down) = i
  <2> DEFINE back == ~down
  <2>1. back \in BOOLEAN /\ back # down
    OBVIOUS
  <2> HIDE DEF back
  <2>2. Selecting!nextEnabledOptionIndex(
          x1, Selecting!nextEnabledOptionIndex(x1, i, down), back) = i
    BY <1>1, <2>1, ArrowUndone
  <2> QED BY <2>2 DEF back
<1> QED BY <1>2 DEF SelectInv, Selecting!KeyboardChoosesOffered

-----------------------------------------------------------------------------
(* The command palette *)

(* What is among the commands up to each, in their order *)
Among(f, cs, q, n) ==
  f = [i \in 0 .. n |->
         IF i = 0 THEN <<>> ELSE IF cs[i].id \in q THEN Append(f[i - 1], cs[i]) ELSE f[i - 1]]

(* It can be told, for any number of commands. *)
LEMMA AmongExists ==
  ASSUME NEW cs, NEW q, NEW n \in Nat
  PROVE  \E f : Among(f, cs, q, n)
<1> DEFINE None0 == {k \in Nat : ~ \E f : Among(f, cs, q, k)}
           Step(f, i) == IF i = 0 THEN <<>>
                         ELSE IF cs[i].id \in q THEN Append(f[i - 1], cs[i]) ELSE f[i - 1]
<1> SUFFICES ASSUME None0 # {} PROVE FALSE
  OBVIOUS
<1>1. PICK k \in None0 : \A j \in None0 : k <= j
  <2> None0 \subseteq Nat
    OBVIOUS
  <2> HIDE DEF None0
  <2> QED BY LeastExists
<1>2. CASE k = 0
  <2> DEFINE f == [i \in 0 .. 0 |-> <<>>]
  <2>1. Among(f, cs, q, 0)
    BY DEF Among
  <2> QED BY <1>2, <2>1
<1>3. CASE k # 0
  <2>1. k - 1 \in Nat /\ k - 1 \notin None0
    BY <1>1, <1>3
  <2>2. PICK f : Among(f, cs, q, k - 1)
    BY <2>1
  <2> DEFINE g == [i \in 0 .. k |-> IF i = k THEN Step(f, k) ELSE f[i]]
  <2>3. \A i \in 0 .. k - 1 : f[i] = Step(f, i)
    BY <2>2 DEF Among
  <2>4. \A i \in 0 .. k : g[i] = Step(g, i)
    <3> SUFFICES ASSUME NEW i \in 0 .. k
                 PROVE  g[i] = Step(g, i)
      OBVIOUS
    <3>1. CASE i = k
      <4>1. g[k - 1] = f[k - 1] /\ g[k] = Step(f, k)
        BY <1>3, <2>1
      <4> QED BY <1>3, <3>1, <4>1
    <3>2. CASE i # k
      <4>1. i \in 0 .. k - 1 /\ g[i] = f[i] /\ (i # 0 => g[i - 1] = f[i - 1])
        BY <2>1, <3>2
      <4> QED BY <2>3, <4>1
    <3> QED BY <3>1, <3>2
  <2>5. Among(g, cs, q, k)
    <3> DEFINE h == [i \in 0 .. k |-> Step(g, i)]
    <3>1. \A i \in 0 .. k : g[i] = h[i]
      BY <2>4
    <3>2. g = h
      BY <3>1
    <3> QED BY <3>2 DEF Among
  <2> QED BY <1>1, <2>5
<1> QED BY <1>2, <1>3

(* What matches are commands of the list up to the n-th. *)
FromFirst(s, cs, n) ==
  /\ Distinct(s)
  /\ \A j \in DOMAIN s : \E k \in 1 .. n : s[j] = cs[k]

(* The commands that match are distinct when all are. *)
LEMMA MatchingDistinct ==
  ASSUME NEW cs, Distinct(cs), NEW q
  PROVE  Distinct(Palette!Matching(cs, q))
<1> DEFINE g == CHOOSE f : Among(f, cs, q, Len(cs))
           Bad == {k \in 0 .. Len(cs) : ~FromFirst(g[k], cs, k)}
<1>0. Len(cs) \in Nat /\ DOMAIN cs = 1 .. Len(cs)
  <2>1. cs \in Seq({cs[i] : i \in DOMAIN cs})
    BY DEF Distinct, IsSeq
  <2> QED BY <2>1
<1>1. Among(g, cs, q, Len(cs))
  BY <1>0, AmongExists
<1>2. Palette!Matching(cs, q) = g[Len(cs)]
  BY DEF Palette!Matching, Among
<1> HIDE DEF g
<1>3. \A i \in 0 .. Len(cs) :
        g[i] = IF i = 0 THEN <<>>
               ELSE IF cs[i].id \in q THEN Append(g[i - 1], cs[i]) ELSE g[i - 1]
  BY <1>1 DEF Among
<1>4. Bad = {}
  <2> SUFFICES ASSUME Bad # {} PROVE FALSE
    OBVIOUS
  <2>1. PICK k \in Bad : \A j \in Bad : k <= j
    <3> Bad \subseteq Nat
      BY <1>0
    <3> HIDE DEF Bad
    <3> QED BY LeastExists
  <2>2. CASE k = 0
    <3>1. g[0] = <<>>
      BY <1>0, <1>3
    <3>2. \A s \in Seq({}) : IsSeq(s)
      BY SeqIsSeq
    <3>3. <<>> \in Seq({}) /\ DOMAIN <<>> = {}
      OBVIOUS
    <3>4. FromFirst(<<>>, cs, 0)
      BY <3>2, <3>3 DEF FromFirst, Distinct
    <3> QED BY <2>1, <2>2, <3>1, <3>4
  <2>3. CASE k # 0
    <3>1. k \in 1 .. Len(cs) /\ k - 1 \in 0 .. Len(cs) /\ k - 1 \notin Bad
      BY <1>0, <2>1, <2>3
    <3> DEFINE s == g[k - 1]
    <3>2. FromFirst(s, cs, k - 1)
      BY <3>1
    <3>3. g[k] = IF cs[k].id \in q THEN Append(s, cs[k]) ELSE s
      BY <1>3, <2>3, <3>1
    <3> HIDE DEF s
    <3>4. \A j \in DOMAIN s : s[j] # cs[k]
      BY <1>0, <3>1, <3>2 DEF FromFirst, Distinct
    <3>5. FromFirst(s, cs, k)
      BY <3>1, <3>2 DEF FromFirst
    <3>6. FromFirst(Append(s, cs[k]), cs, k)
      <4>1. Distinct(Append(s, cs[k]))
        BY <3>2, <3>4, AppendedDistinct DEF FromFirst
      <4>2. \A j \in DOMAIN Append(s, cs[k]) :
              Append(s, cs[k])[j] = cs[k] \/ \E l \in DOMAIN s : Append(s, cs[k])[j] = s[l]
        BY <3>2, AppendedElement DEF FromFirst, Distinct
      <4> QED BY <3>1, <3>5, <4>1, <4>2 DEF FromFirst
    <3> QED BY <2>1, <3>3, <3>5, <3>6
  <2> QED BY <2>2, <2>3
<1>5. FromFirst(g[Len(cs)], cs, Len(cs))
  BY <1>0, <1>4
<1> QED BY <1>2, <1>5 DEF FromFirst

(* The commands of the app are distinct, whoever is signed in and whichever *)
(* studies are loaded. *)
StudyList == {<<>>, <<"study-1">>, <<"study-1", "study-2">>}

(* The commands that are registered have identifiers of their own. *)
LEMMA CommandsDistinct ==
  ASSUME x2 \in StudyList
  PROVE  Distinct(Palette!Commands)
<1> DEFINE C(id, section) == [id |-> id, section |-> section]
           a == <<C("go-home", "go_to"), C("go-ask", "go_to"),
                  C("new-study", "actions"), C("refresh", "actions")>>
           b == IF x1 = "superuser" THEN <<C("open-admin", "actions")>> ELSE <<>>
           c == [i \in DOMAIN x2 |-> C(x2[i], "studies")]
<1>0. ASSUME NEW n \in Nat, NEW s, DOMAIN s = 1 .. n, s = [i \in 1 .. n |-> s[i]] PROVE IsSeq(s)
  <2>1. s \in [1 .. n -> {s[i] : i \in DOMAIN s}]
    BY <1>0
  <2> QED BY <2>1 DEF IsSeq
<1>1. /\ IsSeq(a) /\ DOMAIN a = 1 .. 4
      /\ a[1].id = "go-home" /\ a[2].id = "go-ask" /\ a[3].id = "new-study" /\ a[4].id = "refresh"
  <2>1. /\ DOMAIN a = 1 .. 4 /\ a[1].id = "go-home" /\ a[2].id = "go-ask"
        /\ a[3].id = "new-study" /\ a[4].id = "refresh"
    OBVIOUS
  <2>2. a = [i \in 1 .. 4 |-> a[i]]
    OBVIOUS
  <2> QED BY <1>0, <2>1, <2>2
<1>2. /\ IsSeq(b) /\ \A i \in DOMAIN b : i = 1 /\ b[i].id = "open-admin"
  <2>1. b \in Seq({C("open-admin", "actions")})
    <3> DEFINE e == C("open-admin", "actions")
    <3>1. <<e>> \in Seq({e}) /\ <<>> \in Seq({e})
      <4> HIDE DEF e
      <4> QED OBVIOUS
    <3> QED BY <3>1
  <2>2. \A i \in DOMAIN b : i = 1 /\ b[i].id = "open-admin"
    OBVIOUS
  <2> HIDE DEF b, C
  <2> QED BY <2>1, <2>2, SeqIsSeq
<1>3. /\ IsSeq(c) /\ \A i \in DOMAIN c : i \in {1, 2} /\ c[i].id = IF i = 1 THEN "study-1" ELSE "study-2"
  <2>1. PICK n \in Nat : DOMAIN x2 = 1 .. n
    BY DEF StudyList
  <2>2. IsSeq(c)
    BY <1>0, <2>1
  <2> QED BY <2>2 DEF StudyList
<1>4. Palette!Commands = (a \o b) \o c
  BY DEF Palette!Commands, Palette!Command
<1> HIDE DEF a, b, c
<1>5. Distinct(a) /\ Distinct(b) /\ Distinct(c)
  BY <1>1, <1>2, <1>3 DEF Distinct
<1>6. Distinct(a \o b) /\ \A i \in DOMAIN (a \o b) :
        (a \o b)[i].id \in {"go-home", "go-ask", "new-study", "refresh", "open-admin"}
  <2>1. \A i \in DOMAIN a, j \in DOMAIN b : a[i] # b[j]
    BY <1>1, <1>2
  <2>2. Distinct(a \o b) /\ \A i \in DOMAIN (a \o b) :
              \/ \E k \in DOMAIN a : (a \o b)[i] = a[k]
              \/ \E k \in DOMAIN b : (a \o b)[i] = b[k]
    BY <1>5, <2>1, JoinedDistinct
  <2> QED BY <1>1, <1>2, <2>2
<1>7. \A i \in DOMAIN (a \o b), j \in DOMAIN c : (a \o b)[i] # c[j]
  BY <1>3, <1>6
<1> QED BY <1>4, <1>5, <1>6, <1>7, JoinedDistinct

(* What is highlighted is one command, also in a palette that is fading. *)
PaletteInv ==
  /\ x2 \in StudyList
  /\ x6 # None => Distinct(x6.list)
  /\ Palette!EnterRunsHighlighted

(* It starts closed, with nothing run. *)
LEMMA PaletteInit == Palette!Init => PaletteInv
BY DEF Palette!Init, PaletteInv, StudyList, Palette!EnterRunsHighlighted

(* So have those that are shown. *)
LEMMA ShownDistinct ==
  ASSUME PaletteInv, Palette!Visible
  PROVE  Distinct(Palette!ShownList)
BY CommandsDistinct, MatchingDistinct
   DEF PaletteInv, Palette!Visible, Palette!ShownList, Palette!filtered

(* Every step of the palette keeps its invariant. *)
LEMMA PaletteNext == PaletteInv /\ Palette!Next => PaletteInv'
<1> SUFFICES ASSUME PaletteInv, Palette!Next PROVE PaletteInv'
  OBVIOUS
<1> USE DEF PaletteInv, Palette!EnterRunsHighlighted
<1>1. CASE \E u \in {"member", "superuser"} : Palette!UserLoaded(u)
  BY <1>1 DEF Palette!UserLoaded
<1>2. CASE \E list \in {<<"study-1">>, <<"study-1", "study-2">>} : Palette!StudiesLoaded(list)
  BY <1>2 DEF Palette!StudiesLoaded, StudyList
<1>3. CASE Palette!Toggle \/ Palette!SearchTrigger \/ Palette!Dismiss
  <2>1. x2' = x2 /\ x8' = x8
    BY <1>3 DEF Palette!Toggle, Palette!SearchTrigger, Palette!Dismiss
  <2>2. x6' = None \/ x6'.list = Palette!filtered
    BY <1>3 DEF Palette!Toggle, Palette!SearchTrigger, Palette!Dismiss
  <2>3. Distinct(Palette!filtered)
    BY CommandsDistinct, MatchingDistinct DEF Palette!filtered
  <2> QED BY <2>1, <2>2, <2>3
<1>4. CASE Palette!FadedOut \/ Palette!Run
  BY <1>4 DEF Palette!FadedOut, Palette!Run, StudyList
<1>5. CASE \/ \E q \in Query : Palette!TypeQuery(q)
           \/ Palette!ArrowDown \/ Palette!ArrowUp
           \/ \E i \in DOMAIN Palette!Commands : Palette!MouseEnter(i)
  BY <1>5 DEF Palette!TypeQuery, Palette!ArrowDown, Palette!ArrowUp, Palette!MouseEnter
<1>6. CASE Palette!Enter
  <2>1. Palette!Visible /\ Palette!ShownFocus \in DOMAIN Palette!ShownList
    BY <1>6 DEF Palette!Enter
  <2>2. Distinct(Palette!ShownList)
    BY <2>1, ShownDistinct
  <2>3. \A i \in DOMAIN Palette!ShownList :
          Palette!AbsIndex(Palette!ShownList, Palette!ShownList[i]) = i
    BY <2>2 DEF Distinct, Palette!AbsIndex
  <2>4. Palette!Highlighted = {Palette!ShownFocus}
    BY <2>1, <2>3 DEF Palette!Highlighted
  <2>5. /\ x2' = x2 /\ x6' = [list |-> Palette!ShownList, focus |-> Palette!ShownFocus]
        /\ x8' = [ran |-> Palette!ShownFocus, highlighted |-> Palette!Highlighted]
    BY <1>6 DEF Palette!Enter, Palette!runCommand
  <2> QED BY <2>2, <2>4, <2>5
<1>7. CASE \E i \in DOMAIN Palette!Commands : Palette!Click(i)
  <2>1. /\ Palette!Visible /\ x2' = x2 /\ x8' = x8
        /\ x6' = [list |-> Palette!ShownList, focus |-> Palette!ShownFocus]
    BY <1>7 DEF Palette!Click, Palette!runCommand
  <2> QED BY <2>1, ShownDistinct
<1> QED BY <1>1, <1>2, <1>3, <1>4, <1>5, <1>6, <1>7 DEF Palette!Next

-----------------------------------------------------------------------------
(* Quotas *)

(* A quota whatever is in it *)
IsQuota(q) ==
  q \in [dimension : {q.dimension}, label : {q.label}, segments : {q.segments}]

Whole(q) ==
  \A j \in DOMAIN q.segments : q.segments[j].target >= 1 /\ q.segments[j].label = "text"

AllWhole(plan) == IsSeq(plan) /\ \A i \in DOMAIN plan : Whole(plan[i])

QuotasInv == AllWhole(x1) /\ AllWhole(x2) /\ IsQuota(x6)

(* The plan begins without quotas. *)
LEMMA QuotasInit == Quotas!Init => QuotasInv
<1> SUFFICES ASSUME Quotas!Init PROVE QuotasInv
  OBVIOUS
<1>1. AllWhole(<<>>)
  <2>1. \A s \in Seq({}) : IsSeq(s)
    BY SeqIsSeq
  <2>2. <<>> \in Seq({})
    OBVIOUS
  <2>3. IsSeq(<<>>)
    BY <2>1, <2>2
  <2>4. DOMAIN <<>> = {}
    OBVIOUS
  <2> QED BY <2>3, <2>4 DEF AllWhole
<1> QED
  BY <1>1 DEF Quotas!Init, QuotasInv, IsQuota, Quotas!BlankQuota, Quotas!Quota

(* What is saved from the dialog is whole. *)
LEMMA CleanedWhole ==
  ASSUME NEW q, IsQuota(q)
  PROVE  Whole(Quotas!Cleaned(q))
<1> DEFINE kept == SelectSeq(q.segments, LAMBDA s : s.label # "blank")
           t == [i \in DOMAIN kept |-> Quotas!Segment("text", Quotas!AtLeastOne(kept[i].target))]
<1>1. Quotas!Cleaned(q) = [q EXCEPT !.segments = t]
  BY DEF Quotas!Cleaned
<1> HIDE DEF kept
<1>2. \A j \in DOMAIN t : t[j].target >= 1 /\ t[j].label = "text"
  BY DEF Quotas!Segment, Quotas!AtLeastOne
<1> HIDE DEF t
<1>3. [q EXCEPT !.segments = t].segments = t
  BY DEF IsQuota
<1> QED BY <1>1, <1>2, <1>3 DEF Whole

(* No step of the dialog or the list makes a quota of the plan less whole. *)
LEMMA QuotasNext == QuotasInv /\ Quotas!Next => QuotasInv'
<1> SUFFICES ASSUME QuotasInv, Quotas!Next PROVE QuotasInv'
  OBVIOUS
<1> USE DEF QuotasInv
<1>1. ASSUME NEW i, Quotas!openQuotaDialog(i)
      PROVE QuotasInv'
  BY <1>1 DEF Quotas!openQuotaDialog, IsQuota, Quotas!BlankQuota, Quotas!Quota, Quotas!planVars
<1>2. CASE Quotas!closeQuotaDialog
  BY <1>2 DEF Quotas!closeQuotaDialog, Quotas!planVars
<1>3. ASSUME NEW i \in DOMAIN x2, Quotas!removeQuota(i)
      PROVE QuotasInv'
  <2>1. x2' = Without(x2, i)
    BY <1>3 DEF Quotas!removeQuota, Quotas!RemoveAt, Without
  <2>2. AllWhole(x2')
    BY <2>1, WithoutElement DEF AllWhole
  <2> QED BY <1>3, <2>2 DEF Quotas!removeQuota
<1>4. CASE Quotas!save
  <2> DEFINE q == Quotas!Cleaned(x6)
  <2>1. Whole(q)
    BY CleanedWhole
  <2>2. x2' = IF x4 \in DOMAIN x2 THEN [x2 EXCEPT ![x4] = q] ELSE Append(x2, q)
    BY <1>4 DEF Quotas!save, Quotas!upsertQuota
  <2> HIDE DEF q
  <2>3. AllWhole(x2')
    <3>1. CASE x4 \in DOMAIN x2
      BY <2>1, <2>2, <3>1, ChangedElement DEF AllWhole
    <3>2. CASE x4 \notin DOMAIN x2
      BY <2>1, <2>2, <3>2, AppendedElement DEF AllWhole
    <3> QED BY <3>1, <3>2
  <2> QED BY <1>4, <2>3 DEF Quotas!save, Quotas!upsertQuota
<1>5. CASE Quotas!SavePlan
  BY <1>5 DEF Quotas!SavePlan
<1>6. CASE Quotas!hydrateFromStudy
  BY <1>6 DEF Quotas!hydrateFromStudy
<1>7. ASSUME NEW d, Quotas!applyPreset(d)
      PROVE QuotasInv'
  BY <1>7 DEF Quotas!applyPreset, IsQuota, Quotas!PresetDimension, Quotas!Quota, Quotas!planVars
<1>8. ASSUME NEW q, IsQuota(q), Quotas!SetWorking(q)
      PROVE QuotasInv'
  BY <1>8 DEF Quotas!SetWorking, Quotas!planVars
<1>9. CASE Quotas!updateLabel
  BY <1>8, <1>9 DEF Quotas!updateLabel, IsQuota
<1>10. ASSUME NEW i, Quotas!updateSegmentLabel(i)
       PROVE QuotasInv'
  BY <1>8, <1>10 DEF Quotas!updateSegmentLabel, IsQuota
<1>11. ASSUME NEW i, Quotas!updateSegmentTarget(i)
       PROVE QuotasInv'
  BY <1>8, <1>11 DEF Quotas!updateSegmentTarget, IsQuota
<1>12. CASE Quotas!addSegment
  BY <1>8, <1>12 DEF Quotas!addSegment, IsQuota
<1>13. ASSUME NEW i, Quotas!removeSegment(i)
       PROVE QuotasInv'
  BY <1>8, <1>13 DEF Quotas!removeSegment, IsQuota
<1> QED
  BY <1>1, <1>2, <1>3, <1>4, <1>5, <1>6, <1>7, <1>9, <1>10, <1>11, <1>12, <1>13
     DEF Quotas!Next, Quotas!QuotaDialog, Quotas!QuotaList, Quotas!QuotaRow

-----------------------------------------------------------------------------
(* The app's windows *)

IsFun(f) == f \in [Window -> {f[w] : w \in Window}]

IsPanel(p) == p \in [tab : {p.tab}, isOpen : {p.isOpen}, width : {p.width}]

IsStorage(s) ==
  /\ s \in [recent : {s.recent}, collapsed : {s.collapsed}, panel : {s.panel},
            locale : {s.locale}]
  /\ IsPanel(s.panel)

(* The panel, and its handle, is on the screen. *)
Handle(user, place, panel) ==
  place \notin {"crashed", "login", "missing"} /\ user = "member" /\ panel.isOpen

(* What is dragged in a window is there to be dragged. *)
WindowOk(user, place, panel, drag, loaded) ==
  /\ IsPanel(panel) /\ IsPanel(loaded.panel)
  /\ drag # None => Handle(user, place, panel)

ShellInv ==
  /\ IsFun(x2) /\ IsFun(x3) /\ IsFun(x6) /\ IsFun(x7) /\ IsFun(x11)
  /\ \A w \in Window : WindowOk(x2[w], x3[w], x6[w], x7[w], x11[w])
  /\ IsStorage(x9)

(* A handle is on the screen when the app is shown with its panel open. *)
LEMMA HandleShown ==
  \A w : Handle(x2[w], x3[w], x6[w]) <=> Shell!Shown(w) /\ x6[w].isOpen
BY DEF Handle, Shell!Shown, Shell!Rendered, Shell!pickLayout, Shell!sceneConfigs, Shell!Plain,
   Shell!Login, Shell!Missing, Shell!Crashed

(* Nothing is dragged to begin with. *)
LEMMA ShellInit == Shell!Init => ShellInv
<1> SUFFICES ASSUME Shell!Init PROVE ShellInv
  OBVIOUS
<1>1. /\ x9 \in [recent : {<<>>, Earlier}, collapsed : {FALSE}, panel : {Shell!Closed},
                 locale : {None}]
      /\ x2 = [w \in Window |-> "loading"]
      /\ x3 \in [Window -> {"login", "missing", "elsewhere"}]
      /\ x6 = [w \in Window |-> Shell!Closed] /\ x7 = [w \in Window |-> None]
      /\ x11 = [w \in Window |-> [recent |-> x9.recent, collapsed |-> FALSE,
                                  panel |-> Shell!Closed, began |-> x3[w]]]
  BY DEF Shell!Init, Shell!Login, Shell!Missing, Shell!Elsewhere
<1>2. IsPanel(Shell!Closed)
  BY DEF IsPanel, Shell!Closed
<1>3. IsStorage(x9)
  BY <1>1, <1>2 DEF IsStorage
<1>4. IsFun(x2) /\ IsFun(x3) /\ IsFun(x6) /\ IsFun(x7) /\ IsFun(x11)
  BY <1>1 DEF IsFun
<1>5. \A w \in Window : WindowOk(x2[w], x3[w], x6[w], x7[w], x11[w])
  BY <1>1, <1>2 DEF WindowOk
<1> QED BY <1>3, <1>4, <1>5 DEF ShellInv

(* g is what f was, but for a window. *)
OnlyFor(w, f, g) == IsFun(g) /\ \A u \in Window \ {w} : g[u] = f[u]

(* That is so of what is set for that window, or not changed. *)
LEMMA SetFor ==
  ASSUME NEW f, IsFun(f), NEW w \in Window, NEW v
  PROVE  /\ OnlyFor(w, f, [f EXCEPT ![w] = v]) /\ [f EXCEPT ![w] = v][w] = v
         /\ OnlyFor(w, f, f)
BY DEF IsFun, OnlyFor

(* A step is one window's, which it leaves as it should be. *)
ShellStep(w) ==
  /\ OnlyFor(w, x2, x2') /\ OnlyFor(w, x3, x3') /\ OnlyFor(w, x6, x6')
  /\ OnlyFor(w, x7, x7') /\ OnlyFor(w, x11, x11')
  /\ WindowOk(x2'[w], x3'[w], x6'[w], x7'[w], x11'[w])
  /\ IsStorage(x9')

(* A document that is loaded has nothing dragged. *)
LEMMA LoadsDocument ==
  ASSUME ShellInv, NEW w \in Window, NEW p, Shell!LoadDocument(w, p)
  PROVE  ShellStep(w)
<1> DEFINE panel == [x9.panel EXCEPT !.width = Shell!Clamped(x9.panel.width)]
           loaded == [recent |-> x9.recent, collapsed |-> x9.collapsed,
                      panel |-> panel, began |-> p]
<1>1. /\ x2' = [x2 EXCEPT ![w] = "loading"] /\ x3' = [x3 EXCEPT ![w] = p]
      /\ x6' = [x6 EXCEPT ![w] = panel] /\ x7' = [x7 EXCEPT ![w] = None]
      /\ x11' = [x11 EXCEPT ![w] = loaded] /\ x9' = x9
  BY DEF Shell!LoadDocument, Shell!Fresh, Shell!HandleGone
<1>2. IsPanel(panel) /\ loaded.panel = panel
  BY DEF ShellInv, IsStorage, IsPanel
<1> HIDE DEF panel, loaded
<1>3. /\ OnlyFor(w, x2, x2') /\ OnlyFor(w, x3, x3') /\ OnlyFor(w, x6, x6')
      /\ OnlyFor(w, x7, x7') /\ OnlyFor(w, x11, x11')
  BY <1>1, SetFor DEF ShellInv
<1>4. x6'[w] = panel /\ x7'[w] = None /\ x11'[w] = loaded
  BY <1>1, SetFor DEF ShellInv
<1>5. WindowOk(x2'[w], x3'[w], x6'[w], x7'[w], x11'[w])
  BY <1>2, <1>4 DEF WindowOk
<1> QED BY <1>1, <1>3, <1>5 DEF ShellStep, ShellInv

(* When the sidebar is unmounted, its handle goes with it. *)
LEMMA Unmounts ==
  ASSUME ShellInv, NEW w \in Window, NEW p, Shell!Unmounted(w),
         x3' = [x3 EXCEPT ![w] = p], UNCHANGED <<x2, x9, x11>>
  PROVE  ShellStep(w)
<1> DEFINE panel == x11[w].panel
<1>1. x6' = [x6 EXCEPT ![w] = panel] /\ x7' = [x7 EXCEPT ![w] = None]
  BY DEF Shell!Unmounted, Shell!Fresh, Shell!HandleGone
<1>5. IsPanel(panel)
  BY DEF ShellInv, WindowOk
<1> HIDE DEF panel
<1>6. OnlyFor(w, x2, x2') /\ OnlyFor(w, x3, x3') /\ OnlyFor(w, x11, x11')
  BY SetFor DEF ShellInv
<1>2. OnlyFor(w, x6, x6') /\ OnlyFor(w, x7, x7')
  BY <1>1, SetFor DEF ShellInv
<1>3. x6'[w] = panel /\ x7'[w] = None /\ x11'[w] = x11[w]
  BY <1>1, SetFor DEF ShellInv
<1>4. WindowOk(x2'[w], x3'[w], x6'[w], x7'[w], x11'[w])
  BY <1>3, <1>5 DEF WindowOk, ShellInv
<1> QED BY <1>2, <1>4, <1>6 DEF ShellStep, ShellInv

(* A panel that stays open, or whose handle goes, is written. *)
LEMMA SetsPanel ==
  ASSUME ShellInv, NEW w \in Window, NEW p, IsPanel(p), Shell!SetPanel(w, p),
         UNCHANGED <<x2, x3, x11>>,
         \/ x7' = x7 /\ (x7[w] # None => p.isOpen)
         \/ x7' = [x7 EXCEPT ![w] = None]
  PROVE  ShellStep(w)
<1>1. x6' = [x6 EXCEPT ![w] = p] /\ x9' = [x9 EXCEPT !.panel = p]
  BY DEF Shell!SetPanel
<1>2. /\ OnlyFor(w, x2, x2') /\ OnlyFor(w, x3, x3') /\ OnlyFor(w, x6, x6')
      /\ OnlyFor(w, x7, x7') /\ OnlyFor(w, x11, x11')
  <2>1. OnlyFor(w, x2, x2') /\ OnlyFor(w, x3, x3') /\ OnlyFor(w, x11, x11')
    BY SetFor DEF ShellInv
  <2>2. OnlyFor(w, x6, x6')
    BY <1>1, SetFor DEF ShellInv
  <2>3. CASE x7' = x7
    BY <2>1, <2>2, <2>3, SetFor DEF ShellInv
  <2>4. CASE x7' = [x7 EXCEPT ![w] = None]
    BY <2>1, <2>2, <2>4, SetFor DEF ShellInv
  <2> QED BY <2>3, <2>4
<1>3. x6'[w] = p /\ (x7'[w] # None => x7[w] # None /\ p.isOpen)
  BY <1>1, SetFor DEF ShellInv
<1>4. WindowOk(x2'[w], x3'[w], x6'[w], x7'[w], x11'[w])
  BY <1>3 DEF WindowOk, ShellInv, Handle
<1>5. IsStorage(x9')
  BY <1>1 DEF IsStorage, ShellInv
<1> QED BY <1>2, <1>4, <1>5 DEF ShellStep

(* What changes neither panel nor handle, nor the place of a panel that is *)
(* shown, does not matter to it.                                           *)
LEMMA LeavesPanel ==
  ASSUME ShellInv, NEW w \in Window, UNCHANGED <<x6, x11>>, IsStorage(x9'),
         OnlyFor(w, x2, x2'), OnlyFor(w, x3, x3'), OnlyFor(w, x7, x7'),
         x7'[w] # None => Handle(x2'[w], x3'[w], x6[w])
  PROVE  ShellStep(w)
<1>1. OnlyFor(w, x6, x6') /\ OnlyFor(w, x11, x11')
  BY SetFor DEF ShellInv
<1>2. WindowOk(x2'[w], x3'[w], x6'[w], x7'[w], x11'[w])
  BY DEF WindowOk, ShellInv
<1> QED BY <1>1, <1>2 DEF ShellStep

(* From a scene to a scene, the panel stays. *)
LEMMA GoesTo ==
  ASSUME ShellInv, NEW w \in Window, NEW p, p \notin {"crashed", "login", "missing"},
         Shell!Goto(w, p)
  PROVE  ShellStep(w)
<1>1. UNCHANGED <<x2, x6, x7, x11>> /\ x3' = [x3 EXCEPT ![w] = p]
  BY DEF Shell!Goto, Shell!accountVars
<1>2. \/ x9' = x9
      \/ \E next : x9' = [x9 EXCEPT !.recent = next]
  BY DEF Shell!Goto, Shell!SceneSet, Shell!touchStudy
<1>3. IsStorage(x9')
  BY <1>2 DEF ShellInv, IsStorage
<1>4. OnlyFor(w, x2, x2') /\ OnlyFor(w, x3, x3') /\ OnlyFor(w, x7, x7') /\ x3'[w] = p
  BY <1>1, SetFor DEF ShellInv
<1>5. x7'[w] # None => Handle(x2'[w], x3'[w], x6[w])
  BY <1>1, <1>4 DEF ShellInv, WindowOk, Handle
<1> QED BY <1>1, <1>3, <1>4, <1>5, LeavesPanel

(* A study, or another scene, is none of the other places. *)
LEMMA AppPlaces ==
  \A p \in Shell!App \cup Listed : p \notin {"crashed", "login", "missing"}
BY PartsAssumption DEF Shell!App, Shell!Elsewhere

(* Each step of the shell is a window's. *)
LEMMA ShellSteps == ASSUME ShellInv, Shell!Next PROVE \E w \in Window : ShellStep(w)
<1> PICK w \in Window :
      \/ Shell!toggleCollapsed(w) \/ Shell!toggleSidePanel(w) \/ Shell!closeSidePanel(w)
      \/ \E key \in {"/", "."} : Shell!OnKeyDown(w, key)
      \/ Shell!NavLink(w) \/ \E study \in Listed : Shell!PinnedStudyRow(w, study)
      \/ Shell!MouseDown(w) \/ Shell!MouseUp(w)
      \/ \E locale \in Shell!Locale : Shell!LocaleSection(w, locale)
      \/ \E width \in DragTo : Shell!MouseMove(w, width)
      \/ \E p : Shell!Visit(w, p) \/ Shell!Reload(w, p)
      \/ Shell!BackOut(w) \/ \E p \in Shell!App : Shell!Navigate(w, p) \/ Shell!EnterApp(w, p)
      \/ Shell!SceneThrows(w) \/ Shell!lazyForScene(w)
      \/ \E b \in BOOLEAN :
           Shell!UserLoaded(w, b) \/ Shell!submitLogin(w, b) \/ Shell!handleSignOut(w, b)
  BY DEF Shell!Next
<1> SUFFICES ShellStep(w)
  OBVIOUS
<1>0. /\ OnlyFor(w, x2, x2) /\ OnlyFor(w, x3, x3) /\ OnlyFor(w, x7, x7)
      /\ WindowOk(x2[w], x3[w], x6[w], x7[w], x11[w]) /\ IsStorage(x9)
  BY SetFor DEF ShellInv
<1>1. CASE Shell!toggleCollapsed(w)
  <2>1. UNCHANGED <<x2, x3, x6, x7, x11>> /\ \E c : x9' = [x9 EXCEPT !.collapsed = c]
    BY <1>1 DEF Shell!toggleCollapsed, Shell!SetCollapsed, Shell!accountVars
  <2>2. IsStorage(x9')
    BY <1>0, <2>1 DEF IsStorage
  <2> QED BY <1>0, <2>1, <2>2, LeavesPanel DEF WindowOk
<1>2. CASE Shell!toggleSidePanel(w)
  <2> DEFINE closed == [x6[w] EXCEPT !.isOpen = FALSE]
             opened == [x6[w] EXCEPT !.tab = "ask", !.isOpen = TRUE]
  <2>1. IsPanel(closed) /\ ~closed.isOpen /\ IsPanel(opened) /\ opened.isOpen
    BY <1>0 DEF WindowOk, IsPanel
  <2>2. UNCHANGED <<x2, x3, x11>>
    BY <1>2 DEF Shell!toggleSidePanel, Shell!accountVars
  <2>3. \/ Shell!SetPanel(w, closed) /\ x7' = [x7 EXCEPT ![w] = None]
        \/ Shell!SetPanel(w, opened) /\ x7' = x7
    BY <1>2, <2>1 DEF Shell!toggleSidePanel, Shell!HandleGone
  <2> HIDE DEF closed, opened
  <2> QED BY <2>1, <2>2, <2>3, SetsPanel
<1>3. CASE Shell!closeSidePanel(w)
  <2> DEFINE closed == [x6[w] EXCEPT !.isOpen = FALSE]
  <2>1. IsPanel(closed)
    BY <1>0 DEF WindowOk, IsPanel
  <2>2. UNCHANGED <<x2, x3, x11>> /\ Shell!SetPanel(w, closed) /\ x7' = [x7 EXCEPT ![w] = None]
    BY <1>3 DEF Shell!closeSidePanel, Shell!accountVars, Shell!HandleGone
  <2> HIDE DEF closed
  <2> QED BY <2>1, <2>2, SetsPanel
<1>4. ASSUME NEW key \in {"/", "."}, Shell!OnKeyDown(w, key)
      PROVE ShellStep(w)
  BY <1>1, <1>2, <1>4 DEF Shell!OnKeyDown
<1>5. CASE Shell!NavLink(w)
  <2>1. "elsewhere" \notin {"crashed", "login", "missing"}
    OBVIOUS
  <2> QED BY <1>5, <2>1, GoesTo DEF Shell!NavLink, Shell!Elsewhere
<1>6. ASSUME NEW study \in Listed, Shell!PinnedStudyRow(w, study)
      PROVE ShellStep(w)
  BY <1>6, GoesTo, AppPlaces DEF Shell!PinnedStudyRow
<1>7. ASSUME NEW p \in Shell!App, Shell!Navigate(w, p)
      PROVE ShellStep(w)
  BY <1>7, GoesTo, AppPlaces DEF Shell!Navigate
<1>8. ASSUME NEW p, Shell!Visit(w, p) \/ Shell!Reload(w, p)
      PROVE ShellStep(w)
  BY <1>8, LoadsDocument DEF Shell!Visit, Shell!Reload
<1>9. ASSUME NEW b, Shell!submitLogin(w, b) \/ Shell!handleSignOut(w, b)
      PROVE ShellStep(w)
  <2>1. UNCHANGED Shell!vars \/ \E p : Shell!LoadDocument(w, p)
    BY <1>9 DEF Shell!submitLogin, Shell!handleSignOut
  <2>2. CASE UNCHANGED Shell!vars
    <3>1. UNCHANGED <<x2, x3, x6, x7, x9, x11>>
      BY <2>2 DEF Shell!vars, Shell!accountVars, Shell!sidebarVars
    <3> QED BY <1>0, <3>1, LeavesPanel DEF WindowOk
  <2> QED BY <2>1, <2>2, LoadsDocument
<1>10. ASSUME NEW locale \in Shell!Locale, Shell!LocaleSection(w, locale)
       PROVE ShellStep(w)
  <2>1. UNCHANGED <<x2, x3, x6, x7, x11>> /\ x9' = [x9 EXCEPT !.locale = locale]
    BY <1>10 DEF Shell!LocaleSection, Shell!setLocale, Shell!accountVars, Shell!sidebarVars
  <2>2. IsStorage(x9')
    BY <1>0, <2>1 DEF IsStorage
  <2> QED BY <1>0, <2>1, <2>2, LeavesPanel DEF WindowOk
<1>11. ASSUME NEW width \in DragTo, Shell!MouseMove(w, width)
       PROVE ShellStep(w)
  <2> DEFINE p == [x6[w] EXCEPT !.width = Shell!Clamped(width)]
  <2>1. IsPanel(p) /\ p.isOpen = x6[w].isOpen
    BY <1>0 DEF WindowOk, IsPanel
  <2>2. UNCHANGED <<x2, x3, x7, x11>> /\ Shell!SetPanel(w, p)
    BY <1>11 DEF Shell!MouseMove, Shell!accountVars
  <2>3. x7[w] # None => p.isOpen
    BY <1>0, <2>1 DEF WindowOk, Handle
  <2> HIDE DEF p
  <2> QED BY <2>1, <2>2, <2>3, SetsPanel
<1>12. CASE Shell!MouseDown(w)
  <2>1. UNCHANGED <<x2, x3, x6, x9, x11>> /\ x7' = [x7 EXCEPT ![w] = x6[w].width]
    BY <1>12 DEF Shell!MouseDown, Shell!accountVars, Shell!sidebarVars
  <2>2. Handle(x2[w], x3[w], x6[w])
    BY <1>12, HandleShown DEF Shell!MouseDown
  <2>3. OnlyFor(w, x7, x7')
    BY <2>1, SetFor DEF ShellInv
  <2> QED BY <1>0, <2>1, <2>2, <2>3, LeavesPanel
<1>13. CASE Shell!MouseUp(w)
  <2>1. UNCHANGED <<x2, x3, x6, x9, x11>> /\ x7' = [x7 EXCEPT ![w] = None]
    BY <1>13 DEF Shell!MouseUp, Shell!accountVars, Shell!sidebarVars
  <2>2. OnlyFor(w, x7, x7') /\ x7'[w] = None
    BY <2>1, SetFor DEF ShellInv
  <2> QED BY <1>0, <2>1, <2>2, LeavesPanel
<1>14. CASE Shell!BackOut(w) \/ Shell!SceneThrows(w) \/ Shell!lazyForScene(w)
  <2>1. /\ Shell!Unmounted(w) /\ UNCHANGED <<x2, x9, x11>>
        /\ \E p : x3' = [x3 EXCEPT ![w] = p]
    BY <1>14 DEF Shell!BackOut, Shell!SceneThrows, Shell!lazyForScene, Shell!accountVars
  <2> QED BY <2>1, Unmounts
<1>15. ASSUME NEW p, Shell!EnterApp(w, p)
       PROVE ShellStep(w)
  <2>1. PICK q : UNCHANGED <<x2, x6, x7, x9, x11>> /\ x3' = [x3 EXCEPT ![w] = q]
    BY <1>15 DEF Shell!EnterApp, Shell!accountVars, Shell!sidebarVars
  <2>2. OnlyFor(w, x3, x3')
    BY <2>1, SetFor DEF ShellInv
  <2>3. x7[w] = None
    BY <1>0, <1>15 DEF Shell!EnterApp, Shell!Plain, Shell!Login, Shell!Missing, WindowOk, Handle
  <2> QED BY <1>0, <2>1, <2>2, <2>3, LeavesPanel
<1>16. ASSUME NEW b, Shell!UserLoaded(w, b)
       PROVE ShellStep(w)
  <2>1. PICK u, q : /\ UNCHANGED <<x6, x7, x9, x11>>
                    /\ x2' = [x2 EXCEPT ![w] = u] /\ x3' = [x3 EXCEPT ![w] = q]
    BY <1>16 DEF Shell!UserLoaded, Shell!sidebarVars
  <2>2. OnlyFor(w, x2, x2') /\ OnlyFor(w, x3, x3')
    BY <2>1, SetFor DEF ShellInv
  <2>3. x7[w] = None
    BY <1>0, <1>16 DEF Shell!UserLoaded, WindowOk, Handle
  <2> QED BY <1>0, <2>1, <2>2, <2>3, LeavesPanel
<1> QED
  BY <1>1, <1>2, <1>3, <1>4, <1>5, <1>6, <1>7, <1>8, <1>9, <1>10, <1>11, <1>12, <1>13, <1>14,
     <1>15, <1>16

(* So nothing is ever dragged but a handle on the screen. *)
LEMMA ShellNext == ShellInv /\ Shell!Next => ShellInv'
<1> SUFFICES ASSUME ShellInv, Shell!Next PROVE ShellInv'
  OBVIOUS
<1>1. PICK w \in Window : ShellStep(w)
  BY ShellSteps
<1>2. IsFun(x2') /\ IsFun(x3') /\ IsFun(x6') /\ IsFun(x7') /\ IsFun(x11')
  BY <1>1 DEF ShellStep, OnlyFor
<1>3. ASSUME NEW u \in Window
      PROVE WindowOk(x2'[u], x3'[u], x6'[u], x7'[u], x11'[u])
  <2>1. CASE u = w
    BY <1>1, <2>1 DEF ShellStep
  <2>2. CASE u # w
    <3>1. x2'[u] = x2[u] /\ x3'[u] = x3[u] /\ x6'[u] = x6[u] /\ x7'[u] = x7[u] /\ x11'[u] = x11[u]
      BY <1>1, <2>2 DEF ShellStep, OnlyFor
    <3> QED BY <3>1 DEF ShellInv
  <2> QED BY <2>1, <2>2
<1> QED BY <1>1, <1>2, <1>3 DEF ShellInv, ShellStep

-----------------------------------------------------------------------------
(* The sessions of a study *)

(* A list that is loading is one of the tab that is open; a request in     *)
(* flight may bring it.                                                    *)
SessionsInv ==
  /\ x4 \in [link : {x4.link}, copied : {x4.copied}]
  /\ x5 \in [rows : {x5.rows}, loading : BOOLEAN] /\ (x5.loading => x3 = "sessions")
  /\ x7 \in [rows : {x7.rows}, loading : BOOLEAN] /\ (x7.loading => x3 = "recruit")
  /\ x8 \in [of : {x8.of}, session : {x8.session}, loading : BOOLEAN, error : BOOLEAN,
             copied : {x8.copied}]
  /\ \A c \in x9 : c.by \in {"share", "transcript"}
  /\ x10 \in [{"share", "transcript"} -> Nat]
  /\ \A q \in x11 : q \in [id : {q.id}, kind : {q.kind}, answer : {q.answer}]
  /\ Sessions!NothingHangs

(* Nothing loads to begin with. *)
LEMMA SessionsInit == Sessions!Init => SessionsInv
BY DEF Sessions!Init, SessionsInv, Sessions!NoPanel, Sessions!NotLoaded, Sessions!NoBroadcasts,
   Sessions!NoTranscript, Sessions!NothingHangs

(* Asking for something puts requests for it in flight. *)
LEMMA SessionsAsked ==
  ASSUME SessionsInv, NEW kinds, Sessions!Asked(kinds)
  PROVE  /\ \A q \in x11' : q \in [id : {q.id}, kind : {q.kind}, answer : {q.answer}]
         /\ \A q \in x11 : q \in x11'
         /\ \A k \in kinds : \E q \in x11' : q.kind = k
<1> DEFINE i == CHOOSE n \in 1 .. MaxSessionRequests : \A q \in x11 : q.id # n
           new(k) == [id |-> i, kind |-> k, answer |-> None]
<1>1. x11' = x11 \cup {new(k) : k \in kinds}
  BY DEF Sessions!Asked
<1> HIDE DEF i
<1>2. \A k : new(k) \in [id : {new(k).id}, kind : {new(k).kind}, answer : {new(k).answer}]
             /\ new(k).kind = k
  OBVIOUS
<1> HIDE DEF new
<1> QED BY <1>1, <1>2 DEF SessionsInv

(* Answering takes the loading back where it was shown. *)
LEMMA SessionsSettled ==
  ASSUME SessionsInv, NEW q \in x11, NEW ok \in BOOLEAN, Sessions!Settled(q, ok),
         x11' = x11 \ {q}, UNCHANGED <<x1, x2, x3, x4, x6, x9, x10>>
  PROVE  SessionsInv'
<1>1. /\ x5' \in [rows : {x5'.rows}, loading : BOOLEAN]
      /\ x5'.loading => x5.loading /\ q.kind # "sessions"
  BY DEF Sessions!Settled, Sessions!Loaded, SessionsInv
<1>2. /\ x7' \in [rows : {x7'.rows}, loading : BOOLEAN]
      /\ x7'.loading => x7.loading /\ q.kind # "broadcasts"
  BY DEF Sessions!Settled, Sessions!Loaded, SessionsInv
<1>3. /\ x8' \in [of : {x8'.of}, session : {x8'.session}, loading : BOOLEAN, error : BOOLEAN,
                  copied : {x8'.copied}]
      /\ x8'.of = x8.of /\ x8'.copied = x8.copied
      /\ x8'.loading => x8.loading /\ q.kind # "transcript"
  BY DEF Sessions!Settled, Sessions!Fetched, SessionsInv
<1> QED BY <1>1, <1>2, <1>3 DEF SessionsInv, Sessions!NothingHangs

(* No step leaves something loading, or said to be copied, for ever. *)
LEMMA SessionsNext == SessionsInv /\ Sessions!Next => SessionsInv'
<1> SUFFICES ASSUME SessionsInv, Sessions!Next PROVE SessionsInv'
  OBVIOUS
<1> USE DEF SessionsInv, Sessions!NothingHangs, Sessions!NoPanel, Sessions!NotLoaded,
            Sessions!NoBroadcasts, Sessions!NoTranscript, Sessions!pageVars, Sessions!copyVars
<1>1. ASSUME NEW s, NEW t \in {"sessions", "recruit", "brief"}, Sessions!OpenStudy(s, t)
      PROVE SessionsInv'
  <2>1. x3' = t /\ UNCHANGED <<x1, x4, x8, x9, x10>>
    BY <1>1 DEF Sessions!OpenStudy
  <2>2. CASE t = "sessions"
    <3>1. /\ Sessions!Asked({"sessions"})
          /\ x5' = [rows |-> IF x3 = t THEN x5.rows ELSE {}, loading |-> TRUE]
          /\ x7' = [rows |-> {}, loading |-> FALSE]
      BY <1>1, <2>2 DEF Sessions!OpenStudy
    <3> QED BY <2>1, <2>2, <3>1, SessionsAsked
  <2>3. CASE t = "recruit" /\ x3 # t
    <3>1. /\ Sessions!Asked({"broadcasts"})
          /\ x5' = [rows |-> {}, loading |-> FALSE]
          /\ x7' = [rows |-> {}, loading |-> TRUE]
      BY <1>1, <2>3 DEF Sessions!OpenStudy
    <3> QED BY <2>1, <2>3, <3>1, SessionsAsked
  <2>4. CASE t # "sessions" /\ ~(t = "recruit" /\ x3 # t)
    <3>1. /\ x5' = [rows |-> {}, loading |-> FALSE] /\ x11' = x11
          /\ x7' = IF t = x3 THEN x7 ELSE [rows |-> {}, loading |-> FALSE]
      BY <1>1, <2>4 DEF Sessions!OpenStudy
    <3> QED BY <2>1, <2>4, <3>1
  <2> QED BY <2>2, <2>3, <2>4
<1>2. ASSUME NEW s, Sessions!StudyShown(s)
      PROVE SessionsInv'
  BY <1>2 DEF Sessions!StudyShown
<1>3. CASE Sessions!LeaveStudy
  BY <1>3 DEF Sessions!LeaveStudy
<1>4. CASE Sessions!Launched
  <2>1. /\ Sessions!Asked({"broadcasts"}) /\ x3 = "recruit"
        /\ x7' = [x7 EXCEPT !.loading = TRUE]
        /\ UNCHANGED <<x2, x3, x4, x5, x6, x8, x9, x10>>
    BY <1>4 DEF Sessions!Launched
  <2> QED BY <2>1, SessionsAsked
<1>5. CASE Sessions!BackToSessions
  BY <1>5 DEF Sessions!BackToSessions, Sessions!NewDocument
<1>6. CASE Sessions!LeaveTranscript
  BY <1>6 DEF Sessions!LeaveTranscript
<1>7. ASSUME NEW row, Sessions!OpenTranscript(row)
      PROVE SessionsInv'
  BY <1>7 DEF Sessions!OpenTranscript, Sessions!NewDocument
<1>8. CASE Sessions!CopyLink \/ Sessions!CopyTranscript
  BY <1>8 DEF Sessions!CopyLink, Sessions!CopyTranscript, Sessions!Copying
<1>9. ASSUME NEW column, Sessions!ToggleSorting(column)
      PROVE SessionsInv'
  <2>1. UNCHANGED <<x1, x2, x3, x4, x5, x7, x8, x9, x10, x11>>
    BY <1>9 DEF Sessions!ToggleSorting
  <2> QED BY <2>1
<1>10. ASSUME NEW found, Sessions!SetQuery(found)
       PROVE SessionsInv'
  <2>1. UNCHANGED <<x1, x2, x3, x4, x5, x7, x8, x9, x10, x11>>
    BY <1>10 DEF Sessions!SetQuery
  <2> QED BY <2>1
<1>11. ASSUME NEW c \in x9, Sessions!Copied(c)
       PROVE SessionsInv'
  <2>1. /\ x10' = [x10 EXCEPT ![c.by] = @ + 1]
        /\ x4' = IF c.by = "share" /\ x4.link # None THEN [x4 EXCEPT !.copied = c.text] ELSE x4
        /\ x8' = IF c.by = "transcript" /\ x8.of # None THEN [x8 EXCEPT !.copied = c.text] ELSE x8
        /\ x9' = x9 \ {c} /\ UNCHANGED <<x1, x2, x3, x5, x6, x7, x11>>
    BY <1>11 DEF Sessions!Copied
  <2>2. c.by \in {"share", "transcript"}
    OBVIOUS
  <2>3. /\ x10' \in [{"share", "transcript"} -> Nat] /\ x10'[c.by] > 0
        /\ \A d \in {"share", "transcript"} : x10[d] > 0 => x10'[d] > 0
    BY <2>1, <2>2
  <2> QED BY <2>1, <2>2, <2>3
<1>12. ASSUME NEW c \in x9, Sessions!CopyRefused(c)
       PROVE SessionsInv'
  BY <1>12 DEF Sessions!CopyRefused
<1>13. ASSUME NEW c \in DOMAIN x10, Sessions!TimerFires(c)
       PROVE SessionsInv'
  BY <1>13 DEF Sessions!TimerFires
<1>14. ASSUME NEW q \in x11, Sessions!Serve(q)
       PROVE SessionsInv'
  <2> DEFINE x == CASE q.kind = "sessions" -> {Sessions!Row(s) : s \in Session}
                    [] q.kind = "broadcasts" -> x1.sent
                    [] q.kind = "transcript" -> Sessions!Row(x8.of)
  <2>1. /\ x11' = (x11 \ {q}) \cup {[q EXCEPT !.answer = x]}
        /\ UNCHANGED <<x3, x4, x5, x7, x8, x9, x10>>
    BY <1>14 DEF Sessions!Serve
  <2> HIDE DEF x
  <2>2. PICK p : p = [q EXCEPT !.answer = x]
    OBVIOUS
  <2>3. p \in [id : {p.id}, kind : {p.kind}, answer : {p.answer}] /\ p.kind = q.kind
    BY <2>2
  <2>4. x11' = (x11 \ {q}) \cup {p}
    BY <2>1, <2>2
  <2> QED BY <2>1, <2>3, <2>4
<1>15. ASSUME NEW q \in x11, Sessions!Answered(q) \/ Sessions!Failed(q)
       PROVE SessionsInv'
  <2>1. /\ \E ok \in BOOLEAN : Sessions!Settled(q, ok)
        /\ x11' = x11 \ {q} /\ UNCHANGED <<x1, x2, x3, x4, x6, x9, x10>>
    BY <1>15 DEF Sessions!Answered, Sessions!Failed
  <2> QED BY <2>1, SessionsSettled
<1>16. ASSUME NEW s, Sessions!SessionEnds(s)
       PROVE SessionsInv'
  BY <1>16 DEF Sessions!SessionEnds
<1> QED
  BY <1>1, <1>2, <1>3, <1>4, <1>5, <1>6, <1>7, <1>8, <1>9, <1>10, <1>11, <1>12, <1>13, <1>14,
     <1>15, <1>16 DEF Sessions!Next

-----------------------------------------------------------------------------
(* The inbox *)

IsRequest(r) ==
  r \in [id : {r.id}, item : {r.item}, stage : {r.stage}, answer : {r.answer}]

(* What is marked, listed after a mark or answered is about items there    *)
(* are, and an item that was marked has been read by somebody.             *)
RequestFits(r, stored) ==
  /\ IsRequest(r)
  /\ r.item = None \/ r.item \in DOMAIN stored
  /\ r.stage \in {"mark", "marking"} => r.item \in DOMAIN stored
  /\ r.stage = "marking" /\ r.answer # {} => stored[r.item] # {}
  /\ r.stage = "list" /\ r.item # None => stored[r.item] # {}
  /\ r.stage = "listed" =>
       DOMAIN r.answer \subseteq DOMAIN stored /\ r.item \notin Unread!Unread(r.answer)

InboxInv ==
  /\ x1 \in [DOMAIN x1 -> {x1[i] : i \in DOMAIN x1}]
  /\ IsFiniteSet(DOMAIN x1) /\ DOMAIN x1 \subseteq Nat
  /\ x2 # None => x2.item \in DOMAIN x1
  /\ DOMAIN x4 \subseteq DOMAIN x1
  /\ \A r \in x6 : RequestFits(r, x1)
  /\ x3 # None /\ x5 => x6 # {}

(* Inbox counts as the library does. *)
LEMMA InboxCounts == \A S : Unread!Cardinality(S) = Cardinality(S)
BY Zenon DEF Unread!Cardinality, Cardinality

(* Nothing was written. *)
LEMMA InboxInit == Unread!Init => InboxInv
<1> SUFFICES ASSUME Unread!Init PROVE InboxInv
  OBVIOUS
<1>1. x1 = [i \in {} |-> {}] /\ x4 = [i \in {} |-> {}] /\ x2 = None /\ x3 = None /\ x6 = {}
  BY DEF Unread!Init, Unread!Empty
<1>2. DOMAIN x1 = {} /\ DOMAIN x4 = {}
  BY <1>1
<1> QED BY <1>1, <1>2, FS_EmptySet DEF InboxInv

(* Items do not go, and what was read stays read. *)
Grown(old, new) ==
  /\ DOMAIN old \subseteq DOMAIN new
  /\ \A i \in DOMAIN old : old[i] # {} => new[i] # {}

(* A request that fits the items does so when more of them are read. *)
LEMMA StillFits ==
  ASSUME NEW r, NEW old, NEW new, RequestFits(r, old), Grown(old, new)
  PROVE  RequestFits(r, new)
BY DEF RequestFits, Grown

(* Reading an item reads it. *)
LEMMA ReadGrows ==
  ASSUME NEW old, old \in [DOMAIN old -> {old[i] : i \in DOMAIN old}], NEW i \in DOMAIN old,
         NEW readers, readers # {}, NEW new, IsPut(new, old, i, readers)
  PROVE  /\ Grown(old, new) /\ new[i] = readers /\ DOMAIN new = DOMAIN old
         /\ new \in [DOMAIN old -> {new[j] : j \in DOMAIN old}]
BY DEF Grown, IsPut

(* A stage a request may be in after another *)
Becoming(r, stage, answer) == [r EXCEPT !.stage = stage, !.answer = answer]

(* It is still about its item. *)
LEMMA BecomingFields ==
  ASSUME NEW r, IsRequest(r), NEW stage, NEW answer
  PROVE  /\ IsRequest(Becoming(r, stage, answer))
         /\ Becoming(r, stage, answer).item = r.item
         /\ Becoming(r, stage, answer).stage = stage
         /\ Becoming(r, stage, answer).answer = answer
BY DEF IsRequest, Becoming

(* Sending puts one request in flight. *)
LEMMA InboxSent ==
  ASSUME NEW r, IsRequest(r), Unread!Send(r)
  PROVE  \E q : /\ x6' = x6 \cup {q} /\ IsRequest(q)
                /\ q.item = r.item /\ q.stage = r.stage /\ q.answer = r.answer
<1> DEFINE n == Unread!Min({k \in 1 .. MaxInboxRequests : \A q \in x6 : q.id # k})
           q == [r EXCEPT !.id = n]
<1>1. x6' = x6 \cup {q}
  BY DEF Unread!Send
<1> HIDE DEF n
<1>2. IsRequest(q) /\ q.item = r.item /\ q.stage = r.stage /\ q.answer = r.answer
  BY DEF IsRequest
<1> HIDE DEF q
<1> QED BY <1>1, <1>2

(* Neither marks that overwrite one another, nor lists that overtake them, *)
(* bring an unread item after its mark.                                    *)
LEMMA InboxNext == InboxInv /\ Unread!Next => InboxInv'
<1> SUFFICES ASSUME InboxInv, Unread!Next PROVE InboxInv'
  OBVIOUS
<1> USE DEF InboxInv, Unread!pageVars, Unread!Items
<1>1. CASE Unread!LoadInbox
  <2>1. IsRequest(Unread!List) /\ Unread!List.item = None /\ Unread!List.stage = "list"
    BY DEF IsRequest, Unread!List
  <2>2. PICK q : x6' = x6 \cup {q} /\ IsRequest(q) /\ q.item = None /\ q.stage = "list"
    BY <1>1, <2>1, InboxSent DEF Unread!LoadInbox
  <2>3. RequestFits(q, x1)
    BY <2>2 DEF RequestFits
  <2>4. x1' = x1 /\ x2' = x2 /\ DOMAIN x4' = {}
    BY <1>1 DEF Unread!LoadInbox, Unread!Empty
  <2> QED BY <2>2, <2>3, <2>4
<1>2. CASE Unread!Leave
  <2>1. UNCHANGED <<x1, x2, x6>> /\ x3' = None /\ DOMAIN x4' = {}
    BY <1>2 DEF Unread!Leave, Unread!Empty
  <2> QED BY <2>1
<1>3. ASSUME NEW tab, Unread!SetTab(tab)
      PROVE InboxInv'
  BY <1>3 DEF Unread!SetTab
<1>4. ASSUME NEW i \in DOMAIN x4, Unread!MarkRead(i)
      PROVE InboxInv'
  <2>1. IsRequest(Unread!Mark(i)) /\ Unread!Mark(i).item = i /\ Unread!Mark(i).stage = "mark"
    BY DEF IsRequest, Unread!Mark
  <2>2. PICK q : x6' = x6 \cup {q} /\ IsRequest(q) /\ q.item = i /\ q.stage = "mark"
    BY <1>4, <2>1, InboxSent DEF Unread!MarkRead
  <2>3. RequestFits(q, x1)
    BY <2>2 DEF RequestFits
  <2> QED BY <1>4, <2>2, <2>3 DEF Unread!MarkRead
<1>5. ASSUME NEW r \in x6, Unread!Answered(r)
      PROVE InboxInv'
  BY <1>5 DEF Unread!Answered, RequestFits
<1>6. ASSUME NEW r \in x6, Unread!Failed(r)
      PROVE InboxInv'
  BY <1>6 DEF Unread!Failed
<1>7. ASSUME NEW r \in x6, Unread!MarkReads(r)
      PROVE InboxInv'
  <2> DEFINE q == Becoming(r, "marking", x1[r.item])
  <2>1. x6' = (x6 \ {r}) \cup {q} /\ UNCHANGED <<x1, x2, x3, x4, x5>> /\ r.stage = "mark"
    BY <1>7 DEF Unread!MarkReads, Unread!Becomes, Becoming
  <2>2. RequestFits(r, x1)
    OBVIOUS
  <2>3. IsRequest(q) /\ q.item = r.item /\ q.stage = "marking" /\ q.answer = x1[r.item]
    BY <2>2, BecomingFields DEF RequestFits
  <2> HIDE DEF q
  <2>4. RequestFits(q, x1)
    BY <2>1, <2>2, <2>3 DEF RequestFits
  <2> QED BY <2>1, <2>4
<1>8. ASSUME NEW r \in x6, Unread!MarkSaves(r), "me" \in r.answer
      PROVE InboxInv'
  <2> DEFINE q == Becoming(r, "list", None)
  <2>1. /\ x6' = (x6 \ {r}) \cup {q} /\ UNCHANGED <<x1, x2, x3, x4, x5>>
        /\ r.stage = "marking"
    BY <1>8 DEF Unread!MarkSaves, Unread!Becomes, Becoming
  <2>2. RequestFits(r, x1) /\ x1[r.item] # {}
    BY <1>8, <2>1 DEF RequestFits
  <2>3. IsRequest(q) /\ q.item = r.item /\ q.stage = "list"
    BY <2>2, BecomingFields DEF RequestFits
  <2> HIDE DEF q
  <2>4. RequestFits(q, x1)
    BY <2>1, <2>2, <2>3 DEF RequestFits
  <2> QED BY <2>1, <2>4
<1>13. ASSUME NEW r \in x6, Unread!MarkSaves(r), "me" \notin r.answer
       PROVE InboxInv'
  <2> DEFINE q == Becoming(r, "list", None)
             readers == r.answer \cup {"me"}
  <2>1. /\ x6' = (x6 \ {r}) \cup {q} /\ UNCHANGED <<x2, x3, x4, x5>> /\ r.stage = "marking"
        /\ IsPut(x1', x1, r.item, readers)
    BY <1>13 DEF Unread!MarkSaves, Unread!Becomes, Becoming, IsPut
  <2>2. RequestFits(r, x1) /\ r.item \in DOMAIN x1
    BY <2>1 DEF RequestFits
  <2>3. IsRequest(q) /\ q.item = r.item /\ q.stage = "list"
    BY <2>2, BecomingFields DEF RequestFits
  <2>4. readers # {}
    OBVIOUS
  <2> HIDE DEF q, readers
  <2>5. x1 \in [DOMAIN x1 -> {x1[j] : j \in DOMAIN x1}]
    BY DEF InboxInv
  <2> DEFINE i == r.item
  <2>6. i \in DOMAIN x1 /\ IsPut(x1', x1, i, readers)
    BY <2>1, <2>2
  <2> HIDE DEF i
  <2>7. /\ Grown(x1, x1') /\ DOMAIN x1' = DOMAIN x1 /\ x1'[i] = readers
        /\ x1' \in [DOMAIN x1 -> {x1'[j] : j \in DOMAIN x1}]
    BY <2>4, <2>5, <2>6, ReadGrows
  <2>8. RequestFits(q, x1')
    BY <2>2, <2>3, <2>4, <2>7 DEF RequestFits, i
  <2>9. \A p \in x6 : RequestFits(p, x1')
    BY <2>7, StillFits
  <2> QED BY <2>1, <2>7, <2>8, <2>9
<1>9. ASSUME NEW r \in x6, Unread!ListAnswered(r)
      PROVE InboxInv'
  <2> DEFINE list == Unread!FirstPage
             q == Becoming(r, "listed", list)
  <2>1. x6' = (x6 \ {r}) \cup {q} /\ UNCHANGED <<x1, x2, x3, x4, x5>> /\ r.stage = "list"
    BY <1>9 DEF Unread!ListAnswered, Unread!Becomes, Becoming
  <2>2. RequestFits(r, x1)
    OBVIOUS
  <2>3. DOMAIN list \subseteq DOMAIN x1 /\ \A i \in DOMAIN list : list[i] = x1[i]
    BY DEF Unread!FirstPage
  <2>4. IsRequest(q) /\ q.item = r.item /\ q.stage = "listed" /\ q.answer = list
    BY <2>2, BecomingFields DEF RequestFits
  <2> HIDE DEF q, list
  <2>5. r.item \notin Unread!Unread(list)
    BY <2>1, <2>2, <2>3, PartsAssumption DEF RequestFits, Unread!Unread
  <2>6. RequestFits(q, x1)
    BY <2>2, <2>3, <2>4, <2>5 DEF RequestFits
  <2> QED BY <2>1, <2>6
<1>10. CASE Unread!Written
  <2> DEFINE n == Cardinality(DOMAIN x1) + 1
  <2>0. UNCHANGED <<x2, x3, x4, x5, x6>>
    BY <1>10 DEF Unread!Written
  <2>1. x1' = [i \in DOMAIN x1 \cup {n} |-> IF i \in DOMAIN x1 THEN x1[i] ELSE {}]
    BY <1>10, InboxCounts, Zenon DEF Unread!Written
  <2>2. n \in Nat
    BY FS_CardinalityType
  <2> HIDE DEF n
  <2>3. DOMAIN x1' = DOMAIN x1 \cup {n} /\ Grown(x1, x1')
    BY <2>1 DEF Grown
  <2>4. IsFiniteSet(DOMAIN x1')
    BY <2>3, FS_AddElement
  <2>5. x1' \in [DOMAIN x1' -> {x1'[i] : i \in DOMAIN x1'}]
    BY <2>1
  <2>6. \A p \in x6 : RequestFits(p, x1')
    BY <2>3, StillFits
  <2> QED BY <2>0, <2>1, <2>2, <2>3, <2>4, <2>5, <2>6
<1>11. ASSUME NEW i \in DOMAIN x1, Unread!ColleagueReads(i)
       PROVE InboxInv'
  BY <1>11 DEF Unread!ColleagueReads
<1>12. CASE Unread!ColleagueSaves
  <2> DEFINE readers == x2.readers \cup {"colleague"}
  <2>1. /\ IsPut(x1', x1, x2.item, readers) /\ x2' = None /\ x2.item \in DOMAIN x1
        /\ UNCHANGED <<x3, x4, x5, x6>>
    BY <1>12 DEF Unread!ColleagueSaves, IsPut
  <2>2. readers # {}
    OBVIOUS
  <2> HIDE DEF readers
  <2>3. x1 \in [DOMAIN x1 -> {x1[j] : j \in DOMAIN x1}]
    BY DEF InboxInv
  <2>4. /\ Grown(x1, x1') /\ DOMAIN x1' = DOMAIN x1
        /\ x1' \in [DOMAIN x1 -> {x1'[j] : j \in DOMAIN x1}]
    BY <2>1, <2>2, <2>3, ReadGrows
  <2>5. \A p \in x6 : RequestFits(p, x1')
    BY <2>4, StillFits
  <2> QED BY <2>1, <2>4, <2>5
<1> QED
  BY <1>1, <1>2, <1>3, <1>4, <1>5, <1>6, <1>7, <1>8, <1>9, <1>10, <1>11, <1>12,
     <1>13 DEF Unread!Next

(* The requests that fit are all the list that follows a mark. *)
LEMMA InboxSeen == InboxInv => Unread!MarksAreSeen
BY DEF InboxInv, RequestFits, Unread!MarksAreSeen, Unread!Shown, Unread!Unread

-----------------------------------------------------------------------------
(* The room's stage *)

(* Only the preview's camera is on, and a preview is all that has one.     *)
(* What is attached has an object URL; a participant who is not in the     *)
(* call has attached nothing.                                              *)
StageInv ==
  /\ x8 \in [Camera -> {"off", "asked", "on"}]
  /\ \A k \in Camera : x8[k] = "on" => k = x7
  /\ x7 # 0 => x6 = "empty"
  /\ x9 \subseteq x10
  /\ x1 \notin {"live", "error"} => x9 = {}

(* The stage is empty, and no camera has been asked for. *)
LEMMA StageInit == Stage!Init => StageInv
BY DEF Stage!Init, StageInv

(* Stopping the preview's camera leaves none that is on. *)
LEMMA StoppedCameras ==
  ASSUME StageInv
  PROVE  /\ Stage!CameraStopped \in [Camera -> {"off", "asked", "on"}]
         /\ \A k \in Camera : Stage!CameraStopped[k] # "on"
BY DEF StageInv, Stage!CameraStopped

(* So does mounting another child; a camera it asks for is not on yet. *)
LEMMA MountedStage ==
  ASSUME StageInv, NEW key, Stage!Mount(key)
  PROVE  /\ x8' \in [Camera -> {"off", "asked", "on"}]
         /\ \A k \in Camera : x8'[k] # "on"
         /\ x7' # 0 => x6' = "empty"
<1> DEFINE m == Stage!Min(Stage!FreeCameras)
           stopped == Stage!CameraStopped
<1>1. /\ stopped \in [Camera -> {"off", "asked", "on"}]
      /\ \A k \in Camera : stopped[k] # "on"
  BY StoppedCameras
<1>2. \/ x7' = 0 /\ x8' = stopped
      \/ x6' = "empty" /\ x8' = [stopped EXCEPT ![m] = "asked"]
  BY DEF Stage!Mount
<1> HIDE DEF m, stopped
<1> QED BY <1>1, <1>2

(* That stays so whatever is granted late, or comes and goes on the stage. *)
LEMMA StageNext == StageInv /\ Stage!Next => StageInv'
<1> SUFFICES ASSUME StageInv, Stage!Next PROVE StageInv'
  OBVIOUS
<1> USE DEF Stage!stageVars, Stage!fileVars, Stage!textVars
<1>1. CASE Stage!SelectMode
  BY <1>1 DEF Stage!SelectMode, StageInv
<1>2. CASE Stage!EnterLive
  <2>1. x1 = "setup" /\ UNCHANGED <<x9, x10>>
    BY <1>2 DEF Stage!EnterLive
  <2>2. /\ x8' \in [Camera -> {"off", "asked", "on"}]
        /\ \A k \in Camera : x8'[k] # "on"
        /\ x7' # 0 => x6' = "empty"
    BY <1>2, MountedStage DEF Stage!EnterLive
  <2> QED BY <2>1, <2>2 DEF StageInv
<1>3. CASE Stage!EnterText
  BY <1>3 DEF Stage!EnterText, StageInv
<1>4. CASE Stage!ChannelOpens \/ Stage!ChannelCloses
  BY <1>4 DEF Stage!ChannelOpens, Stage!ChannelCloses, StageInv
<1>5. CASE Stage!ShowError
  BY <1>5, StoppedCameras DEF Stage!ShowError, StageInv
<1>6. CASE Stage!Retry
  BY <1>6 DEF Stage!Retry, Stage!Clear, StageInv
<1>7. CASE Stage!Leave
  BY <1>7, StoppedCameras DEF Stage!Leave, Stage!Clear, StageInv
<1>8. CASE Stage!Return
  BY <1>8 DEF Stage!Return, StageInv
<1>9. CASE (\E c : Stage!StimulusShow(c)) \/ Stage!Imported \/ Stage!CloseStimulus
  BY <1>9 DEF Stage!StimulusShow, Stage!Imported, Stage!CloseStimulus, StageInv
<1>10. CASE Stage!FadedOut
  <2>1. UNCHANGED <<x1, x9, x10>>
    BY <1>10 DEF Stage!FadedOut
  <2>2. /\ x8' \in [Camera -> {"off", "asked", "on"}]
        /\ \A k \in Camera : x8'[k] # "on"
        /\ x7' # 0 => x6' = "empty"
    BY <1>10, MountedStage DEF Stage!FadedOut
  <2> QED BY <2>1, <2>2 DEF StageInv
<1>11. ASSUME NEW k \in Camera, Stage!CameraGranted(k) \/ Stage!CameraDenied(k)
       PROVE StageInv'
  BY <1>11 DEF Stage!CameraGranted, Stage!CameraDenied, StageInv
<1>12. CASE Stage!AttachFile
  BY <1>12 DEF Stage!AttachFile, StageInv
<1>13. ASSUME NEW f, Stage!RemoveAttachment(f)
       PROVE StageInv'
  BY <1>13 DEF Stage!RemoveAttachment, StageInv
<1>14. CASE Stage!TypeText \/ Stage!SendText
  BY <1>14 DEF Stage!TypeText, Stage!SendText, StageInv
<1> QED
  BY <1>1, <1>2, <1>3, <1>4, <1>5, <1>6, <1>7, <1>8, <1>9, <1>10, <1>11, <1>12, <1>13, <1>14
     DEF Stage!Next

(* A camera that is on is a preview's, so the stage shows it; and every    *)
(* step that forgets an attachment gives its object URL back, but the one  *)
(* that walks out of the error view.                                       *)
LEMMA StageHolds == ASSUME StageInv, StageInv', Stage!Next PROVE Stage!HoldsStep
<1> USE DEF Stage!stageVars, Stage!fileVars, Stage!textVars
<1>1. Stage!StrayCameras' = {}
  BY PartsAssumption DEF StageInv, Stage!StrayCameras
<1>2. x9' \subseteq x10'
  BY DEF StageInv
<1>3. ASSUME UNCHANGED <<x9, x10>>
      PROVE  x10' \ x9' \subseteq x10 \ x9
  BY <1>3
<1>4. ASSUME Stage!Clear
      PROVE  x10' \ x9' \subseteq x10 \ x9
  BY <1>4 DEF Stage!Clear
<1>5. CASE Stage!Leave
  <2>1. CASE x1 = "live"
    BY <1>4, <1>5, <2>1, <1>1, <1>2 DEF Stage!Leave, Stage!HoldsStep, Stage!StrayUrls
  <2>2. CASE x1 = "error"
    BY <1>5, <2>2, <1>1, <1>2 DEF Stage!Leave, Stage!HoldsStep, Stage!WalksOutOfError
  <2>3. CASE x1 \notin {"live", "error"}
    <3>1. x9 = {} /\ x9' = {} /\ x10' = x10
      BY <1>5, <2>3 DEF Stage!Leave, StageInv
    <3> QED BY <1>1, <1>2, <3>1 DEF Stage!HoldsStep, Stage!StrayUrls
  <2> QED BY <2>1, <2>2, <2>3
<1> SUFFICES ASSUME ~Stage!Leave PROVE x10' \ x9' \subseteq x10 \ x9
  BY <1>1, <1>2, <1>5 DEF Stage!HoldsStep, Stage!StrayUrls
<1>6. CASE Stage!SelectMode \/ Stage!EnterLive \/ Stage!EnterText \/ Stage!ShowError
  BY <1>3, <1>6 DEF Stage!SelectMode, Stage!EnterLive, Stage!EnterText, Stage!ShowError
<1>7. CASE Stage!ChannelOpens \/ Stage!ChannelCloses \/ Stage!Return \/ Stage!FadedOut
  BY <1>3, <1>7 DEF Stage!ChannelOpens, Stage!ChannelCloses, Stage!Return, Stage!FadedOut
<1>8. CASE Stage!Retry
  BY <1>4, <1>8 DEF Stage!Retry
<1>9. CASE (\E c : Stage!StimulusShow(c)) \/ Stage!Imported \/ Stage!CloseStimulus
  BY <1>3, <1>9 DEF Stage!StimulusShow, Stage!Imported, Stage!CloseStimulus
<1>10. CASE \E k : Stage!CameraGranted(k) \/ Stage!CameraDenied(k)
  BY <1>3, <1>10 DEF Stage!CameraGranted, Stage!CameraDenied
<1>11. CASE Stage!AttachFile
  BY <1>11 DEF Stage!AttachFile
<1>12. CASE \E f : Stage!RemoveAttachment(f)
  BY <1>12 DEF Stage!RemoveAttachment
<1>13. CASE Stage!TypeText \/ Stage!SendText
  BY <1>3, <1>13 DEF Stage!TypeText, Stage!SendText
<1> QED
  BY <1>6, <1>7, <1>8, <1>9, <1>10, <1>11, <1>12, <1>13 DEF Stage!Next

-----------------------------------------------------------------------------
(* The questions of a report *)

(* A question belongs to the report it was typed for; one that was added   *)
(* is of no segment.                                                       *)
IsAdded(row) ==
  /\ row.typed = row.of
  /\ row.id # 0 => row.segment = None

(* A request carries such questions, or brings them.                       *)
QuestionLoadOk(q) ==
  /\ q \in [id : {q.id}, kind : {q.kind}, of : {q.of}, served : {q.served}, answer : {q.answer}]
  /\ q.kind \in {"questions", "create"} => \A row \in q.answer : IsAdded(row)

QuestionsInv ==
  /\ \A row \in x1 : IsAdded(row)
  /\ x2 \in [reportId : {x2.reportId}, questions : {x2.questions}, segments : {x2.segments},
             activeSegment : {x2.activeSegment}, busy : {x2.busy}, loading : {x2.loading}]
  /\ \A row \in x2.questions : IsAdded(row)
  /\ x3 \in [of : {x3.of}, tab : {x3.tab}, showAddQ : {x3.showAddQ}, newQTitle : {x3.newQTitle}]
  /\ x3.of # None => x3.of = x2.reportId
  /\ x3.newQTitle \in {None, x3.of}
  /\ \A q \in x5 : QuestionLoadOk(q)

(* The reports come with their questions. *)
LEMMA QuestionsInit == Questions!Init => QuestionsInv
<1> SUFFICES ASSUME Questions!Init PROVE QuestionsInv
  OBVIOUS
<1>1. x1 = {Questions!Question(0, r, 1, r, r) : r \in Report} /\ x5 = {}
  BY DEF Questions!Init
<1>2. \A row \in x1 : IsAdded(row)
  BY <1>1 DEF IsAdded, Questions!Question
<1> QED
  BY <1>1, <1>2 DEF Questions!Init, QuestionsInv, Questions!Mounted, Questions!NoPage


(* The page a detail is shown on is of the same report with the same title *)
(* typed.                                                                  *)
LEMMA ShownPage ==
  ASSUME NEW d, NEW v,
         v \in [of : {v.of}, tab : {v.tab}, showAddQ : {v.showAddQ}, newQTitle : {v.newQTitle}]
  PROVE  LET w == Questions!Tabs(d, v)
         IN  /\ w \in [of : {w.of}, tab : {w.tab}, showAddQ : {w.showAddQ},
                       newQTitle : {w.newQTitle}]
             /\ w.of = v.of /\ w.newQTitle = v.newQTitle
BY DEF Questions!Tabs

(* A detail of the same report may be shown instead. *)
LEMMA ShowsAnother ==
  ASSUME QuestionsInv, NEW d, Questions!Shows(d, x3),
         d \in [reportId : {d.reportId}, questions : {d.questions}, segments : {d.segments},
                activeSegment : {d.activeSegment}, busy : {d.busy}, loading : {d.loading}],
         d.reportId = x2.reportId, \A row \in d.questions : IsAdded(row),
         \A row \in x1' : IsAdded(row), \A q \in x5' : QuestionLoadOk(q)
  PROVE  QuestionsInv'
<1>1. x2' = d /\ x3' = Questions!Tabs(d, x3)
  BY DEF Questions!Shows
<1>2. /\ x3' \in [of : {x3'.of}, tab : {x3'.tab}, showAddQ : {x3'.showAddQ},
                  newQTitle : {x3'.newQTitle}]
      /\ x3'.of = x3.of /\ x3'.newQTitle = x3.newQTitle
  BY <1>1, ShownPage DEF QuestionsInv
<1> QED BY <1>1, <1>2 DEF QuestionsInv

(* Asking puts one request in flight. *)
LEMMA QuestionsAsked ==
  ASSUME NEW qs, NEW kind, NEW of, NEW answer,
         kind \in {"questions", "create"} => \A row \in answer : IsAdded(row)
  PROVE  \A q \in Questions!Asked(qs, kind, of, answer) : q \in qs \/ QuestionLoadOk(q)
<1> DEFINE n == Questions!Min((1 .. MaxQuestionLoads) \ {q.id : q \in qs})
           new == [id |-> n, kind |-> kind, of |-> of, served |-> FALSE, answer |-> answer]
<1>1. Questions!Asked(qs, kind, of, answer) = qs \cup {new}
  BY DEF Questions!Asked
<1> HIDE DEF n
<1>2. QuestionLoadOk(new)
  BY DEF QuestionLoadOk
<1> HIDE DEF new
<1> QED BY <1>1, <1>2

(* A title is sent to the report it was typed for. *)
LEMMA QuestionsNext == QuestionsInv /\ Questions!Next => QuestionsInv'
<1> SUFFICES ASSUME QuestionsInv, Questions!Next PROVE QuestionsInv'
  OBVIOUS
<1>1. ASSUME NEW r, Questions!SelectReport(r)
      PROVE QuestionsInv'
  <2> DEFINE d == [x2 EXCEPT !.reportId = r, !.loading = TRUE, !.busy = TRUE]
             v == [Questions!NoPage EXCEPT !.of = r]
             once == Questions!Asked(x5, "questions", r, {})
  <2>1. /\ x2' = d /\ x3' = Questions!Tabs(d, v) /\ x1' = x1
        /\ x5' = Questions!Asked(once, "segments", r, {})
    BY <1>1 DEF Questions!SelectReport, Questions!Shows
  <2>2. /\ d \in [reportId : {d.reportId}, questions : {d.questions}, segments : {d.segments},
                  activeSegment : {d.activeSegment}, busy : {d.busy}, loading : {d.loading}]
        /\ d.reportId = r /\ d.questions = x2.questions
    BY DEF QuestionsInv
  <2>3. /\ v \in [of : {v.of}, tab : {v.tab}, showAddQ : {v.showAddQ}, newQTitle : {v.newQTitle}]
        /\ v.of = r /\ v.newQTitle = None
    BY DEF Questions!NoPage
  <2> HIDE DEF d, v
  <2>4. /\ x3' \in [of : {x3'.of}, tab : {x3'.tab}, showAddQ : {x3'.showAddQ},
                    newQTitle : {x3'.newQTitle}]
        /\ x3'.of = r /\ x3'.newQTitle = None
    BY <2>1, <2>3, ShownPage
  <2>5. \A q \in once : QuestionLoadOk(q)
    <3>1. \A q \in once : q \in x5 \/ QuestionLoadOk(q)
      BY QuestionsAsked
    <3> QED BY <3>1 DEF QuestionsInv
  <2> HIDE DEF once
  <2>6. \A q \in x5' : QuestionLoadOk(q)
    <3>1. \A q \in x5' : q \in once \/ QuestionLoadOk(q)
      BY <2>1, QuestionsAsked
    <3> QED BY <2>5, <3>1
  <2> QED BY <2>1, <2>2, <2>4, <2>6 DEF QuestionsInv
<1>2. CASE Questions!Back
  BY <1>2 DEF Questions!Back, Questions!NoPage, QuestionsInv
<1>3. ASSUME NEW s, Questions!SetActiveSegment(s)
      PROVE QuestionsInv'
  BY <1>3 DEF Questions!SetActiveSegment, QuestionsInv
<1>4. CASE Questions!Busy
  <2>1. /\ Questions!Shows([x2 EXCEPT !.busy = ~@], x3) /\ UNCHANGED <<x1, x5>>
    BY <1>4 DEF Questions!Busy
  <2> QED BY <2>1, ShowsAnother DEF QuestionsInv
<1>5. CASE Questions!LoadQuestions
  <2>1. /\ Questions!Shows([x2 EXCEPT !.loading = TRUE], x3) /\ x1' = x1
        /\ x5' = Questions!Asked(x5, "questions", x2.reportId, {})
    BY <1>5 DEF Questions!LoadQuestions
  <2>2. \A q \in x5' : q \in x5 \/ QuestionLoadOk(q)
    BY <2>1, QuestionsAsked
  <2>3. \A q \in x5' : QuestionLoadOk(q)
    BY <2>2 DEF QuestionsInv
  <2> QED BY <2>1, <2>3, ShowsAnother DEF QuestionsInv
<1>6. ASSUME NEW show, Questions!SetShowAddQ(show)
      PROVE QuestionsInv'
  BY <1>6 DEF Questions!SetShowAddQ, Questions!InDialog, QuestionsInv
<1>7. ASSUME NEW title \in {None, x3.of}, Questions!SetNewQTitle(title)
      PROVE QuestionsInv'
  BY <1>7 DEF Questions!SetNewQTitle, Questions!InDialog, QuestionsInv
<1>8. CASE Questions!AddQuestion
  <2> DEFINE n == Questions!Cardinality(x2.questions) + 1
             row == Questions!Question(x4 + 1, x2.reportId, n, None, x3.newQTitle)
  <2>1. /\ x5' = Questions!Asked(x5, "create", x2.reportId, {row})
        /\ x3' = [x3 EXCEPT !.newQTitle = None, !.showAddQ = FALSE]
        /\ x3.of # None /\ x3.newQTitle # None /\ UNCHANGED <<x1, x2>>
    BY <1>8 DEF Questions!AddQuestion
  <2>2. x3.newQTitle = x2.reportId
    BY <2>1 DEF QuestionsInv
  <2> HIDE DEF n
  <2>3. IsAdded(row)
    BY <2>2 DEF IsAdded, Questions!Question
  <2> HIDE DEF row
  <2>4. \A q \in x5' : q \in x5 \/ QuestionLoadOk(q)
    BY <2>1, <2>3, QuestionsAsked
  <2> QED BY <2>1, <2>4 DEF QuestionsInv
<1>9. CASE Questions!Leave
  BY <1>9 DEF Questions!Leave, Questions!NoPage, Questions!Mounted, QuestionsInv
<1>10. ASSUME NEW q \in x5, Questions!Serve(q)
       PROVE QuestionsInv'
  <2> DEFINE x == IF q.kind = "questions" THEN {row \in x1 : row.of = q.of}
                  ELSE IF q.kind = "segments" THEN {q.of} ELSE {}
             p == [q EXCEPT !.served = TRUE, !.answer = x]
  <2>1. /\ x5' = (x5 \ {q}) \cup {p} /\ UNCHANGED <<x2, x3>>
        /\ x1' = IF q.kind = "create" THEN x1 \cup q.answer ELSE x1
    BY <1>10 DEF Questions!Serve
  <2>2. q.kind \in {"questions", "create"} => \A row \in x : IsAdded(row)
    BY DEF QuestionsInv
  <2>3. QuestionLoadOk(q)
    BY DEF QuestionsInv
  <2> HIDE DEF x
  <2>4. QuestionLoadOk(p)
    BY <2>2, <2>3 DEF QuestionLoadOk
  <2> HIDE DEF p
  <2>5. \A row \in x1' : IsAdded(row)
    BY <2>1, <2>3 DEF QuestionLoadOk, QuestionsInv
  <2> QED BY <2>1, <2>4, <2>5 DEF QuestionsInv
<1>11. ASSUME NEW q \in x5, Questions!QuestionsAnswered(q)
       PROVE QuestionsInv'
  <2>1. /\ Questions!Shows([x2 EXCEPT !.questions = q.answer, !.loading = FALSE], x3)
        /\ q.kind = "questions" /\ x5' = x5 \ {q} /\ x1' = x1
    BY <1>11 DEF Questions!QuestionsAnswered
  <2>2. \A row \in q.answer : IsAdded(row)
    BY <2>1 DEF QuestionsInv, QuestionLoadOk
  <2> QED BY <2>1, <2>2, ShowsAnother DEF QuestionsInv
<1>12. ASSUME NEW q \in x5, Questions!SegmentsAnswered(q)
       PROVE QuestionsInv'
  BY <1>12 DEF Questions!SegmentsAnswered, QuestionsInv
<1>13. ASSUME NEW q \in x5, Questions!QuestionAdded(q)
       PROVE QuestionsInv'
  <2>1. CASE x2.reportId = None
    <3>1. /\ Questions!Shows([x2 EXCEPT !.questions = {}], x3)
          /\ x5' = x5 \ {q} /\ x1' = x1
      BY <1>13, <2>1 DEF Questions!QuestionAdded
    <3> QED BY <3>1, ShowsAnother DEF QuestionsInv
  <2>2. CASE x2.reportId # None
    <3>1. /\ Questions!Shows([x2 EXCEPT !.loading = TRUE], x3) /\ x1' = x1
          /\ x5' = Questions!Asked(x5 \ {q}, "questions", x2.reportId, {})
      BY <1>13, <2>2 DEF Questions!QuestionAdded
    <3>2. \A p \in x5' : p \in x5 \ {q} \/ QuestionLoadOk(p)
      BY <3>1, QuestionsAsked
    <3>3. \A p \in x5' : QuestionLoadOk(p)
      BY <3>2 DEF QuestionsInv
    <3> QED BY <3>1, <3>3, ShowsAnother DEF QuestionsInv
  <2> QED BY <2>1, <2>2
<1>14. ASSUME NEW q \in x5, Questions!Unheard(q)
       PROVE QuestionsInv'
  BY <1>14 DEF Questions!Unheard, QuestionsInv
<1>15. ASSUME NEW q \in x5, Questions!Failed(q)
       PROVE QuestionsInv'
  <2>1. CASE q.kind = "questions"
    <3>1. /\ Questions!Shows([x2 EXCEPT !.loading = FALSE], x3)
          /\ x5' = x5 \ {q} /\ x1' = x1
      BY <1>15, <2>1 DEF Questions!Failed
    <3> QED BY <3>1, ShowsAnother DEF QuestionsInv
  <2>2. CASE q.kind # "questions"
    BY <1>15, <2>2 DEF Questions!Failed, QuestionsInv
  <2> QED BY <2>1, <2>2
<1> QED
  BY <1>1, <1>2, <1>3, <1>4, <1>5, <1>6, <1>7, <1>8, <1>9, <1>10, <1>11, <1>12, <1>13, <1>14,
     <1>15 DEF Questions!Next

(* A segment that filters lets the questions of no segment through. *)
LEMMA QuestionsShown == QuestionsInv => Questions!AddedQuestionsShow
<1> SUFFICES ASSUME QuestionsInv, NEW q \in x2.questions, q.id # 0
             PROVE  \E b \in Questions!Blocks : b.question = q.id
  BY DEF QuestionsInv, IsAdded, Questions!AddedQuestionsShow
<1>1. q \in Questions!FilteredQuestions(x2)
  BY DEF QuestionsInv, IsAdded, Questions!FilteredQuestions
<1>2. Questions!QuestionBlock(q) \in Questions!Blocks
  BY <1>1 DEF Questions!Blocks
<1> QED BY <1>2 DEF Questions!QuestionBlock


-----------------------------------------------------------------------------
(* Signing in *)

(* A login that is posted after the cookie came carries the token. *)
LEMMA LoginInit == SigningIn!Init => SigningIn!LoginCarriesToken
BY DEF SigningIn!Init, SigningIn!LoginCarriesToken, SigningIn!Submitting

(* The cookie is read again once it came. *)
LEMMA LoginNext ==
  SigningIn!LoginCarriesToken /\ SigningIn!Next => SigningIn!LoginCarriesToken'
<1> SUFFICES ASSUME SigningIn!LoginCarriesToken, SigningIn!Next
             PROVE  SigningIn!LoginCarriesToken'
  OBVIOUS
<1> USE DEF SigningIn!LoginCarriesToken, SigningIn!Submitting
<1>1. ASSUME NEW address, SigningIn!Document(address)
      PROVE  SigningIn!LoginCarriesToken'
  BY <1>1 DEF SigningIn!Document
<1>2. ASSUME UNCHANGED x6
      PROVE  SigningIn!LoginCarriesToken'
  BY <1>2
<1>3. CASE SigningIn!Guard
  BY <1>3 DEF SigningIn!Guard
<1>4. CASE SigningIn!SubmitLogin
  BY <1>4 DEF SigningIn!SubmitLogin, SigningIn!CsrfFetch
<1>5. CASE SigningIn!Primed
  <2>1. PICK came \in BOOLEAN : /\ x2' = (x2 \/ came)
                               /\ x6' = [stage |-> "posting", token |-> x2', primed |-> came]
    BY <1>5 DEF SigningIn!Primed, SigningIn!Posted
  <2>2. x6'.primed = came /\ x6'.token = x2'
    BY <2>1
  <2>3. CASE came = TRUE
    <3>1. x2'
      BY <2>1, <2>3
    <3>2. x6'.token
      BY <2>2, <3>1, Zenon
    <3> QED BY <3>2
  <2>4. CASE came = FALSE
    <3>1. ~x6'.primed
      BY <2>2, <2>4
    <3> QED BY <3>1
  <2> QED BY <2>1, <2>3, <2>4
<1>6. CASE SigningIn!LoginAnswered
  BY <1>1, <1>6 DEF SigningIn!LoginAnswered
<1>7. CASE SigningIn!OpenDocument \/ SigningIn!HandleSignOut
  BY <1>1, <1>7 DEF SigningIn!OpenDocument, SigningIn!HandleSignOut
<1>8. CASE \/ SigningIn!UserLoaded \/ SigningIn!RotatePitch \/ (\E i : SigningIn!ShowPitch(i))
           \/ SigningIn!Edit \/ SigningIn!CookiesGo
  BY <1>2, <1>8 DEF SigningIn!UserLoaded, SigningIn!RotatePitch, SigningIn!ShowPitch,
     SigningIn!Edit, SigningIn!CookiesGo, SigningIn!pageVars
<1> QED BY <1>3, <1>4, <1>5, <1>6, <1>7, <1>8 DEF SigningIn!Next

-----------------------------------------------------------------------------
(* The forms of the settings page *)

IsEntry(e) == e \in [id : Nat, form : Nat, text : {e.text}, primary : {e.primary}]

NoEntry(db, n) == \A l \in Settings!List : \A e \in db[l] : e.form # n

Providers(db) == {e.id : e \in db["providers"]}

(* At most one entry of a form in a list, of forms shown so far, and a     *)
(* route's provider is there.                                              *)
EntriesOk(db, n) ==
  /\ db \in [Settings!List -> {db[l] : l \in Settings!List}]
  /\ \A l \in Settings!List :
       /\ IsFiniteSet(db[l])
       /\ \A e \in db[l] : IsEntry(e) /\ e.form <= n
       /\ \A e1, e2 \in db[l] : e1.form = e2.form /\ e1.form # 0 => e1 = e2
  /\ \A e \in db["routes"] : e.primary \in Providers(db)

IsForm(f) ==
  f \in [n : Nat, text : {f.text}, filled : {f.filled}, primary : {f.primary}, saving : BOOLEAN]

FormOk(f, db, n) ==
  IsForm(f) /\ 1 <= f.n /\ f.n <= n /\ (f.primary = None \/ f.primary \in Providers(db))

FormPanelOk(p, db, n) ==
  /\ p \in [entries : {p.entries}, providers : {p.providers}, editId : {p.editId}, form : {p.form}]
  /\ p.providers \subseteq Providers(db)
  /\ p.form # None => FormOk(p.form, db, n)

(* The forms that are shown are different ones. *)
PanelsOk(ps, db, n) ==
  /\ ps \in [Settings!List -> {ps[l] : l \in Settings!List}]
  /\ \A l \in Settings!List : FormPanelOk(ps[l], db, n)
  /\ \A k, l \in Settings!List :
       ps[k].form # None /\ ps[l].form # None /\ ps[k].form.n = ps[l].form.n => k = l

IsFormRequest(r) ==
  r \in [id : {r.id}, kind : {r.kind}, list : {r.list}, of : {r.of}, form : {r.form},
         heard : {r.heard}, served : {r.served}, answer : {r.answer}]

(* A save that has not been served has made no entry. *)
FormRequestOk(r, db, n) ==
  /\ IsFormRequest(r) /\ r.list \in Settings!List
  /\ r.kind \in {"load", "save"}
  /\ r.kind = "save" =>
       /\ FormOk(r.form, db, n)
       /\ r.list = "routes" => r.form.primary \in Providers(db)
       /\ ~r.served => NoEntry(db, r.form.n)
  /\ r.kind = "load" /\ r.served => r.answer.providers \subseteq Providers(db)

RequestsOk(rs, db, n) ==
  /\ \A r \in rs : FormRequestOk(r, db, n)
  /\ \A p, q \in rs : p.kind = "save" /\ q.kind = "save" /\ p.form.n = q.form.n => p = q

(* A form that may be sent has not been. *)
Unsent(ps, db, rs) ==
  \A l \in Settings!List : ps[l].form # None /\ ~ps[l].form.saving =>
    /\ NoEntry(db, ps[l].form.n)
    /\ \A r \in rs : r.kind = "save" => r.form.n # ps[l].form.n

FormsInv ==
  /\ x4 \in Nat
  /\ EntriesOk(x1, x4)
  /\ PanelsOk(x3, x1, x4)
  /\ RequestsOk(x5, x1, x4)
  /\ Unsent(x3, x1, x5)

(* The page counts as the library does. *)
LEMMA FormsCount == \A S : Settings!Cardinality(S) = Cardinality(S)
BY Zenon DEF Settings!Cardinality, Cardinality

(* There is one provider and no form. *)
LEMMA FormsInit == Settings!Init => FormsInv
<1> SUFFICES ASSUME Settings!Init PROVE FormsInv
  OBVIOUS
<1> DEFINE first == Settings!Entry(1, 0, 1, None)
<1>1. /\ x1 = [l \in Settings!List |-> IF l = "routes" THEN {} ELSE {first}]
      /\ x3 = [l \in Settings!List |-> Settings!NoPanel] /\ x4 = 0 /\ x5 = {}
  BY DEF Settings!Init
<1>2. IsEntry(first) /\ first.form = 0
  BY DEF Settings!Entry, IsEntry
<1> HIDE DEF first
<1>3. EntriesOk(x1, x4)
  <2>1. IsFiniteSet({}) /\ IsFiniteSet({first})
    BY FS_EmptySet, FS_Singleton
  <2>2. \A l \in Settings!List : IsFiniteSet(x1[l])
    BY <1>1, <2>1
  <2> QED BY <1>1, <1>2, <2>2 DEF EntriesOk, IsEntry, Settings!List
<1>4. PanelsOk(x3, x1, x4)
  BY <1>1 DEF PanelsOk, FormPanelOk, Settings!NoPanel
<1> QED
  BY <1>1, <1>3, <1>4 DEF FormsInv, RequestsOk, Unsent, Settings!NoPanel

(* Whether a request is heard makes no difference here. *)
Hears(p, q) ==
  /\ IsFormRequest(p)
  /\ p.kind = q.kind /\ p.list = q.list /\ p.of = q.of /\ p.form = q.form
  /\ p.served = q.served /\ p.answer = q.answer

(* A request that is heard or not is the same otherwise. *)
LEMMA HeardOrNot ==
  ASSUME NEW q, IsFormRequest(q), NEW heard
  PROVE  Hears([q EXCEPT !.heard = heard], q)
BY DEF Hears, IsFormRequest

(* So are all of them. *)
LEMMA AllHear ==
  ASSUME NEW rs, NEW db, NEW n, RequestsOk(rs, db, n), NEW f, \A q \in rs : Hears(f[q], q)
  PROVE  /\ RequestsOk({f[q] : q \in rs}, db, n)
         /\ \A ps : Unsent(ps, db, rs) => Unsent(ps, db, {f[q] : q \in rs})
BY DEF RequestsOk, FormRequestOk, Hears, Unsent

(* A load is a request there may be. *)
LEMMA LoadOk ==
  ASSUME NEW rs, NEW db, NEW n, RequestsOk(rs, db, n), NEW l \in Settings!List
  PROVE  /\ RequestsOk(Settings!Load(rs, l), db, n)
         /\ \A ps : Unsent(ps, db, rs) => Unsent(ps, db, Settings!Load(rs, l))
<1> DEFINE i == Settings!Min((1 .. MaxFormRequests) \ {r.id : r \in rs})
           q == [id |-> i, kind |-> "load", list |-> l, of |-> None, form |-> None,
                 heard |-> TRUE, served |-> FALSE, answer |-> {}]
<1>1. Settings!Load(rs, l) = rs \cup {q}
  BY DEF Settings!Load, Settings!Requested
<1> HIDE DEF i
<1>2. FormRequestOk(q, db, n) /\ q.kind = "load"
  BY DEF FormRequestOk, IsFormRequest
<1> HIDE DEF q
<1> QED BY <1>1, <1>2 DEF RequestsOk, Unsent


(* Forms and panels stay what they are when there are more forms, or more  *)
(* providers.                                                              *)
LEMMA MorePanels ==
  ASSUME NEW ps, NEW db, NEW db2, NEW n \in Nat, NEW n2 \in Nat, n <= n2, PanelsOk(ps, db, n),
         Providers(db) \subseteq Providers(db2)
  PROVE  PanelsOk(ps, db2, n2)
BY DEF PanelsOk, FormPanelOk, FormOk, IsForm

(* A panel may be changed, if its form is not another panel's. *)
LEMMA PanelChanged ==
  ASSUME NEW ps, NEW db, NEW n, PanelsOk(ps, db, n),
         NEW l \in Settings!List, NEW p, FormPanelOk(p, db, n),
         p.form # None =>
           \A k \in Settings!List : k # l /\ ps[k].form # None => ps[k].form.n # p.form.n,
         NEW ps2, IsPut(ps2, ps, l, p)
  PROVE  /\ PanelsOk(ps2, db, n)
         /\ ps2[l] = p
         /\ \A k \in Settings!List : k # l => ps2[k] = ps[k]
BY DEF PanelsOk, IsPut

(* A panel gets a form, or the form it has is for another entry. *)
LEMMA FormsShow ==
  ASSUME FormsInv, NEW l \in Settings!List, NEW of, Settings!ShowForm(l, of)
  PROVE  FormsInv'
<1>1. UNCHANGED <<x1, x2, x5>>
  BY DEF Settings!ShowForm
<1>2. FormPanelOk(x3[l], x1, x4)
  BY DEF FormsInv, PanelsOk
<1>3. CASE x3[l].form = None
  <2> DEFINE f == Settings!NewForm(l, of)
             p == [x3[l] EXCEPT !.editId = of, !.form = f]
  <2>1. x4' = x4 + 1 /\ x4 \in Nat
    BY <1>3 DEF Settings!ShowForm, FormsInv
  <2>2. x3' = [x3 EXCEPT ![l].editId = of, ![l].form = f]
    BY <1>3 DEF Settings!ShowForm
  <2>3. IsPut(x3', x3, l, p)
    BY <2>2 DEF IsPut
  <2>4. FormOk(f, x1, x4 + 1) /\ f.n = x4 + 1 /\ ~f.saving
    <3> DEFINE least == Settings!Min(x3[l].providers)
               existing == {e \in x3[l].entries : e.id = of}
               primary == IF x3[l].providers = {} THEN None ELSE least
    <3>1. x3[l].providers # {} => least \in x3[l].providers
      <4>1. x3[l].providers \subseteq Nat
        BY <1>2 DEF FormPanelOk, FormsInv, EntriesOk, IsEntry, Providers, Settings!List
      <4>2. x3[l].providers # {} =>
              \E x \in x3[l].providers : \A y \in x3[l].providers : x <= y
        BY <4>1, LeastExists
      <4> QED BY <4>2 DEF Settings!Min
    <3>2. primary = None \/ primary \in Providers(x1)
      BY <1>2, <3>1 DEF FormPanelOk
    <3>3. f = [n |-> x4 + 1, text |-> IF existing = {} THEN 0 ELSE of, filled |-> existing # {},
               primary |-> primary, saving |-> FALSE]
      BY DEF Settings!NewForm
    <3> HIDE DEF primary, existing, f
    <3> QED BY <2>1, <3>2, <3>3 DEF FormOk, IsForm
  <2> HIDE DEF f
  <2>5. FormPanelOk(p, x1, x4 + 1) /\ p.form = f
    BY <1>2, <2>4 DEF FormPanelOk
  <2> HIDE DEF p
  <2>6. PanelsOk(x3, x1, x4 + 1)
    BY <2>1, MorePanels DEF FormsInv
  <2>7. \A k \in Settings!List : x3[k].form # None => x3[k].form.n # f.n
    BY <2>1, <2>4 DEF FormsInv, PanelsOk, FormPanelOk, FormOk, IsForm
  <2>8. PanelsOk(x3', x1, x4 + 1) /\ x3'[l] = p /\ \A k \in Settings!List : k # l => x3'[k] = x3[k]
    <3>1. \A k \in Settings!List : k # l /\ x3[k].form # None => x3[k].form.n # p.form.n
      BY <2>5, <2>7
    <3>2. FormPanelOk(p, x1, x4 + 1)
      BY <2>5
    <3> QED BY <2>3, <2>6, <3>1, <3>2, PanelChanged
  <2>9. EntriesOk(x1, x4 + 1) /\ RequestsOk(x5, x1, x4 + 1)
    <3>1. EntriesOk(x1, x4 + 1)
      BY <2>1 DEF FormsInv, EntriesOk, IsEntry
    <3>2. RequestsOk(x5, x1, x4 + 1)
      BY <2>1 DEF FormsInv, RequestsOk, FormRequestOk, FormOk, IsForm
    <3> QED BY <3>1, <3>2
  <2>10. NoEntry(x1, f.n) /\ \A r \in x5 : r.kind = "save" => r.form.n # f.n
    <3>1. NoEntry(x1, f.n)
      BY <2>1, <2>4 DEF FormsInv, EntriesOk, IsEntry, NoEntry
    <3>2. \A r \in x5 : r.kind = "save" => r.form.n # f.n
      BY <2>1, <2>4 DEF FormsInv, RequestsOk, FormRequestOk, FormOk, IsForm
    <3> QED BY <3>1, <3>2
  <2>11. Unsent(x3', x1, x5)
    BY <2>5, <2>8, <2>10 DEF FormsInv, Unsent
  <2> QED BY <1>1, <2>1, <2>8, <2>9, <2>11 DEF FormsInv
<1>4. CASE x3[l].form # None
  <2> DEFINE p == [x3[l] EXCEPT !.editId = of]
  <2>1. x3' = [x3 EXCEPT ![l].editId = of] /\ x4' = x4
    BY <1>4 DEF Settings!ShowForm
  <2>2. IsPut(x3', x3, l, p)
    BY <2>1 DEF IsPut
  <2>3. FormPanelOk(p, x1, x4) /\ p.form = x3[l].form
    BY <1>2 DEF FormPanelOk
  <2> HIDE DEF p
  <2>4. PanelsOk(x3', x1, x4) /\ x3'[l] = p /\ \A k \in Settings!List : k # l => x3'[k] = x3[k]
    <3>1. PanelsOk(x3, x1, x4)
      BY DEF FormsInv
    <3>2. \A k \in Settings!List : k # l /\ x3[k].form # None => x3[k].form.n # p.form.n
      BY <1>4, <2>3, <3>1 DEF PanelsOk
    <3> QED BY <2>2, <2>3, <3>1, <3>2, PanelChanged
  <2> QED BY <1>1, <2>1, <2>3, <2>4 DEF FormsInv, Unsent
<1> QED BY <1>3, <1>4

(* Leaving a form, filling it in or choosing a provider sends nothing. *)
LEMMA FormsEdit ==
  ASSUME FormsInv, NEW l \in Settings!List, x3[l].form # None,
         Settings!Cancel(l) \/ Settings!Fill(l) \/ Settings!ChooseProvider(l)
  PROVE  FormsInv'
<1>1. UNCHANGED <<x1, x2, x4, x5>>
  BY DEF Settings!Cancel, Settings!Fill, Settings!ChooseProvider
<1>2. FormPanelOk(x3[l], x1, x4) /\ FormOk(x3[l].form, x1, x4)
  BY DEF FormsInv, PanelsOk, FormPanelOk
<1>3. CASE Settings!Cancel(l)
  <2> DEFINE p == [x3[l] EXCEPT !.form = None]
  <2>1. x3' = [x3 EXCEPT ![l].form = None]
    BY <1>3 DEF Settings!Cancel
  <2>2. IsPut(x3', x3, l, p)
    BY <2>1 DEF IsPut
  <2>3. FormPanelOk(p, x1, x4) /\ p.form = None
    BY <1>2 DEF FormPanelOk
  <2> HIDE DEF p
  <2>4. PanelsOk(x3', x1, x4) /\ x3'[l] = p /\ \A k \in Settings!List : k # l => x3'[k] = x3[k]
    <3>1. PanelsOk(x3, x1, x4)
      BY DEF FormsInv
    <3> QED BY <2>2, <2>3, <3>1, PanelChanged
  <2> QED BY <1>1, <2>3, <2>4 DEF FormsInv, Unsent
<1>4. ASSUME NEW f, FormOk(f, x1, x4), f.n = x3[l].form.n, f.saving = x3[l].form.saving,
             x3' = [x3 EXCEPT ![l] = [x3[l] EXCEPT !.form = f]]
      PROVE  FormsInv'
  <2> DEFINE p == [x3[l] EXCEPT !.form = f]
  <2>3. FormPanelOk(p, x1, x4) /\ p.form = f
    BY <1>2, <1>4 DEF FormPanelOk
  <2>4. IsPut(x3', x3, l, p)
    BY <1>4 DEF IsPut
  <2> HIDE DEF p
  <2>5. PanelsOk(x3', x1, x4) /\ x3'[l] = p /\ \A k \in Settings!List : k # l => x3'[k] = x3[k]
    <3>1. PanelsOk(x3, x1, x4)
      BY DEF FormsInv
    <3>2. \A k \in Settings!List : k # l /\ x3[k].form # None => x3[k].form.n # p.form.n
      BY <1>4, <2>3, <3>1 DEF PanelsOk
    <3> QED BY <2>3, <2>4, <3>1, <3>2, PanelChanged
  <2> QED BY <1>1, <1>4, <2>3, <2>5 DEF FormsInv, Unsent
<1>5. CASE Settings!Fill(l)
  <2> DEFINE f == [x3[l].form EXCEPT !.filled = ~@]
  <2>1. x3' = [x3 EXCEPT ![l].form.filled = ~@]
    BY <1>5 DEF Settings!Fill
  <2>2. x3' = [x3 EXCEPT ![l] = [x3[l] EXCEPT !.form = f]]
    BY <2>1
  <2>3. FormOk(f, x1, x4) /\ f.n = x3[l].form.n /\ f.saving = x3[l].form.saving
    BY <1>2 DEF FormOk, IsForm
  <2> HIDE DEF f
  <2> QED BY <1>4, <2>2, <2>3
<1>6. CASE Settings!ChooseProvider(l)
  <2>0. PICK provider \in x3[l].providers : x3' = [x3 EXCEPT ![l].form.primary = provider]
    BY <1>6 DEF Settings!ChooseProvider
  <2> DEFINE f == [x3[l].form EXCEPT !.primary = provider]
  <2>1. x3' = [x3 EXCEPT ![l] = [x3[l] EXCEPT !.form = f]]
    BY <2>0
  <2>2. FormOk(f, x1, x4) /\ f.n = x3[l].form.n /\ f.saving = x3[l].form.saving
    BY <1>2 DEF FormOk, IsForm, FormPanelOk
  <2> HIDE DEF f
  <2> QED BY <1>4, <2>1, <2>2
<1> QED BY <1>3, <1>5, <1>6


(* A form that is saved has not been sent, and cannot be sent again. *)
LEMMA FormsSave ==
  ASSUME FormsInv, NEW l \in Settings!List, x3[l].form # None, Settings!Save(l)
  PROVE  FormsInv'
<1> DEFINE form == x3[l].form
           f == [form EXCEPT !.saving = TRUE]
           p == [x3[l] EXCEPT !.form = f]
           i == Settings!Min((1 .. MaxFormRequests) \ {r.id : r \in x5})
           q == [id |-> i, kind |-> "save", list |-> l, of |-> x3[l].editId, form |-> form,
                 heard |-> TRUE, served |-> FALSE, answer |-> {}]
<1>1. FormPanelOk(x3[l], x1, x4) /\ FormOk(form, x1, x4)
  BY DEF FormsInv, PanelsOk, FormPanelOk
<1>2. ~form.saving /\ (l = "routes" => form.primary \in Providers(x1))
  BY <1>1 DEF Settings!Save, Settings!CanSave, FormOk
<1>3. x3' = [x3 EXCEPT ![l].form.saving = TRUE] /\ UNCHANGED <<x1, x2, x4>>
  BY DEF Settings!Save
<1>4. IsPut(x3', x3, l, p)
  BY <1>3 DEF IsPut
<1>5. x5' = x5 \cup {q}
  BY DEF Settings!Save, Settings!Requested
<1>6. FormOk(f, x1, x4) /\ f.n = form.n /\ f.saving = TRUE
  BY <1>1 DEF FormOk, IsForm
<1> HIDE DEF f
<1>7. FormPanelOk(p, x1, x4) /\ p.form = f
  BY <1>1, <1>6 DEF FormPanelOk
<1> HIDE DEF p, i
<1>8. PanelsOk(x3, x1, x4) /\ RequestsOk(x5, x1, x4) /\ Unsent(x3, x1, x5)
  BY DEF FormsInv
<1>9. \A k \in Settings!List : k # l /\ x3[k].form # None => x3[k].form.n # form.n
  BY <1>8 DEF PanelsOk
<1>10. PanelsOk(x3', x1, x4) /\ x3'[l] = p /\ \A k \in Settings!List : k # l => x3'[k] = x3[k]
  <2>1. \A k \in Settings!List : k # l /\ x3[k].form # None => x3[k].form.n # p.form.n
    BY <1>6, <1>7, <1>9
  <2>2. FormPanelOk(p, x1, x4)
    BY <1>7
  <2> QED BY <1>4, <1>8, <2>1, <2>2, PanelChanged
<1>11. NoEntry(x1, form.n) /\ \A r \in x5 : r.kind = "save" => r.form.n # form.n
  BY <1>2, <1>8 DEF Unsent
<1>12. FormRequestOk(q, x1, x4) /\ q.kind = "save" /\ q.form = form
  BY <1>1, <1>2, <1>11 DEF FormRequestOk, IsFormRequest
<1> HIDE DEF q, form
<1>13. RequestsOk(x5', x1, x4)
  BY <1>5, <1>8, <1>11, <1>12 DEF RequestsOk
<1>14. Unsent(x3', x1, x5')
  <2> SUFFICES ASSUME NEW k \in Settings!List, x3'[k].form # None, ~x3'[k].form.saving
               PROVE  /\ NoEntry(x1, x3'[k].form.n)
                      /\ \A r \in x5' : r.kind = "save" => r.form.n # x3'[k].form.n
    BY DEF Unsent
  <2>1. k # l /\ x3'[k] = x3[k]
    BY <1>6, <1>7, <1>10
  <2>2. x3[k].form.n # form.n
    BY <1>9, <2>1
  <2> QED BY <1>5, <1>8, <1>12, <2>1, <2>2 DEF Unsent
<1> QED BY <1>3, <1>10, <1>13, <1>14 DEF FormsInv

(* A section that is shown asks for its lists; no form is shown then. *)
LEMMA FormsNavigate ==
  ASSUME FormsInv, NEW s \in Settings!Section, Settings!Navigate(s)
  PROVE  FormsInv'
<1> DEFINE f == [r \in x5 |-> [r EXCEPT !.heard = FALSE]]
           left == {f[r] : r \in x5}
<1>1. RequestsOk(x5, x1, x4)
  BY DEF FormsInv
<1>2. \A r \in x5 : Hears(f[r], r)
  <2>1. \A r \in x5 : IsFormRequest(r)
    BY <1>1 DEF RequestsOk, FormRequestOk
  <2> TAKE r \in x5
  <2>2. Hears([r EXCEPT !.heard = FALSE], r)
    BY <2>1 DEF Hears, IsFormRequest
  <2> QED BY <2>2
<1>3. {[r EXCEPT !.heard = FALSE] : r \in x5} = left
  OBVIOUS
<1>4. x5' = IF s = "llm-gateway" THEN Settings!Load(Settings!Load(left, "providers"), "routes")
            ELSE IF s = "glossary" THEN Settings!Load(left, "glossary") ELSE left
  BY <1>3, Zenon DEF Settings!Navigate
<1> HIDE DEF f
<1>5. RequestsOk(left, x1, x4)
  BY <1>1, <1>2, AllHear
<1> HIDE DEF left
<1>6. RequestsOk(x5', x1, x4)
  <2>1. {"providers", "routes", "glossary"} = Settings!List
    BY DEF Settings!List
  <2>2. CASE s = "llm-gateway"
    <3>1. RequestsOk(Settings!Load(left, "providers"), x1, x4)
      BY <1>5, <2>1, LoadOk
    <3>2. RequestsOk(Settings!Load(Settings!Load(left, "providers"), "routes"), x1, x4)
      BY <2>1, <3>1, LoadOk
    <3> QED BY <1>4, <2>2, <3>2
  <2>3. CASE s = "glossary"
    <3>1. RequestsOk(Settings!Load(left, "glossary"), x1, x4)
      BY <1>5, <2>1, LoadOk
    <3> QED BY <1>4, <2>3, <3>1
  <2>4. CASE s # "llm-gateway" /\ s # "glossary"
    BY <1>4, <1>5, <2>4
  <2> QED BY <2>2, <2>3, <2>4
<1>7. x3' = [l \in Settings!List |-> Settings!NoPanel] /\ UNCHANGED <<x1, x4>>
  BY DEF Settings!Navigate
<1>8. PanelsOk(x3', x1, x4) /\ Unsent(x3', x1, x5')
  BY <1>7 DEF PanelsOk, FormPanelOk, Settings!NoPanel, Unsent
<1> QED BY <1>6, <1>7, <1>8 DEF FormsInv

(* A list that is loaded has the providers there are. *)
LEMMA FormsLoaded ==
  ASSUME FormsInv, NEW r \in x5, Settings!Loaded(r)
  PROVE  FormsInv'
<1>1. UNCHANGED <<x1, x2, x4>> /\ x5' = x5 \ {r} /\ r.kind = "load" /\ r.served
  BY DEF Settings!Loaded
<1>2. PanelsOk(x3, x1, x4) /\ RequestsOk(x5, x1, x4) /\ Unsent(x3, x1, x5)
  BY DEF FormsInv
<1>3. RequestsOk(x5', x1, x4) /\ \A ps : Unsent(ps, x1, x5) => Unsent(ps, x1, x5')
  BY <1>1, <1>2 DEF RequestsOk, Unsent
<1>4. CASE ~r.heard
  BY <1>1, <1>2, <1>3, <1>4 DEF FormsInv, Settings!Loaded
<1>5. CASE r.heard
  <2> DEFINE l == r.list
             providers == IF r.list = "routes" THEN r.answer.providers ELSE {}
             p == [x3[l] EXCEPT !.entries = r.answer.entries, !.providers = providers]
  <2>1. l \in Settings!List /\ r.answer.providers \subseteq Providers(x1)
    BY <1>1, <1>2 DEF RequestsOk, FormRequestOk
  <2>2. x3' = [x3 EXCEPT ![l].entries = r.answer.entries, ![l].providers = providers]
    BY <1>5 DEF Settings!Loaded
  <2>3. providers \subseteq Providers(x1)
    BY <2>1
  <2> HIDE DEF providers, l
  <2>4. IsPut(x3', x3, l, p)
    BY <2>2 DEF IsPut
  <2>5. FormPanelOk(p, x1, x4) /\ p.form = x3[l].form
    BY <1>2, <2>1, <2>3 DEF PanelsOk, FormPanelOk
  <2> HIDE DEF p
  <2>6. p.form # None =>
          \A k \in Settings!List : k # l /\ x3[k].form # None => x3[k].form.n # p.form.n
    BY <1>2, <2>1, <2>5 DEF PanelsOk
  <2>7. PanelsOk(x3', x1, x4) /\ x3'[l] = p /\ \A k \in Settings!List : k # l => x3'[k] = x3[k]
    BY <1>2, <2>1, <2>4, <2>5, <2>6, PanelChanged
  <2>8. Unsent(x3', x1, x5)
    BY <1>2, <2>1, <2>5, <2>7 DEF Unsent
  <2> QED BY <1>1, <1>3, <2>7, <2>8 DEF FormsInv
<1> QED BY <1>4, <1>5

(* A save that is done closes the form, whichever it is, and loads. *)
LEMMA FormsSaved ==
  ASSUME FormsInv, NEW r \in x5, Settings!Saved(r)
  PROVE  FormsInv'
<1> DEFINE rest == x5 \ {r}
           asked == Settings!Load(rest, r.list)
           f == [q \in asked |-> [q EXCEPT !.heard = @ /\ (q \in x5 \/ r.heard)]]
<1>1. PanelsOk(x3, x1, x4) /\ RequestsOk(x5, x1, x4) /\ Unsent(x3, x1, x5)
  BY DEF FormsInv
<1>2. UNCHANGED <<x1, x2, x4>>
  BY DEF Settings!Saved
<1>3. x5' = {[q EXCEPT !.heard = @ /\ (q \in x5 \/ r.heard)] : q \in asked}
  BY DEF Settings!Saved
<1>4. x5' = {f[q] : q \in asked}
  BY <1>3
<1>5. r.list \in Settings!List
  BY <1>1 DEF RequestsOk, FormRequestOk
<1>6. RequestsOk(rest, x1, x4) /\ \A ps : Unsent(ps, x1, x5) => Unsent(ps, x1, rest)
  BY <1>1 DEF RequestsOk, Unsent
<1> HIDE DEF rest
<1>7. RequestsOk(asked, x1, x4) /\ \A ps : Unsent(ps, x1, x5) => Unsent(ps, x1, asked)
  BY <1>5, <1>6, LoadOk
<1> HIDE DEF asked
<1>8. \A q \in asked : Hears(f[q], q)
  <2>1. \A q \in asked : IsFormRequest(q)
    BY <1>7 DEF RequestsOk, FormRequestOk
  <2> TAKE q \in asked
  <2> DEFINE h == q.heard /\ (q \in x5 \/ r.heard)
  <2>2. f[q] = [q EXCEPT !.heard = h]
    OBVIOUS
  <2> HIDE DEF h, f
  <2>3. Hears([q EXCEPT !.heard = h], q)
    BY <2>1 DEF Hears, IsFormRequest
  <2> QED BY <2>2, <2>3
<1> HIDE DEF f
<1>9. RequestsOk(x5', x1, x4) /\ \A ps : Unsent(ps, x1, x5) => Unsent(ps, x1, x5')
  BY <1>4, <1>7, <1>8, AllHear
<1>10. CASE r.heard
  <2> DEFINE p == [x3[r.list] EXCEPT !.form = None]
  <2>1. x3' = [x3 EXCEPT ![r.list].form = None]
    BY <1>10 DEF Settings!Saved
  <2>2. IsPut(x3', x3, r.list, p)
    BY <2>1 DEF IsPut
  <2>3. FormPanelOk(p, x1, x4) /\ p.form = None
    BY <1>1, <1>5 DEF PanelsOk, FormPanelOk
  <2> HIDE DEF p
  <2>4. /\ PanelsOk(x3', x1, x4) /\ x3'[r.list] = p
        /\ \A k \in Settings!List : k # r.list => x3'[k] = x3[k]
    BY <1>1, <1>5, <2>2, <2>3, PanelChanged
  <2>5. Unsent(x3', x1, x5)
    BY <1>1, <2>3, <2>4 DEF Unsent
  <2> QED BY <1>2, <1>9, <2>4, <2>5 DEF FormsInv
<1>11. CASE ~r.heard
  <2>1. x3' = x3
    BY <1>11 DEF Settings!Saved
  <2> QED BY <1>1, <1>2, <1>9, <2>1 DEF FormsInv
<1> QED BY <1>10, <1>11


(* A list may be another one with the same or more entries, each of a form *)
(* of its own.                                                             *)
LEMMA EntriesChanged ==
  ASSUME NEW db, NEW n, EntriesOk(db, n), NEW l \in Settings!List, NEW es,
         IsFiniteSet(es), \A e \in es : IsEntry(e) /\ e.form <= n,
         \A e1, e2 \in es : e1.form = e2.form /\ e1.form # 0 => e1 = e2,
         \A e \in db[l] : \E e2 \in es : e2.id = e.id,
         l = "routes" => \A e \in es : e.primary \in Providers(db),
         NEW db2, IsPut(db2, db, l, es)
  PROVE  EntriesOk(db2, n) /\ Providers(db) \subseteq Providers(db2)
<1>1. /\ db2 \in [Settings!List -> {db2[k] : k \in Settings!List}]
      /\ db2[l] = es /\ \A k \in Settings!List : k # l => db2[k] = db[k]
  BY DEF IsPut, EntriesOk
<1>2. Providers(db) \subseteq Providers(db2)
  <2>1. CASE l = "providers"
    BY <1>1, <2>1 DEF Providers
  <2>2. CASE l # "providers"
    BY <1>1, <2>2 DEF Providers, Settings!List
  <2> QED BY <2>1, <2>2
<1>3. \A e \in db2["routes"] : e.primary \in Providers(db2)
  <2>1. CASE l = "routes"
    BY <1>1, <1>2, <2>1
  <2>2. CASE l # "routes"
    BY <1>1, <1>2, <2>2 DEF EntriesOk, Settings!List
  <2> QED BY <2>1, <2>2
<1>4. ASSUME NEW k \in Settings!List
      PROVE  /\ IsFiniteSet(db2[k])
             /\ \A e \in db2[k] : IsEntry(e) /\ e.form <= n
             /\ \A e1, e2 \in db2[k] : e1.form = e2.form /\ e1.form # 0 => e1 = e2
  <2>1. CASE k = l
    BY <1>1, <2>1
  <2>2. CASE k # l
    BY <1>1, <2>2 DEF EntriesOk
  <2> QED BY <2>1, <2>2
<1> QED BY <1>1, <1>2, <1>3, <1>4 DEF EntriesOk

(* An entry gets another text. *)
Retold(e, of, text) == IF e.id = of THEN [e EXCEPT !.text = text] ELSE e

(* It is the same entry otherwise. *)
LEMMA RetoldEntry ==
  ASSUME NEW e, IsEntry(e), NEW of, NEW text
  PROVE  /\ IsEntry(Retold(e, of, text))
         /\ Retold(e, of, text).id = e.id /\ Retold(e, of, text).form = e.form
         /\ Retold(e, of, text).primary = e.primary
BY DEF IsEntry, Retold

AllRetold(es, s, of, text) == es = {Retold(e, of, text) : e \in s}

(* So is the list. *)
LEMMA EntriesRetold ==
  ASSUME NEW db, NEW n, EntriesOk(db, n), NEW l \in Settings!List, NEW of, NEW text, NEW es,
         AllRetold(es, db[l], of, text), NEW db2, IsPut(db2, db, l, es)
  PROVE  /\ EntriesOk(db2, n) /\ Providers(db) \subseteq Providers(db2)
         /\ \A m : NoEntry(db, m) => NoEntry(db2, m)
<1> DEFINE f == [e \in db[l] |-> Retold(e, of, text)]
<1>1. f \in Surjection(db[l], es)
  BY DEF Surjection, AllRetold
<1>2. IsFiniteSet(es)
  <2>1. IsFiniteSet(db[l])
    BY DEF EntriesOk
  <2> HIDE DEF f
  <2> QED BY <1>1, <2>1, FS_Surjection
<1>3. \A e \in db[l] : IsEntry(e)
  BY DEF EntriesOk
<1>4. \A e \in es : \E e0 \in db[l] :
        /\ e = Retold(e0, of, text) /\ IsEntry(e)
        /\ e.id = e0.id /\ e.form = e0.form /\ e.primary = e0.primary
  BY <1>3, RetoldEntry DEF AllRetold
<1>5. \A e0 \in db[l] : \E e \in es : e.id = e0.id
  BY <1>3, RetoldEntry DEF AllRetold
<1>6. \A e1, e2 \in es : e1.form = e2.form /\ e1.form # 0 => e1 = e2
  BY <1>4 DEF EntriesOk
<1>7. \A e \in es : IsEntry(e) /\ e.form <= n
  BY <1>4 DEF EntriesOk
<1>8. l = "routes" => \A e \in es : e.primary \in Providers(db)
  BY <1>4 DEF EntriesOk
<1> HIDE DEF f
<1>9. EntriesOk(db2, n) /\ Providers(db) \subseteq Providers(db2)
  BY <1>2, <1>5, <1>6, <1>7, <1>8, EntriesChanged
<1>10. db2[l] = es /\ \A k \in Settings!List : k # l => db2[k] = db[k]
  BY DEF IsPut, EntriesOk
<1> QED BY <1>4, <1>9, <1>10 DEF NoEntry

(* An entry is added that is of a form none is of. *)
LEMMA EntryAdded ==
  ASSUME NEW db, NEW n, EntriesOk(db, n), NEW l \in Settings!List, NEW e, IsEntry(e),
         e.form <= n, NoEntry(db, e.form), l = "routes" => e.primary \in Providers(db),
         NEW es, es = db[l] \cup {e}, NEW db2, IsPut(db2, db, l, es)
  PROVE  /\ EntriesOk(db2, n) /\ Providers(db) \subseteq Providers(db2)
         /\ \A m : m # e.form /\ NoEntry(db, m) => NoEntry(db2, m)
<1>1. IsFiniteSet(es)
  BY FS_AddElement DEF EntriesOk
<1>2. /\ \A e0 \in es : IsEntry(e0) /\ e0.form <= n
      /\ \A e1, e2 \in es : e1.form = e2.form /\ e1.form # 0 => e1 = e2
      /\ \A e0 \in db[l] : \E e2 \in es : e2.id = e0.id
      /\ l = "routes" => \A e0 \in es : e0.primary \in Providers(db)
  BY DEF EntriesOk, NoEntry
<1>3. EntriesOk(db2, n) /\ Providers(db) \subseteq Providers(db2)
  BY <1>1, <1>2, EntriesChanged
<1>4. db2[l] = es /\ \A k \in Settings!List : k # l => db2[k] = db[k]
  BY DEF IsPut, EntriesOk
<1> QED BY <1>3, <1>4 DEF NoEntry

(* A request that is served, with an answer *)
FormServed(r, x) == [r EXCEPT !.served = TRUE, !.answer = x]

(* It asks for the same. *)
LEMMA FormServedFields ==
  ASSUME NEW r, IsFormRequest(r), NEW x
  PROVE  /\ IsFormRequest(FormServed(r, x))
         /\ FormServed(r, x).kind = r.kind /\ FormServed(r, x).list = r.list
         /\ FormServed(r, x).form = r.form /\ FormServed(r, x).served = TRUE
         /\ FormServed(r, x).answer = x
BY DEF IsFormRequest, FormServed

(* What is served may put an entry of its form there, and no other. *)
LEMMA FormsServed ==
  ASSUME FormsInv, NEW r \in x5, ~r.served, NEW x,
         r.kind = "load" => x.providers \subseteq Providers(x1'),
         x5' = (x5 \ {r}) \cup {FormServed(r, x)}, UNCHANGED <<x3, x4>>,
         EntriesOk(x1', x4), Providers(x1) \subseteq Providers(x1'),
         \A m : NoEntry(x1, m) /\ (r.kind = "save" => m # r.form.n) => NoEntry(x1', m)
  PROVE  FormsInv'
<1>1. PanelsOk(x3, x1, x4) /\ RequestsOk(x5, x1, x4) /\ Unsent(x3, x1, x5) /\ x4 \in Nat
  BY DEF FormsInv
<1>2. PanelsOk(x3, x1', x4)
  BY <1>1, MorePanels
<1> DEFINE p == FormServed(r, x)
<1>3. FormRequestOk(r, x1, x4)
  BY <1>1 DEF RequestsOk
<1>4. /\ IsFormRequest(p) /\ p.kind = r.kind /\ p.list = r.list /\ p.form = r.form
      /\ p.served = TRUE /\ p.answer = x
  BY <1>3, FormServedFields DEF FormRequestOk
<1> HIDE DEF p
<1>5. FormRequestOk(p, x1', x4)
  BY <1>3, <1>4 DEF FormRequestOk, FormOk
<1>6. ASSUME NEW q \in x5 \ {r}
      PROVE  FormRequestOk(q, x1', x4)
  <2>1. FormRequestOk(q, x1, x4)
    BY <1>1 DEF RequestsOk
  <2>2. q.kind = "save" /\ r.kind = "save" => q.form.n # r.form.n
    BY <1>1 DEF RequestsOk
  <2> QED BY <2>1, <2>2 DEF FormRequestOk, FormOk
<1>7. x5' = (x5 \ {r}) \cup {p}
  BY DEF p
<1>8. RequestsOk(x5', x1', x4)
  BY <1>1, <1>4, <1>5, <1>6, <1>7 DEF RequestsOk
<1>9. Unsent(x3, x1', x5')
  BY <1>1, <1>4, <1>7 DEF Unsent
<1> QED BY <1>1, <1>2, <1>8, <1>9 DEF FormsInv

(* The server makes an entry of a form once. *)
LEMMA FormsServe ==
  ASSUME FormsInv, NEW r \in x5, Settings!Serve(r)
  PROVE  FormsInv'
<1> DEFINE x == IF r.kind = "load" THEN [entries |-> x1[r.list],
                                         providers |-> Settings!Ids(x1["providers"])]
                ELSE {}
<1>1. /\ ~r.served /\ x5' = (x5 \ {r}) \cup {FormServed(r, x)} /\ UNCHANGED <<x2, x3, x4>>
  BY DEF Settings!Serve, FormServed
<1>2. r.kind = "load" => x.providers = Providers(x1)
  BY DEF Settings!Ids, Providers
<1> HIDE DEF x
<1>3. EntriesOk(x1, x4) /\ RequestsOk(x5, x1, x4)
  BY DEF FormsInv
<1>4. FormRequestOk(r, x1, x4)
  BY <1>3 DEF RequestsOk
<1>5. r.list \in Settings!List
  BY <1>4 DEF FormRequestOk
<1>6. CASE r.kind = "load"
  <2>1. x1' = x1
    BY <1>6 DEF Settings!Serve
  <2> QED BY <1>1, <1>2, <1>3, <2>1, FormsServed
<1>7. CASE r.kind # "load" /\ r.of # None
  <2> DEFINE es == {Retold(e, r.of, r.form.text) : e \in x1[r.list]}
  <2>1. x1' = [x1 EXCEPT ![r.list] = es]
    BY <1>7 DEF Settings!Serve, Retold
  <2>2. IsPut(x1', x1, r.list, es) /\ AllRetold(es, x1[r.list], r.of, r.form.text)
    BY <2>1 DEF IsPut, AllRetold
  <2> HIDE DEF es
  <2>3. EntriesOk(x1, x4) /\ IsPut(x1', x1, r.list, es)
    BY <1>3, <2>2
  <2>4. AllRetold(es, x1[r.list], r.of, r.form.text)
    BY <2>2
  <2> DEFINE s == x1[r.list]
             t == r.form.text
  <2>6. AllRetold(es, s, r.of, t) /\ s = x1[r.list]
    BY <2>4
  <2> HIDE DEF s, t
  <2>5. /\ EntriesOk(x1', x4) /\ Providers(x1) \subseteq Providers(x1')
        /\ \A m : NoEntry(x1, m) => NoEntry(x1', m)
    BY <1>5, <2>3, <2>6, EntriesRetold
  <2> QED BY <1>1, <1>7, <2>5, FormsServed
<1>8. CASE r.kind # "load" /\ r.of = None
  <2> DEFINE n == Settings!Cardinality(x1[r.list]) + 1
             primary == IF r.list = "routes" THEN r.form.primary ELSE None
             e == Settings!Entry(n, r.form.n, r.form.text, primary)
             es == x1[r.list] \cup {e}
  <2>1. x1' = [x1 EXCEPT ![r.list] = es]
    BY <1>8 DEF Settings!Serve
  <2>2. IsPut(x1', x1, r.list, es)
    BY <2>1 DEF IsPut
  <2>3. n \in Nat
    BY <1>3, <1>5, FormsCount, FS_CardinalityType DEF EntriesOk
  <2>4. /\ FormOk(r.form, x1, x4) /\ NoEntry(x1, r.form.n)
        /\ r.list = "routes" => primary \in Providers(x1)
    BY <1>1, <1>4, <1>8 DEF FormRequestOk
  <2> HIDE DEF n, primary
  <2>5. /\ IsEntry(e) /\ e.form = r.form.n /\ e.primary = primary /\ e.form <= x4
    BY <2>3, <2>4 DEF Settings!Entry, IsEntry, FormOk, IsForm
  <2> HIDE DEF e
  <2>6. /\ EntriesOk(x1', x4) /\ Providers(x1) \subseteq Providers(x1')
        /\ \A m : m # e.form /\ NoEntry(x1, m) => NoEntry(x1', m)
    BY <1>3, <1>5, <2>2, <2>4, <2>5, EntryAdded
  <2>7. r.kind = "save"
    BY <1>4, <1>8 DEF FormRequestOk
  <2>8. \A m : NoEntry(x1, m) /\ m # r.form.n => NoEntry(x1', m)
    BY <2>5, <2>6
  <2> QED BY <1>1, <2>6, <2>7, <2>8, FormsServed
<1> QED BY <1>6, <1>7, <1>8


(* A save that failed gives its form back. *)
LEMMA FormsFailed ==
  ASSUME FormsInv, NEW r \in x5, Settings!Failed(r)
  PROVE  FormsInv'
<1>1. UNCHANGED <<x1, x2, x4>> /\ x5' = x5 \ {r} /\ ~r.served
  BY DEF Settings!Failed
<1>2. PanelsOk(x3, x1, x4) /\ RequestsOk(x5, x1, x4) /\ Unsent(x3, x1, x5)
  BY DEF FormsInv
<1>3. RequestsOk(x5', x1, x4)
  BY <1>1, <1>2 DEF RequestsOk
<1>4. FormRequestOk(r, x1, x4) /\ r.list \in Settings!List
  BY <1>2 DEF RequestsOk, FormRequestOk
<1> DEFINE l == r.list
           form == x3[l].form
           back == r.kind = "save" /\ form # None /\ form.n = r.form.n
<1>5. CASE ~back
  <2>1. x3' = x3
    BY <1>5 DEF Settings!Failed
  <2>2. Unsent(x3, x1, x5')
    BY <1>1, <1>2 DEF Unsent
  <2> QED BY <1>1, <1>2, <1>3, <2>1, <2>2 DEF FormsInv
<1>6. CASE back
  <2> DEFINE f == [form EXCEPT !.saving = FALSE]
             p == [x3[l] EXCEPT !.form = f]
  <2>1. x3' = [x3 EXCEPT ![l].form.saving = FALSE]
    BY <1>6 DEF Settings!Failed
  <2>2. IsPut(x3', x3, l, p)
    BY <2>1 DEF IsPut
  <2>3. FormPanelOk(x3[l], x1, x4) /\ FormOk(form, x1, x4)
    BY <1>2, <1>4, <1>6 DEF PanelsOk, FormPanelOk
  <2>4. FormOk(f, x1, x4) /\ f.n = form.n
    BY <2>3 DEF FormOk, IsForm
  <2> HIDE DEF f
  <2>5. FormPanelOk(p, x1, x4) /\ p.form = f
    BY <2>3, <2>4 DEF FormPanelOk
  <2> HIDE DEF p
  <2>6. \A k \in Settings!List : k # l /\ x3[k].form # None => x3[k].form.n # p.form.n
    BY <1>2, <1>4, <1>6, <2>4, <2>5 DEF PanelsOk
  <2>7. PanelsOk(x3', x1, x4) /\ x3'[l] = p /\ \A k \in Settings!List : k # l => x3'[k] = x3[k]
    <3>1. FormPanelOk(p, x1, x4)
      BY <2>5
    <3> QED BY <1>2, <1>4, <2>2, <2>6, <3>1, PanelChanged
  <2>8. NoEntry(x1, f.n) /\ \A q \in x5' : q.kind = "save" => q.form.n # f.n
    <3>1. NoEntry(x1, f.n)
      BY <1>1, <1>4, <1>6, <2>4 DEF FormRequestOk
    <3>2. \A q \in x5' : q.kind = "save" => q.form.n # f.n
      BY <1>1, <1>2, <1>6, <2>4 DEF RequestsOk
    <3> QED BY <3>1, <3>2
  <2>9. Unsent(x3', x1, x5')
    <3> SUFFICES ASSUME NEW k \in Settings!List, x3'[k].form # None, ~x3'[k].form.saving
                 PROVE  /\ NoEntry(x1, x3'[k].form.n)
                        /\ \A q \in x5' : q.kind = "save" => q.form.n # x3'[k].form.n
      BY DEF Unsent
    <3>1. CASE k = l
      BY <2>5, <2>7, <2>8, <3>1
    <3>2. CASE k # l
      BY <1>1, <1>2, <2>7, <3>2 DEF Unsent
    <3> QED BY <3>1, <3>2
  <2> QED BY <1>1, <1>3, <2>7, <2>9 DEF FormsInv
<1> QED BY <1>5, <1>6

(* No step sends a form again that may have been done. *)
LEMMA FormsNext == FormsInv /\ Settings!Next => FormsInv'
<1> SUFFICES ASSUME FormsInv, Settings!Next PROVE FormsInv'
  OBVIOUS
<1>1. ASSUME NEW s \in Settings!Section, Settings!Navigate(s)
      PROVE FormsInv'
  BY <1>1, FormsNavigate
<1>2. ASSUME NEW l \in Settings!List, Settings!Panel(l)
      PROVE FormsInv'
  <2>1. CASE Settings!Edit(l) \/ Settings!Add(l)
    BY <2>1, FormsShow DEF Settings!Edit, Settings!Add
  <2>2. CASE Settings!Form(l)
    BY <2>2, FormsEdit, FormsSave DEF Settings!Form
  <2> QED BY <1>2, <2>1, <2>2 DEF Settings!Panel
<1>3. ASSUME NEW r \in x5,
             Settings!Serve(r) \/ Settings!Loaded(r) \/ Settings!Saved(r) \/ Settings!Failed(r)
      PROVE FormsInv'
  BY <1>3, FormsServe, FormsLoaded, FormsSaved, FormsFailed
<1> QED BY <1>1, <1>2, <1>3 DEF Settings!Next

(* So a form has made one entry at most. *)
LEMMA FormsOnce == FormsInv => Settings!FormsCreateOnce
BY DEF FormsInv, EntriesOk, Providers, Settings!FormsCreateOnce, Settings!Ids


-----------------------------------------------------------------------------
(* The list of studies on the home page *)

(* Before the studies are loaded the first page is shown, of none. *)
HomeInv ==
  /\ x1 \in [Home!Status -> Nat]
  /\ x2 \in [Home!Status -> Nat]
  /\ x6 \in {"all", "active", "drafts", "archived"}
  /\ x7 \in Nat
  /\ x8 \in {10, 20, 50}
  /\ x10 \in Nat /\ x11 \in Nat
  /\ x3 => x2 = Home!NoStudies /\ x7 = 0

(* Without studies there is no bar, so that no page is turned. *)
LEMMA NoBar == x2 = Home!NoStudies /\ HomeInv => ~Home!PaginationBar
BY DEF HomeInv, Home!NoStudies, Home!Status, Home!PaginationBar, Home!ListShown, Home!visible,
   Home!Total

(* The home page begins with a stock of studies, none of them loaded. *)
LEMMA HomeInit == Home!Init => HomeInv
BY PartsAssumption DEF Home!Init, HomeInv, Home!Status, Home!NoStudies

(* More drafts are still numbers of studies. *)
LEMMA MoreDrafts ==
  ASSUME NEW db \in [Home!Status -> Nat], NEW n \in Nat
  PROVE  [db EXCEPT !["draft"] = @ + n] \in [Home!Status -> Nat]
BY DEF Home!Status

(* Counts stay counts, and a page has a size that is offered. *)
LEMMA HomeNext == HomeInv /\ Home!Next => HomeInv'
<1> SUFFICES ASSUME HomeInv, Home!Next PROVE HomeInv'
  OBVIOUS
<1> USE DEF HomeInv
<1>1. Home!NoStudies \in [Home!Status -> Nat]
  BY DEF Home!NoStudies, Home!Status
<1>2. ASSUME NEW list \in {x1, Home!NoStudies}, Home!StudiesAnswered(list)
      PROVE HomeInv'
  BY <1>1, <1>2 DEF Home!StudiesAnswered, Home!pageVars, Home!createVars
<1>3. CASE Home!StatsAnswered
  BY <1>3 DEF Home!StatsAnswered, Home!pageVars, Home!createVars
<1>4. ASSUME NEW t \in {"all", "active", "drafts", "archived"}, Home!SetFilterTab(t)
      PROVE HomeInv'
  BY <1>4 DEF Home!SetFilterTab, Home!listVars, Home!createVars
<1>5. ASSUME NEW size \in {10, 20, 50}, Home!setPageSize(size)
      PROVE HomeInv'
  BY <1>5 DEF Home!setPageSize, Home!listVars, Home!createVars
<1>6. CASE Home!PreviousPage \/ Home!NextPage
  <2>1. /\ UNCHANGED <<x1, x2, x3, x6, x8, x10, x11>> /\ x7' \in Nat
        /\ Home!PaginationBar
    BY <1>6 DEF Home!PreviousPage, Home!NextPage, Home!listVars, Home!createVars
  <2> QED BY <2>1, NoBar
<1>7. ASSUME NEW p, Home!GoTo(p)
      PROVE HomeInv'
  BY <1>7 DEF Home!GoTo, Home!Navigate, Home!createVars
<1>8. CASE Home!ClickNewStudy \/ Home!RunNewStudy
  BY <1>8 DEF Home!ClickNewStudy, Home!RunNewStudy, Home!createStudy, Home!listVars,
              Home!pageVars
<1>9. CASE Home!createStudySuccess
  <2>1. x1' \in [Home!Status -> Nat]
    BY <1>9, MoreDrafts DEF Home!createStudySuccess
  <2> QED BY <1>9, <2>1 DEF Home!createStudySuccess, Home!Navigate
<1>10. CASE Home!createStudyFailure
  BY <1>10 DEF Home!createStudyFailure, Home!listVars, Home!pageVars
<1>11. ASSUME NEW study, Home!Fallback(study)
       PROVE HomeInv'
  <2>1. CASE x5 = study
    BY <1>11, <2>1 DEF Home!Fallback, Home!listVars, Home!pageVars
  <2>2. CASE x5 # study
    <3>1. PICK n \in 0 .. x10 : x1' = [x1 EXCEPT !["draft"] = @ + n]
      BY <1>11, <2>2 DEF Home!Fallback
    <3>2. x1' \in [Home!Status -> Nat]
      BY <3>1, MoreDrafts
    <3> QED BY <1>1, <1>11, <2>2, <3>2 DEF Home!Fallback
  <2> QED BY <2>1, <2>2
<1> QED
  BY <1>2, <1>3, <1>4, <1>5, <1>6, <1>7, <1>8, <1>9, <1>10, <1>11 DEF Home!Next

(* The number of studies of a tab *)
Counted(tab, list) ==
  CASE tab = "all"      -> Home!Total(list)
    [] tab = "active"   -> list["live"]
    [] tab = "drafts"   -> list["draft"]
    [] tab = "archived" -> list["closed"]

(* The list is shown, and its page begins past the end. *)
Stranded(place, count, page, size) == place = 0 /\ count > 0 /\ page * size >= count

(* A page is empty when it begins past the end. *)
LEMMA PastTheEnd ==
  ASSUME NEW v \in Nat, NEW s \in {10, 20, 50}, NEW p \in Nat
  PROVE  {i \in 0 .. v - 1 : p * s <= i /\ i < p * s + s} = {} <=> p * s >= v
<1> DEFINE a == p * s
<1>1. a \in Nat
  OBVIOUS
<1> HIDE DEF a
<1>2. ASSUME a < v
      PROVE a \in {i \in 0 .. v - 1 : a <= i /\ i < a + s}
  BY <1>1, <1>2
<1>3. a >= v => {i \in 0 .. v - 1 : a <= i /\ i < a + s} = {}
  BY <1>1
<1>4. {i \in 0 .. v - 1 : a <= i /\ i < a + s} = {} <=> a >= v
  BY <1>1, <1>2, <1>3
<1> QED BY <1>4 DEF a

(* Counts are numbers. *)
LEMMA CountedNat ==
  ASSUME NEW tab \in {"all", "active", "drafts", "archived"}, NEW list \in [Home!Status -> Nat]
  PROVE  Counted(tab, list) \in Nat
BY DEF Counted, Home!Total, Home!Status

(* The empty page of the home page is such a page, before a step ... *)
LEMMA EmptyIs ==
  HomeInv => (Home!EmptyPage <=> Stranded(x5, Counted(x6, x2), x7, x8))
<1> SUFFICES ASSUME HomeInv
             PROVE  Home!EmptyPage <=> Stranded(x5, Counted(x6, x2), x7, x8)
  OBVIOUS
<1> DEFINE v == Counted(x6, x2)
<1>1. v \in Nat
  BY CountedNat DEF HomeInv
<1>2. Home!EmptyPage <=>
        x5 = 0 /\ v > 0 /\ {i \in 0 .. v - 1 : x7 * x8 <= i /\ i < x7 * x8 + x8} = {}
  BY DEF Home!EmptyPage, Home!ListShown, Home!pagedStudies, Home!visible, Home!Home, Counted
<1> HIDE DEF v
<1>3. {i \in 0 .. v - 1 : x7 * x8 <= i /\ i < x7 * x8 + x8} = {} <=> x7 * x8 >= v
  BY <1>1, PastTheEnd DEF HomeInv
<1> QED BY <1>2, <1>3 DEF Stranded, v

(* ... and after it. *)
LEMMA EmptyIsNext ==
  HomeInv' => (Home!EmptyPage' <=> Stranded(x5', Counted(x6', x2'), x7', x8'))
<1> SUFFICES ASSUME HomeInv'
             PROVE  Home!EmptyPage' <=> Stranded(x5', Counted(x6', x2'), x7', x8')
  OBVIOUS
<1> DEFINE v == Counted(x6', x2')
<1>1. v \in Nat
  BY CountedNat DEF HomeInv
<1>2. Home!EmptyPage' <=>
        x5' = 0 /\ v > 0 /\ {i \in 0 .. v - 1 : x7' * x8' <= i /\ i < x7' * x8' + x8'} = {}
  BY DEF Home!EmptyPage, Home!ListShown, Home!pagedStudies, Home!visible, Home!Home, Counted
<1> HIDE DEF v
<1>3. {i \in 0 .. v - 1 : x7' * x8' <= i /\ i < x7' * x8' + x8'} = {} <=> x7' * x8' >= v
  <2>1. x7' \in Nat /\ x8' \in {10, 20, 50}
    BY DEF HomeInv
  <2> QED BY <1>1, <2>1, PastTheEnd
<1> QED BY <1>2, <1>3 DEF Stranded, v

(* A page before, the next of those there are, and a smaller size do not   *)
(* lead past the end.                                                      *)
LEMMA PagesReach ==
  ASSUME NEW v \in Nat, NEW s \in {10, 20, 50}, NEW p \in Nat, p * s < v
  PROVE  /\ p # 0 => (p - 1) * s < v
         /\ p < (v + s - 1) \div s - 1 => (p + 1) * s < v
         /\ \A t \in {10, 20, 50} : t <= s => p * t < v
<1>1. CASE s = 10
  BY <1>1
<1>2. CASE s = 20
  BY <1>2
<1>3. CASE s = 50
  BY <1>3
<1> QED BY <1>1, <1>2, <1>3

(* So only a larger size does. *)
LEMMA OnlySizes ==
  ASSUME HomeInv, HomeInv', Home!Next, ~Home!EmptyPage, Home!EmptyPage'
  PROVE  x8' > x8
<1> DEFINE v == Counted(x6, x2)
           w == Counted(x6', x2')
<1>1. ~Stranded(x5, v, x7, x8) /\ Stranded(x5', w, x7', x8')
  BY EmptyIs, EmptyIsNext
<1>2. v \in Nat /\ w \in Nat
  BY CountedNat DEF HomeInv
<1>3. /\ x7 \in Nat /\ x7' \in Nat /\ x8 \in {10, 20, 50} /\ x8' \in {10, 20, 50}
      /\ x11 \in Nat
  BY DEF HomeInv
<1>4. x7' # 0 /\ x5' = 0
  BY <1>1, <1>2, <1>3 DEF Stranded
<1>5. ~(UNCHANGED <<x2, x5, x6, x7, x8>>)
  BY <1>1
<1>17. Home!visible = v
  BY DEF Home!visible, Counted
<1>6. ASSUME UNCHANGED <<x2, x6>>, Home!PaginationBar
      PROVE  v = w /\ v > 0 /\ x7 * x8 < v
  <2>1. v = w
    BY <1>6
  <2>2. x5 = 0 /\ v > 0
    BY <1>6, <1>17 DEF Home!PaginationBar, Home!ListShown, Home!Home
  <2> HIDE DEF v, w
  <2> QED BY <1>1, <1>2, <1>3, <2>1, <2>2 DEF Stranded
<1>7. ~\E list : Home!StudiesAnswered(list)
  BY <1>4 DEF Home!StudiesAnswered, Home!pageVars, HomeInv
<1>8. ~Home!StatsAnswered
  BY <1>5 DEF Home!StatsAnswered, Home!pageVars
<1>9. ~\E t : Home!SetFilterTab(t)
  BY <1>4 DEF Home!SetFilterTab
<1>10. ~\E p : Home!GoTo(p)
  BY <1>4, <1>5 DEF Home!GoTo, Home!Navigate, Home!Home
<1>11. ~(Home!ClickNewStudy \/ Home!RunNewStudy \/ Home!createStudyFailure)
  BY <1>5 DEF Home!ClickNewStudy, Home!RunNewStudy, Home!createStudy, Home!createStudyFailure,
     Home!listVars, Home!pageVars
<1>12. ~Home!createStudySuccess
  BY <1>3, <1>4 DEF Home!createStudySuccess, Home!Navigate
<1>13. ~\E study : Home!Fallback(study)
  BY <1>4, <1>5 DEF Home!Fallback, Home!listVars, Home!pageVars
<1> HIDE DEF v, w
<1>14. CASE Home!PreviousPage
  <2>1. /\ UNCHANGED <<x2, x6, x8>> /\ Home!PaginationBar /\ x7 # 0 /\ x7' = x7 - 1
    BY <1>14 DEF Home!PreviousPage, Home!listVars
  <2>2. (x7 - 1) * x8 < w
    BY <1>2, <1>3, <1>6, <2>1, PagesReach
  <2> QED BY <1>1, <1>2, <1>3, <2>1, <2>2 DEF Stranded
<1>15. CASE Home!NextPage
  <2>1. /\ UNCHANGED <<x2, x6, x8>> /\ Home!PaginationBar /\ x7' = x7 + 1
        /\ x7 < Home!effectivePageCount - 1
    BY <1>15 DEF Home!NextPage, Home!listVars
  <2>2. Home!effectivePageCount = (v + x8 - 1) \div x8
    BY <1>2, <1>6, <1>17, <2>1 DEF Home!effectivePageCount
  <2>3. (x7 + 1) * x8 < w
    BY <1>2, <1>3, <1>6, <2>1, <2>2, PagesReach
  <2> QED BY <1>1, <1>2, <1>3, <2>1, <2>3 DEF Stranded
<1>16. ASSUME NEW size, Home!setPageSize(size), ~(x8' > x8)
       PROVE FALSE
  <2>1. UNCHANGED <<x2, x6, x7>> /\ Home!PaginationBar
    BY <1>16 DEF Home!setPageSize, Home!listVars
  <2>2. x8' <= x8
    BY <1>3, <1>16
  <2>3. v = w /\ x7 * x8 < v
    BY <1>6, <2>1
  <2>4. \A t \in {10, 20, 50} : t <= x8 => x7 * t < v
    BY <1>2, <1>3, <2>3, PagesReach
  <2>5. x7 * x8' < w
    BY <1>3, <2>2, <2>3, <2>4
  <2>6. x7' * x8' < w
    BY <2>1, <2>5
  <2> DEFINE first == x7' * x8'
  <2>7. first < w
    BY <2>6
  <2>9. first \in Int
    <3>1. x7' \in Int /\ x8' \in Int
      BY <1>3
    <3> QED BY <3>1
  <2>8. first >= w
    BY <1>1 DEF Stranded
  <2> HIDE DEF first
  <2> QED BY <1>2, <2>7, <2>8, <2>9
<1> QED
  BY <1>7, <1>8, <1>9, <1>10, <1>11, <1>12, <1>13, <1>14, <1>15, <1>16 DEF Home!Next

-----------------------------------------------------------------------------
(* All parts together *)

PartsInv ==
  /\ area = "select" => SelectInv
  /\ area = "palette" => PaletteInv
  /\ area = "quotas" => QuotasInv
  /\ area = "settings" => FormsInv
  /\ area = "signIn" => SigningIn!LoginCarriesToken
  /\ area = "shell" => ShellInv
  /\ area = "home" => HomeInv
  /\ area = "stage" => StageInv
  /\ area = "report" => QuestionsInv
  /\ area = "sessions" => SessionsInv
  /\ area = "inbox" => InboxInv

(* Whichever part is open begins as it should. *)
LEMMA PartsInit == Init => PartsInv
<1> SUFFICES ASSUME Init PROVE PartsInv
  OBVIOUS
<1>1. area = "quotas" => QuotasInv
  BY QuotasInit DEF Init
<1>2. area = "settings" => FormsInv
  BY FormsInit DEF Init
<1>3. area = "signIn" => SigningIn!LoginCarriesToken
  BY LoginInit DEF Init
<1>4. area = "shell" => ShellInv
  BY ShellInit DEF Init
<1>5. area = "home" => HomeInv
  BY HomeInit DEF Init
<1>6. area = "report" => QuestionsInv
  BY QuestionsInit DEF Init
<1>7. area = "sessions" => SessionsInv
  BY SessionsInit DEF Init
<1>8. area = "inbox" => InboxInv
  BY InboxInit DEF Init
<1>9. area = "select" => SelectInv
  BY SelectInit DEF Init
<1>10. area = "palette" => PaletteInv
  BY PaletteInit DEF Init
<1>11. area = "stage" => StageInv
  BY StageInit DEF Init
<1> QED
  BY <1>1, <1>2, <1>3, <1>4, <1>5, <1>6, <1>7, <1>8, <1>9, <1>10, <1>11 DEF PartsInv

(* What holds of a part is about its own variables. *)
LEMMA PartsStutter == PartsInv /\ UNCHANGED vars => PartsInv'
<1> SUFFICES ASSUME PartsInv, UNCHANGED vars PROVE PartsInv'
  OBVIOUS
<1>1. /\ area' = area /\ x1' = x1 /\ x2' = x2 /\ x3' = x3 /\ x4' = x4 /\ x5' = x5
      /\ x6' = x6 /\ x7' = x7 /\ x8' = x8 /\ x9' = x9 /\ x10' = x10 /\ x11' = x11
      /\ x12' = x12 /\ x13' = x13
  BY DEF vars
<1>2. QuotasInv => QuotasInv'
  BY <1>1 DEF QuotasInv
<1>3. FormsInv => FormsInv'
  BY <1>1 DEF FormsInv
<1>4. SigningIn!LoginCarriesToken => SigningIn!LoginCarriesToken'
  BY <1>1 DEF SigningIn!LoginCarriesToken, SigningIn!Submitting
<1>5. ShellInv => ShellInv'
  BY <1>1 DEF ShellInv
<1>6. HomeInv => HomeInv'
  BY <1>1 DEF HomeInv
<1>7. QuestionsInv => QuestionsInv'
  BY <1>1 DEF QuestionsInv
<1>8. SessionsInv => SessionsInv'
  BY <1>1 DEF SessionsInv, Sessions!NothingHangs
<1>9. InboxInv => InboxInv'
  BY <1>1 DEF InboxInv
<1>10. SelectInv => SelectInv'
  BY <1>1 DEF SelectInv, Selecting!OptionLists, Selecting!Enabled
<1>11. PaletteInv => PaletteInv'
  BY <1>1 DEF PaletteInv, Palette!EnterRunsHighlighted
<1>12. StageInv => StageInv'
  BY <1>1 DEF StageInv
<1> QED
  BY <1>1, <1>2, <1>3, <1>4, <1>5, <1>6, <1>7, <1>8, <1>9, <1>10, <1>11, <1>12 DEF PartsInv

(* A step is one of the part that is open. *)
LEMMA PartsNext == PartsInv /\ [Next]_vars => PartsInv'
<1> SUFFICES ASSUME PartsInv, [Next]_vars PROVE PartsInv'
  OBVIOUS
<1> USE DEF PartsInv, Within
<1>1. CASE InStage
  BY <1>1, StageNext DEF InStage
<1>2. CASE InQuotas
  BY <1>2, QuotasNext DEF InQuotas
<1>3. CASE InSettings
  BY <1>3, FormsNext DEF InSettings
<1>4. CASE InSigningIn
  BY <1>4, LoginNext DEF InSigningIn
<1>5. CASE InShell
  BY <1>5, ShellNext DEF InShell
<1>6. CASE InHome
  BY <1>6, HomeNext DEF InHome
<1>7. CASE InQuestions
  BY <1>7, QuestionsNext DEF InQuestions
<1>8. CASE InSessions
  BY <1>8, SessionsNext DEF InSessions
<1>9. CASE InUnread
  BY <1>9, InboxNext DEF InUnread
<1>10. CASE InSelecting
  BY <1>10, SelectNext DEF InSelecting
<1>11. CASE InPalette
  BY <1>11, PaletteNext DEF InPalette
<1>12. CASE UNCHANGED vars
  BY <1>12, PartsStutter
<1> QED
  BY <1>1, <1>2, <1>3, <1>4, <1>5, <1>6, <1>7, <1>8, <1>9, <1>10, <1>11, <1>12 DEF Next

(* The invariants of the parts hold throughout. *)
LEMMA PartsHold == Spec => []PartsInv
BY PartsInit, PartsNext, PTL DEF Spec

(* What Enter chooses of a select box is enabled in the list it was chosen *)
(* from, and what it runs of the palette is the one command that was       *)
(* highlighted, whatever options, commands and studies come while they are *)
(* open (Select.tsx, CommandPalette.tsx).                                  *)
THEOREM EnterStaysOnHighlighted == Spec => []EnterTakesHighlighted
<1>1. PartsInv => EnterTakesHighlighted
  BY SelectKeyboard DEF PartsInv, PaletteInv, EnterTakesHighlighted
<1> QED BY <1>1, PartsHold, PTL

(* The segments of quotas that are saved each have a name and a target of  *)
(* one at least, however the dialog got to them (QuotaDialog.tsx); that    *)
(* there are segments, and that the quota has a label, it does not see to. *)
THEOREM SegmentsStayWhole == Spec => []SegmentsAreWhole
<1>1. PartsInv => SegmentsAreWhole
  BY DEF PartsInv, QuotasInv, AllWhole, Whole, SegmentsAreWhole, Quotas!SegmentsAreWhole
<1> QED BY <1>1, PartsHold, PTL

(* A form of the settings page makes one entry at most, whatever is        *)
(* pressed and answered meanwhile, and the form to sign in is posted with  *)
(* the token the server asks for once the cookie is there.                 *)
THEOREM FormsSendWell == Spec => []FormsAreSentWell
<1>1. PartsInv => FormsAreSentWell
  BY FormsOnce DEF PartsInv, FormsAreSentWell
<1> QED BY <1>1, PartsHold, PTL

(* Whatever takes the panel off the screen in the middle of a drag, the    *)
(* drag ends with it: no width is changed or stored for a panel that is    *)
(* closed, of a scene that threw, of a page outside the app or of another  *)
(* document (SidePanel.tsx).                                               *)
THEOREM DragsKeepTheirHandle == Spec => []DragHasItsHandle
<1>1. ShellInv => Shell!DragHasItsHandle
  BY HandleShown DEF ShellInv, WindowOk, Shell!DragHasItsHandle
<1>2. PartsInv => DragHasItsHandle
  BY <1>1 DEF PartsInv, DragHasItsHandle
<1> QED BY <1>2, PartsHold, PTL

(* Only the choice of a larger size leads to an empty page while there are *)
(* studies to show: a tab, a page, a list that comes late or the way back  *)
(* home does not, whatever the numbers (HomePage.tsx).                     *)
THEOREM OnlySizesLeadAstray == Spec => OnlySizesOvershoot
<1>1. ASSUME PartsInv, PartsInv', Next, area = "home"
      PROVE  ~Home!EmptyPage /\ Home!EmptyPage' => x8' > x8
  <2>1. Home!Next /\ area' = "home"
    BY <1>1 DEF Next, Within, InSelecting, InQuotas, InSettings, InShell, InPalette,
       InHome, InSigningIn, InStage, InQuestions, InSessions, InUnread
  <2>2. HomeInv /\ HomeInv'
    BY <1>1, <2>1 DEF PartsInv
  <2> QED BY <2>1, <2>2, OnlySizes
<1>2. PartsInv /\ PartsInv' /\ [Next]_vars =>
        [area = "home" /\ ~Home!EmptyPage /\ Home!EmptyPage' => x8' > x8]_vars
  BY <1>1
<1> QED BY <1>2, PartsHold, PTL DEF Spec, OnlySizesOvershoot

(* A question is added to the report whose page it was typed on, and every *)
(* question that page has loaded is among the blocks it shows, whatever    *)
(* the segment that filters them.                                          *)
THEOREM AddedQuestionsStayShown == Spec => []AddedQuestionsShow
<1>1. PartsInv => AddedQuestionsShow
  BY QuestionsShown DEF PartsInv, AddedQuestionsShow
<1> QED BY <1>1, PartsHold, PTL

(* On a study's pages a list that is loading has a request, and a mark     *)
(* "copied" a timer, that will end it.                                     *)
THEOREM NothingEverHangs == Spec => []NothingHangs
<1>1. PartsInv => NothingHangs
  BY DEF PartsInv, SessionsInv, NothingHangs
<1> QED BY <1>1, PartsHold, PTL

(* The list that follows a mark shows its item read or not at all, and a   *)
(* page that says it is loading has asked for something.                   *)
THEOREM MarksStaySeen == Spec => []MarksAreSeen
<1>1. PartsInv => MarksAreSeen
  BY InboxSeen DEF PartsInv, MarksAreSeen
<1> QED BY <1>1, PartsHold, PTL

(* A camera that is on is the one whose pictures the stage shows, an       *)
(* attachment that is shown has its object URL, and only walking out of    *)
(* the error view leaves a URL behind (InterviewRoomPage.tsx,              *)
(* interviewRoomLogic.ts).                                                 *)
THEOREM RoomHoldsWhatItShows == Spec => HoldsWhatItShows
<1>1. ASSUME PartsInv, PartsInv', Next, area = "stage"
      PROVE  Stage!HoldsStep
  <2>1. Stage!Next /\ area' = "stage"
    BY <1>1 DEF Next, Within, InSelecting, InQuotas, InSettings, InShell, InPalette,
       InHome, InSigningIn, InStage, InQuestions, InSessions, InUnread
  <2>2. StageInv /\ StageInv'
    BY <1>1, <2>1 DEF PartsInv
  <2> QED BY <2>1, <2>2, StageHolds
<1>2. PartsInv /\ PartsInv' /\ [Next]_vars => [area = "stage" => Stage!HoldsStep]_vars
  BY <1>1
<1> QED BY <1>2, PartsHold, PTL DEF Spec, HoldsWhatItShows

=============================================================================
