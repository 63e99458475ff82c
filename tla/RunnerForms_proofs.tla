-------------------------- MODULE RunnerForms_proofs ---------------------------
(******************************************************************************)
(* What is in flight is what its form still holds; an answer closes the form  *)
(* only when the server has done it; the form warns of a volume as the server *)
(* will; what is stored is what was typed, and an edit without a change keeps *)
(* its record.                                                                *)
(*                                                                            *)
(* The last two need what the loops of runnerConfig.js compute for a text of  *)
(* any length.  Each is a fold: the function it is defined by is shown to     *)
(* exist, so that the fold takes its steps, and an invariant of the loop is   *)
(* carried from step to step by induction over the natural numbers.           *)
(******************************************************************************)
EXTENDS RunnerForms, FiniteSetTheorems, WellFoundedInduction, TLAPS

\* What is made of a form and not answered: each in its place, one edit at most, and
\* one creation at most until they overlap.
Flights ==
  /\ flights = [q \in Requests |-> flights[q]]
  /\ \A q \in Requests :
       /\ flights[q] = [kind |-> flights[q].kind, form |-> flights[q].form,
                        token |-> flights[q].token, reply |-> flights[q].reply]
       /\ flights[q].kind \in {None, "create", "save", "apply"}
       /\ Sent(q) => Parses(flights[q].form.env)
  /\ \A q, o \in Requests :
       flights[q].kind \in {"save", "apply"} /\ flights[o].kind \in {"save", "apply"} => q = o
  /\ \A q, o \in Requests :
       ~ overlap /\ flights[q].kind = "create" /\ flights[o].kind = "create" => q = o

\* Only the open form that creates is loading, and what is in flight is what is held.
InFlight ==
  /\ token \in BOOLEAN /\ overlap \in BOOLEAN /\ creating \in BOOLEAN
  /\ creating => dialog = "create"
  /\ Flights /\ SentAsHeld

\* What the inputs of a form can hold.
TypedForm(f) ==
  /\ f = [x \in Fields |-> f[x]]
  /\ \A x \in DOMAIN Inputs : f[x] \in Inputs[x]

\* Of the server, of the page and of an edit, the record is one that the server
\* stores; a form, open or in flight, is one that can be typed.
ConfigsKnown ==
  /\ stored # None => AsStored(stored)
  /\ row # None => AsStored(row)
  /\ dialog = "edit" => AsStored(loaded)
  /\ TypedForm(form)
  /\ \A q \in Requests : TypedForm(flights[q].form)

FormInv == InFlight /\ ConfigsKnown

--------------------------------------------------------------------------------
(* Induction, and folds.                                                     *)

\* Induction over the natural numbers, of a set: what is not in it has no least
\* element.
LEMMA Induction ==
  ASSUME NEW S, 0 \in S, \A n \in Nat : n \in S => n + 1 \in S
  PROVE  \A n \in Nat : n \in S
<1> DEFINE Others == Nat \ S
<1>1. SUFFICES ASSUME Others # {} PROVE FALSE
  OBVIOUS
<1>2. \E x \in Others : \A y \in Others : <<y, x>> \notin OpToRel(<, Nat)
  <2>1. Others \subseteq Nat /\ Others # {}  BY <1>1
  <2> HIDE DEF Others
  <2>2. QED  BY <2>1, NatLessThanWellFounded, WFMin
<1>3. PICK x \in Others : \A y \in Others : <<y, x>> \notin OpToRel(<, Nat)
  BY <1>2
<1>4. x - 1 \in Others
  OBVIOUS
<1>5. <<x - 1, x>> \in OpToRel(<, Nat)
  BY <1>4 DEF OpToRel
<1>6. QED  BY <1>3, <1>4, <1>5

\* The largest of some numbers up to m + 1 that include it.
LEMMA MaxOfTop ==
  ASSUME NEW m \in Nat, NEW s \in SUBSET (1 .. m + 1), m + 1 \in s
  PROVE  Max(s) = m + 1
<1>1. \A y \in s : m + 1 >= y  OBVIOUS
<1>2. \A x \in s : (\A y \in s : x >= y) => x = m + 1  OBVIOUS
<1>3. QED  BY <1>1, <1>2, Zenon DEF Max

\* The largest of some numbers is one of them.
LEMMA MaxInside ==
  ASSUME NEW n \in Nat, NEW s \in SUBSET (1 .. n), s # {}
  PROVE  Max(s) \in s
<1> DEFINE Inside(m) == \A r \in SUBSET (1 .. m) : r # {} => Max(r) \in r
           S == {m \in Nat : Inside(m)}
<1>1. Inside(0)
  <2>1. \A r \in SUBSET (1 .. 0) : r = {}  OBVIOUS
  <2>2. QED  BY <2>1
<1>2. ASSUME NEW m \in Nat, Inside(m)
      PROVE  Inside(m + 1)
  <2> SUFFICES ASSUME NEW r \in SUBSET (1 .. m + 1), r # {}
               PROVE  Max(r) \in r
    OBVIOUS
  <2>1. CASE m + 1 \in r
    BY <2>1, MaxOfTop
  <2>2. CASE m + 1 \notin r
    <3>1. r \in SUBSET (1 .. m)  BY <2>2
    <3>2. QED  BY <1>2, <3>1
  <2>3. QED  BY <2>1, <2>2
<1>3. Inside(n)
  <2> HIDE DEF Inside
  <2>1. 0 \in S  BY <1>1
  <2>2. \A m \in Nat : m \in S => m + 1 \in S  BY <1>2
  <2>3. n \in S
    <3> HIDE DEF S
    <3>1. QED  BY <2>1, <2>2, Induction
  <2>4. QED  BY <2>3
<1>4. QED  BY <1>3

\* The last of the first m numbers, and those before it.
LEMMA LastOfPrefix ==
  ASSUME NEW m \in Nat \ {0}
  PROVE  /\ 1 .. m # {} /\ Max(1 .. m) = m
         /\ (1 .. m) \ {m} = 1 .. m - 1
<1>1. m - 1 \in Nat /\ 1 .. m \in SUBSET (1 .. (m - 1) + 1) /\ (m - 1) + 1 \in 1 .. m
  OBVIOUS
<1>2. Max(1 .. m) = m
  BY <1>1, MaxOfTop
<1>3. QED  BY <1>2

\* What the function that FoldLeft is defined by takes from the numbers of the
\* elements folded: the steps are taken from the last of them.
IsFold(iter, base, step, n) ==
  \A s \in SUBSET (1 .. n) :
    iter[s] = IF s = {} THEN base ELSE step[<<iter[s \ {Max(s)}], Max(s)>>]

\* There is such a function for a sequence of length n, whatever the step is that
\* keeps to a set T.
LEMMA FoldExists ==
  ASSUME NEW T, NEW base \in T, NEW n \in Nat, NEW step \in [T \X (1 .. n) -> T]
  PROVE  \E iter \in [SUBSET (1 .. n) -> T] : IsFold(iter, base, step, n)
<1> DEFINE Folds(m, iter) == IsFold(iter, base, step, m)
           Exists(m) == \E iter \in [SUBSET (1 .. m) -> T] : Folds(m, iter)
           S == {m \in Nat : m <= n => Exists(m)}
<1> USE DEF IsFold
<1>1. Exists(0)
  <2> DEFINE iter == [s \in SUBSET (1 .. 0) |-> base]
  <2>1. iter \in [SUBSET (1 .. 0) -> T] OBVIOUS
  <2>2. \A s \in SUBSET (1..0) : s = {}  OBVIOUS
  <2>3. Folds(0, iter) BY <2>2
  <2>4. QED  BY <2>1, <2>3
<1>2. ASSUME NEW m \in Nat, m + 1 <= n, Exists(m)
      PROVE  Exists(m + 1)
  <2>2. PICK old \in [SUBSET (1 .. m) -> T] : Folds(m, old)
    BY <1>2
  <2> DEFINE top == m + 1
             iter == [s \in SUBSET (1 .. top) |->
                        IF top \in s THEN step[<<old[s \ {top}], top>>] ELSE old[s]]
  <2>3. ASSUME NEW s \in SUBSET (1 .. top)
        PROVE  s \ {top} \in SUBSET (1 .. m) /\ (top \notin s => s \in SUBSET (1 .. m))
    BY <2>3
  <2>4. iter \in [SUBSET (1 .. top) -> T]
    <3>1. ASSUME NEW s \in SUBSET (1 .. top)
          PROVE  (IF top \in s THEN step[<<old[s \ {top}], top>>] ELSE old[s]) \in T
      <4>1. CASE top \in s
        <5>1. old[s \ {top}] \in T  BY <2>2, <2>3
        <5>2. <<old[s \ {top}], top>> \in T \X (1 .. n)  BY <5>1, <1>2
        <5>3. QED  BY <4>1, <5>2
      <4>2. CASE top \notin s
        BY <2>2, <2>3, <4>2
      <4>3. QED  BY <4>1, <4>2
    <3>2. QED  BY <3>1
  <2>5. ASSUME NEW s \in SUBSET (1 .. top)
        PROVE  iter[s] = IF s = {} THEN base ELSE step[<<iter[s \ {Max(s)}], Max(s)>>]
    <3>1. CASE top \in s
      <4>1. Max(s) = top  BY <3>1, MaxOfTop
      <4>2. s \ {top} \in SUBSET (1 .. top) /\ top \notin s \ {top}  OBVIOUS
      <4>3. iter[s \ {top}] = old[s \ {top}]  BY <4>2
      <4>4. QED  BY <3>1, <4>1, <4>3
    <3>2. CASE top \notin s
      <4>1. s \in SUBSET (1 .. m)  BY <2>3, <3>2
      <4>2. iter[s] = old[s]  BY <3>2
      <4>3. s \ {Max(s)} \in SUBSET (1 .. top) /\ top \notin s \ {Max(s)}  BY <3>2
      <4>4. iter[s \ {Max(s)}] = old[s \ {Max(s)}]  BY <4>3
      <4>5. old[s] = IF s = {} THEN base ELSE step[<<old[s \ {Max(s)}], Max(s)>>]
        BY <2>2, <4>1
      <4>6. QED  BY <4>2, <4>4, <4>5
    <3>3. QED  BY <3>1, <3>2
  <2>6. Folds(top, iter)
    <3> HIDE DEF iter
    <3> QED BY <2>5
  <2>7. QED  BY <2>4, <2>6
<1>3. Exists(n)
  <2> HIDE DEF Exists
  <2>1. 0 \in S  BY <1>1
  <2>2. \A m \in Nat : m \in S => m + 1 \in S  BY <1>2
  <2>3. n \in S
    <3> HIDE DEF S
    <3>1. QED  BY <2>1, <2>2, Induction
  <2>4. QED  BY <2>3
<1>4. QED  BY <1>3

--------------------------------------------------------------------------------
(* The environment.                                                          *)

\* Environments: a value of each name, or none.
Envs == [Keys -> Values \cup {Unset}]

\* runnerConfig.js:17 - the loop over the lines of a text runs them one by one.
LEMMA EnvRuns ==
  ASSUME NEW text \in Seq(Lines)
  PROVE  \E run :
           /\ run[0] = NoEnv
           /\ \A m \in 1 .. Len(text) : run[m] = AddLine(run[m - 1], text[m])
           /\ parseExtraEnvText(text) = run[Len(text)]
<1> DEFINE n == Len(text)
           step == [x \in Envs \X (1 .. n) |-> AddLine(x[1], text[x[2]])]
           Folds(f) == f = [s \in SUBSET (1 .. n) |->
                              IF s = {} THEN NoEnv
                              ELSE AddLine(f[s \ {Max(s)}], text[Max(s)])]
           chosen == CHOOSE f : Folds(f)
<1>1. n \in Nat /\ DOMAIN text = 1 .. n
  OBVIOUS
<1>2. NoEnv \in Envs
  BY DEF NoEnv, Envs
<1>3. \A env \in Envs, m \in 1 .. n : AddLine(env, text[m]) \in Envs
  BY TrimmedAssumption DEF AddLine, Envs, Lines, Pair, Comment, BadLine, Values
<1>4. step \in [Envs \X (1 .. n) -> Envs]
  BY <1>3
<1>5. PICK iter \in [SUBSET (1 .. n) -> Envs] : IsFold(iter, NoEnv, step, n)
  <2> HIDE DEF step, n
  <2>1. QED  BY <1>1, <1>2, <1>4, FoldExists
<1>6. ASSUME NEW s \in SUBSET (1 .. n)
      PROVE  iter[s] = IF s = {} THEN NoEnv ELSE AddLine(iter[s \ {Max(s)}], text[Max(s)])
  <2>1. CASE s = {}
    BY <1>5, <2>1 DEF IsFold
  <2>2. CASE s # {}
    <3>1. Max(s) \in 1 .. n  BY <1>1, <2>2, MaxInside
    <3>2. <<iter[s \ {Max(s)}], Max(s)>> \in Envs \X (1 .. n)  BY <1>5, <3>1
    <3>3. step[<<iter[s \ {Max(s)}], Max(s)>>] = AddLine(iter[s \ {Max(s)}], text[Max(s)])
      BY <3>2
    <3>4. QED  BY <1>5, <2>2, <3>3 DEF IsFold
  <2>3. QED  BY <2>1, <2>2
<1>7. Folds(iter)
  <2> HIDE DEF n
  <2>1. iter = [s \in SUBSET (1 .. n) |-> iter[s]]  BY <1>5
  <2>2. QED  BY <1>6, <2>1
<1>8. Folds(chosen)
  <2> HIDE DEF Folds
  <2>1. QED  BY <1>7, Zenon
<1>9. parseExtraEnvText(text) = chosen[1 .. n]
  BY <1>1, Zenon DEF parseExtraEnvText, FoldLeft, MapThenFoldSet
<1> DEFINE run == [m \in 0 .. n |-> chosen[1 .. m]]
<1> HIDE DEF chosen
<1>10. run[0] = NoEnv
  BY <1>1, <1>8
<1>11. ASSUME NEW m \in 1 .. n
       PROVE  run[m] = AddLine(run[m - 1], text[m])
  <2>1. 1 .. m \in SUBSET (1 .. n)  BY <1>1
  <2>2. 1 .. m # {} /\ Max(1 .. m) = m /\ (1 .. m) \ {m} = 1 .. m - 1
    BY <1>1, LastOfPrefix
  <2>3. chosen[1 .. m] = AddLine(chosen[1 .. m - 1], text[m])
    BY <1>8, <2>1, <2>2
  <2>4. QED  BY <1>1, <2>3
<1>12. run[n] = chosen[1 .. n]
  BY <1>1
<1> HIDE DEF run
<1>13. QED  BY <1>9, <1>10, <1>11, <1>12

\* runnerConfig.js:27 - of a text of any length, a name gets the value of the last
\* line that has it, trimmed, and none without such a line.
THEOREM LastLineWins ==
  ASSUME NEW text \in Seq(Lines)
  PROVE  /\ parseExtraEnvText(text) \in Envs
         /\ \A k \in Keys :
              LET lines == {i \in DOMAIN text : text[i].kind = "pair" /\ text[i].key = k}
              IN  IF lines = {} THEN parseExtraEnvText(text)[k] = Unset
                  ELSE \E i \in lines : /\ parseExtraEnvText(text)[k] = Trimmed[text[i].value]
                                        /\ \A j \in lines : j <= i
<1> DEFINE n == Len(text)
           Of(i, k) == text[i].kind = "pair" /\ text[i].key = k
<1>1. PICK run :
         /\ run[0] = NoEnv
         /\ \A m \in 1 .. n : run[m] = AddLine(run[m - 1], text[m])
         /\ parseExtraEnvText(text) = run[n]
  BY EnvRuns
<1> DEFINE Newest(m, k) ==
             \/ run[m][k] = Unset /\ \A i \in 1 .. m : ~ Of(i, k)
             \/ \E i \in 1 .. m : /\ Of(i, k) /\ run[m][k] = Trimmed[text[i].value]
                                  /\ \A j \in 1 .. m : Of(j, k) => j <= i
           Good(m) == run[m] \in Envs /\ \A k \in Keys : Newest(m, k)
           S == {m \in Nat : m <= n => Good(m)}
<1>2. n \in Nat /\ DOMAIN text = 1 .. n
  OBVIOUS
<1>3. Good(0)
  BY <1>1 DEF NoEnv, Envs
<1>4. ASSUME NEW m \in Nat, m + 1 <= n, Good(m)
      PROVE  Good(m + 1)
  <2>1. m + 1 \in 1 .. n /\ run[m + 1] = AddLine(run[m], text[m + 1])
    BY <1>1, <1>2, <1>4
  <2>2. text[m + 1] \in Lines
    BY <1>2, <2>1
  <2>3. CASE text[m + 1].kind # "pair"
    <3>1. run[m + 1] = run[m]  BY <2>1, <2>3 DEF AddLine
    <3>2. \A k \in Keys : ~ Of(m + 1, k)  BY <2>3
    <3>3. ASSUME NEW k \in Keys
          PROVE  Newest(m + 1, k)
      <4>1. \A i \in 1 .. m + 1 : i \in 1 .. m \/ i = m + 1  OBVIOUS
      <4>2. Newest(m, k)  BY <1>4
      <4>3. QED  BY <3>1, <3>2, <4>1, <4>2
    <3>4. QED  BY <1>4, <3>1, <3>3
  <2>4. CASE text[m + 1].kind = "pair"
    <3>1. PICK key \in Keys, v \in Values : text[m + 1] = Pair(key, v)
      BY <2>2, <2>4 DEF Lines, Comment, BadLine
    <3>2. text[m + 1].key = key /\ text[m + 1].value = v
      BY <3>1 DEF Pair
    <3>3. run[m] \in Envs /\ run[m + 1] = [run[m] EXCEPT ![key] = Trimmed[v]]
      BY <1>4, <2>1, <2>4, <3>2 DEF AddLine
    <3>4. run[m + 1] \in Envs
      BY <3>3, TrimmedAssumption DEF Envs
    <3>5. ASSUME NEW k \in Keys
          PROVE  Newest(m + 1, k)
      <4>1. \A i \in 1 .. m + 1 : i \in 1 .. m \/ i = m + 1  OBVIOUS
      <4>2. CASE k = key
        <5>1. run[m + 1][k] = Trimmed[text[m + 1].value] /\ Of(m + 1, k)
          BY <2>4, <3>2, <3>3, <4>2 DEF Envs
        <5>2. m + 1 \in 1 .. m + 1 /\ \A j \in 1 .. m + 1 : j <= m + 1  OBVIOUS
        <5>3. QED  BY <5>1, <5>2
      <4>3. CASE k # key
        <5>1. run[m + 1][k] = run[m][k] /\ ~ Of(m + 1, k)
          BY <3>2, <3>3, <4>3 DEF Envs
        <5>2. Newest(m, k)  BY <1>4
        <5>3. QED  BY <4>1, <5>1, <5>2
      <4>4. QED  BY <4>2, <4>3
    <3>6. QED  BY <3>4, <3>5
  <2>5. QED  BY <2>3, <2>4
<1>5. Good(n)
  <2> HIDE DEF Good
  <2>1. 0 \in S  BY <1>3
  <2>2. \A m \in Nat : m \in S => m + 1 \in S  BY <1>4
  <2>3. n \in S
    <3> HIDE DEF S, n
    <3>1. QED  BY <1>2, <2>1, <2>2, Induction
  <2>4. QED  BY <1>2, <2>3
<1>6. ASSUME NEW k \in Keys
      PROVE  LET lines == {i \in DOMAIN text : text[i].kind = "pair" /\ text[i].key = k}
             IN  IF lines = {} THEN parseExtraEnvText(text)[k] = Unset
                 ELSE \E i \in lines : /\ parseExtraEnvText(text)[k] = Trimmed[text[i].value]
                                       /\ \A j \in lines : j <= i
  <2>1. Newest(n, k)  BY <1>5
  <2> HIDE DEF n
  <2>2. QED  BY <1>1, <1>2, <2>1
<1>7. QED  BY <1>1, <1>5, <1>6

\* A finite set, listed: every element once.
LEMMA SetListed ==
  ASSUME NEW S, IsFiniteSet(S)
  PROVE  \E n \in Nat : /\ SetToSeq(S) \in [1 .. n -> S]
                        /\ \A x \in S : \E i \in 1 .. n : SetToSeq(S)[i] = x
                        /\ \A i, j \in 1 .. n : SetToSeq(S)[i] = SetToSeq(S)[j] => i = j
<1> DEFINE n == Cardinality(S)
           Listed(f) == f \in [1 .. n -> S] /\ IsInjective(f)
           list == CHOOSE f \in [1 .. n -> S] : IsInjective(f)
<1>1. n \in Nat /\ ExistsBijection(1 .. n, S)
  BY FS_CardinalityType
<1>2. \E f \in [1 .. n -> S] : IsInjective(f)
  BY <1>1, Zenon DEF ExistsBijection, Bijection, Injection
<1>3. list \in [1 .. n -> S] /\ IsInjective(list)
  BY <1>2, Zenon
<1>4. SetToSeq(S) = list
  BY DEF SetToSeq
<1> HIDE DEF list, n
<1>5. list \in Injection(1 .. n, S)
  BY <1>3 DEF Injection
<1>6. IsFiniteSet(1 .. n) /\ Cardinality(1 .. n) = n
  BY <1>1, FS_Interval
<1>7. list \in Surjection(1 .. n, S)
  <2>1. Cardinality(S) = n  BY DEF n
  <2>2. \A T, U, f : f \in Injection(T, U) /\ IsFiniteSet(U) /\ Cardinality(T) = Cardinality(U)
                       => f \in Surjection(T, U)
    BY FS_Injection
  <2>3. QED  BY <1>5, <1>6, <2>1, <2>2, Zenon
<1>8. \A i, j \in 1 .. n : list[i] = list[j] => i = j
  BY <1>3 DEF IsInjective
<1>9. \A x \in S : \E i \in 1 .. n : list[i] = x
  BY <1>7 DEF Surjection
<1>10. QED  BY <1>1, <1>3, <1>4, <1>8, <1>9

\* What is left of an environment on its way through a form.
TrimmedEnv(env) == [k \in Keys |-> IF env[k] = Unset THEN Unset ELSE Trimmed[env[k]]]

\* runnerConfig.js:32 - an environment written into a form, one line a name, parses
\* to itself, but for the spaces at the ends of its values.
LEMMA EnvComesBack ==
  ASSUME NEW env \in Envs
  PROVE  /\ formatExtraEnv(env) \in Seq(Lines) /\ Parses(formatExtraEnv(env))
         /\ parseExtraEnvText(formatExtraEnv(env)) = TrimmedEnv(env)
<1> DEFINE set == {k \in Keys : env[k] # Unset}
           keys == SetToSeq(set)
           text == formatExtraEnv(env)
<1>1. IsFiniteSet(set)
  BY KeysAssumption, FS_Subset
<1> HIDE DEF keys
<1>2. PICK n \in Nat : /\ keys \in [1 .. n -> set]
                       /\ \A k \in set : \E i \in 1 .. n : keys[i] = k
                       /\ \A i, j \in 1 .. n : keys[i] = keys[j] => i = j
  <2> HIDE DEF set
  <2>1. QED  BY <1>1, SetListed DEF keys
<1>3. text = [i \in 1 .. n |-> Pair(keys[i], env[keys[i]])]
  BY <1>2 DEF formatExtraEnv, keys
<1> HIDE DEF text
<1>4. ASSUME NEW i \in 1 .. n
      PROVE  /\ keys[i] \in Keys /\ env[keys[i]] \in Values /\ env[keys[i]] # Unset
             /\ text[i] = Pair(keys[i], env[keys[i]]) /\ text[i] \in Lines /\ text[i] # BadLine
             /\ text[i].kind = "pair" /\ text[i].key = keys[i] /\ text[i].value = env[keys[i]]
  <2>1. keys[i] \in Keys /\ env[keys[i]] # Unset  BY <1>2
  <2>2. env[keys[i]] \in Values  BY <2>1 DEF Envs
  <2>3. text[i] = Pair(keys[i], env[keys[i]])  BY <1>3
  <2>4. text[i] \in Lines  BY <2>1, <2>2, <2>3 DEF Lines
  <2>5. text[i].kind = "pair" /\ text[i].key = keys[i] /\ text[i].value = env[keys[i]]
    BY <2>3 DEF Pair
  <2>6. text[i] # BadLine  BY <2>5 DEF BadLine
  <2>7. QED  BY <2>1, <2>2, <2>3, <2>4, <2>5, <2>6
<1>5. text \in Seq(Lines) /\ DOMAIN text = 1 .. n
  BY <1>2, <1>3, <1>4
<1>6. Parses(text)
  BY <1>4, <1>5 DEF Parses, Range
<1>7. parseExtraEnvText(text) \in Envs
  BY <1>5, LastLineWins
<1>8. ASSUME NEW k \in Keys
      PROVE  parseExtraEnvText(text)[k] = IF env[k] = Unset THEN Unset ELSE Trimmed[env[k]]
  <2> DEFINE lines == {i \in DOMAIN text : text[i].kind = "pair" /\ text[i].key = k}
  <2>1. IF lines = {} THEN parseExtraEnvText(text)[k] = Unset
        ELSE \E i \in lines : parseExtraEnvText(text)[k] = Trimmed[text[i].value]
    <3>1. LET found == {i \in DOMAIN text : text[i].kind = "pair" /\ text[i].key = k}
          IN  IF found = {} THEN parseExtraEnvText(text)[k] = Unset
              ELSE \E i \in found : /\ parseExtraEnvText(text)[k] = Trimmed[text[i].value]
                                   /\ \A j \in found : j <= i
      BY <1>5, LastLineWins
    <3>2. QED  BY <3>1
  <2>2. CASE env[k] = Unset
    <3>1. lines = {}  BY <1>4, <1>5, <2>2
    <3>2. QED  BY <2>1, <2>2, <3>1
  <2>3. CASE env[k] # Unset
    <3>1. lines # {}  BY <1>2, <1>4, <1>5, <2>3
    <3>2. PICK i \in lines : parseExtraEnvText(text)[k] = Trimmed[text[i].value]
      BY <2>1, <3>1
    <3>3. i \in 1 .. n /\ keys[i] = k  BY <1>4, <1>5
    <3>4. QED  BY <1>4, <2>3, <3>2, <3>3
  <2>4. QED  BY <2>2, <2>3
<1>9. parseExtraEnvText(text) = TrimmedEnv(env)
  BY <1>7, <1>8 DEF Envs, TrimmedEnv
<1>10. QED  BY <1>5, <1>6, <1>9 DEF text

--------------------------------------------------------------------------------
(* Labels.                                                                   *)

\* runnerConfig.js:39 - the chips of a form are filtered one by one.
LEMMA LabelRuns ==
  ASSUME NEW chips \in Seq(STRING)
  PROVE  \E run :
           /\ run[0] = <<>>
           /\ \A m \in 1 .. Len(chips) : run[m] = AddLabel(run[m - 1], chips[m])
           /\ normalizeLabelList(chips) = run[Len(chips)]
<1> DEFINE n == Len(chips)
           step == [x \in Seq(STRING) \X (1 .. n) |-> AddLabel(x[1], chips[x[2]])]
           Folds(f) == f = [s \in SUBSET (1 .. n) |->
                              IF s = {} THEN <<>>
                              ELSE AddLabel(f[s \ {Max(s)}], chips[Max(s)])]
           chosen == CHOOSE f : Folds(f)
<1>1. n \in Nat /\ DOMAIN chips = 1 .. n
  OBVIOUS
<1>2. <<>> \in Seq(STRING)
  OBVIOUS
<1>3. \A labels \in Seq(STRING), m \in 1 .. n : AddLabel(labels, chips[m]) \in Seq(STRING)
  <2> SUFFICES ASSUME NEW labels \in Seq(STRING), NEW m \in 1 .. n
               PROVE  AddLabel(labels, chips[m]) \in Seq(STRING)
    OBVIOUS
  <2>1. chips[m] \in STRING  OBVIOUS
  <2>2. Append(labels, chips[m]) \in Seq(STRING)  BY <2>1
  <2>3. QED  BY <2>2 DEF AddLabel
<1>4. step \in [Seq(STRING) \X (1 .. n) -> Seq(STRING)]
  BY <1>3
<1>5. PICK iter \in [SUBSET (1 .. n) -> Seq(STRING)] : IsFold(iter, <<>>, step, n)
  <2> HIDE DEF step, n
  <2>1. QED  BY <1>1, <1>2, <1>4, FoldExists
<1>6. ASSUME NEW s \in SUBSET (1 .. n)
      PROVE  iter[s] = IF s = {} THEN <<>> ELSE AddLabel(iter[s \ {Max(s)}], chips[Max(s)])
  <2>1. CASE s = {}
    BY <1>5, <2>1 DEF IsFold
  <2>2. CASE s # {}
    <3>1. Max(s) \in 1 .. n  BY <1>1, <2>2, MaxInside
    <3>2. <<iter[s \ {Max(s)}], Max(s)>> \in Seq(STRING) \X (1 .. n)  BY <1>5, <3>1
    <3>3. step[<<iter[s \ {Max(s)}], Max(s)>>] = AddLabel(iter[s \ {Max(s)}], chips[Max(s)])
      BY <3>2
    <3>4. QED  BY <1>5, <2>2, <3>3 DEF IsFold
  <2>3. QED  BY <2>1, <2>2
<1>7. Folds(iter)
  <2> HIDE DEF n
  <2>1. iter = [s \in SUBSET (1 .. n) |-> iter[s]]  BY <1>5
  <2>2. QED  BY <1>6, <2>1
<1>8. Folds(chosen)
  <2> HIDE DEF Folds
  <2>1. QED  BY <1>7, Zenon
<1>9. normalizeLabelList(chips) = chosen[1 .. n]
  BY <1>1, Zenon DEF normalizeLabelList, FoldLeft, MapThenFoldSet
<1> DEFINE run == [m \in 0 .. n |-> chosen[1 .. m]]
<1> HIDE DEF chosen
<1>10. run[0] = <<>>
  BY <1>1, <1>8
<1>11. ASSUME NEW m \in 1 .. n
       PROVE  run[m] = AddLabel(run[m - 1], chips[m])
  <2>1. 1 .. m \in SUBSET (1 .. n)  BY <1>1
  <2>2. 1 .. m # {} /\ Max(1 .. m) = m /\ (1 .. m) \ {m} = 1 .. m - 1
    BY <1>1, LastOfPrefix
  <2>3. chosen[1 .. m] = AddLabel(chosen[1 .. m - 1], chips[m])
    BY <1>8, <2>1, <2>2
  <2>4. QED  BY <1>1, <2>3
<1>12. run[n] = chosen[1 .. n]
  BY <1>1
<1> HIDE DEF run
<1>13. QED  BY <1>9, <1>10, <1>11, <1>12

\* runnerConfig.js:39 - chips keep their order, without the blank ones.
LEMMA LabelsKept ==
  ASSUME NEW chips \in Seq(STRING)
  PROVE  /\ normalizeLabelList(chips) \in Seq(STRING)
         /\ Blank \notin Range(normalizeLabelList(chips))
         /\ Blank \notin Range(chips) => normalizeLabelList(chips) = chips
<1> DEFINE n == Len(chips)
<1>1. PICK run :
         /\ run[0] = <<>>
         /\ \A m \in 1 .. n : run[m] = AddLabel(run[m - 1], chips[m])
         /\ normalizeLabelList(chips) = run[n]
  BY LabelRuns
<1> DEFINE Same(m) == Len(run[m]) = m /\ \A i \in 1 .. m : run[m][i] = chips[i]
           Good(m) == /\ run[m] \in Seq(STRING)
                      /\ \A i \in 1 .. Len(run[m]) : run[m][i] # Blank
                      /\ (\A i \in 1 .. n : chips[i] # Blank) => Same(m)
           S == {m \in Nat : m <= n => Good(m)}
<1>2. n \in Nat /\ DOMAIN chips = 1 .. n
  OBVIOUS
<1>3. Good(0)
  BY <1>1
<1>4. ASSUME NEW m \in Nat, m + 1 <= n, Good(m)
      PROVE  Good(m + 1)
  <2>1. m + 1 \in 1 .. n /\ run[m + 1] = AddLabel(run[m], chips[m + 1])
    BY <1>1, <1>2, <1>4
  <2>2. chips[m + 1] \in STRING
    BY <1>2, <2>1
  <2>3. CASE chips[m + 1] = Blank
    BY <1>4, <2>1, <2>3 DEF AddLabel
  <2>4. CASE chips[m + 1] # Blank
    <3>1. run[m + 1] = Append(run[m], chips[m + 1])  BY <2>1, <2>4 DEF AddLabel
    <3>2. QED  BY <1>4, <2>2, <2>4, <3>1
  <2>5. QED  BY <2>3, <2>4
<1>5. Good(n)
  <2> HIDE DEF Good
  <2>1. 0 \in S  BY <1>3
  <2>2. \A m \in Nat : m \in S => m + 1 \in S  BY <1>4
  <2>3. n \in S
    <3> HIDE DEF S, n
    <3>1. QED  BY <1>2, <2>1, <2>2, Induction
  <2>4. QED  BY <1>2, <2>3
<1>6. Blank \notin Range(run[n])
  BY <1>5 DEF Range
<1>7. Blank \notin Range(chips) => run[n] = chips
  <2>1. SUFFICES ASSUME \A i \in 1 .. n : chips[i] # Blank
                 PROVE  run[n] = chips
    BY <1>2 DEF Range
  <2>2. run[n] \in Seq(STRING) /\ Same(n)  BY <1>5, <2>1
  <2>3. QED  BY <1>2, <2>2
<1>8. QED  BY <1>1, <1>5, <1>6, <1>7

--------------------------------------------------------------------------------
(* Paths.                                                                    *)

\* runnerConfig.js:57 - a pop takes the last part and leaves the rest.
LEMMA FrontOfStack ==
  ASSUME NEW S, NEW stack \in Seq(S), stack # <<>>
  PROVE  /\ Front(stack) \in Seq(S) /\ Len(Front(stack)) = Len(stack) - 1
         /\ \A a \in 1 .. Len(stack) - 1 : Front(stack)[a] = stack[a]
<1>1. Len(stack) \in Nat /\ Len(stack) # 0
  OBVIOUS
<1>2. Front(stack) = SubSeq(stack, 1, Len(stack) - 1)
  BY DEF Front
<1> DEFINE n == Len(stack) - 1
           front == [i \in 1 .. n |-> stack[i]]
<1>3. n \in Nat /\ \A i \in 1 .. n : stack[i] \in S
  <2>1. \A i \in 1 .. Len(stack) : stack[i] \in S  OBVIOUS
  <2>2. n \in Nat /\ \A i \in 1 .. n : i \in 1 .. Len(stack)  BY <1>1
  <2>3. QED  BY <2>1, <2>2, Zenon
<1>4. Front(stack) = front
  BY <1>1, <1>2
<1>5. front \in Seq(S) /\ Len(front) = n
  BY <1>3
<1>6. QED  BY <1>4, <1>5

\* runnerConfig.js:54 - the loop over the parts of a path runs them one by one.
LEMMA PathRuns ==
  ASSUME NEW typed \in Seq(STRING)
  PROVE  \E run :
           /\ run[0] = <<>>
           /\ \A m \in 1 .. Len(typed) : run[m] = Push(run[m - 1], typed[m])
           /\ FoldLeft(Push, <<>>, typed) = run[Len(typed)]
<1> DEFINE n == Len(typed)
           step == [x \in Seq(STRING) \X (1 .. n) |-> Push(x[1], typed[x[2]])]
           Folds(f) == f = [s \in SUBSET (1 .. n) |->
                              IF s = {} THEN <<>>
                              ELSE Push(f[s \ {Max(s)}], typed[Max(s)])]
           chosen == CHOOSE f : Folds(f)
<1>1. n \in Nat /\ DOMAIN typed = 1 .. n
  OBVIOUS
<1>2. <<>> \in Seq(STRING)
  OBVIOUS
<1>3. \A stack \in Seq(STRING), m \in 1 .. n : Push(stack, typed[m]) \in Seq(STRING)
  <2> SUFFICES ASSUME NEW stack \in Seq(STRING), NEW m \in 1 .. n
               PROVE  Push(stack, typed[m]) \in Seq(STRING)
    OBVIOUS
  <2>1. typed[m] \in STRING  OBVIOUS
  <2>2. Append(stack, typed[m]) \in Seq(STRING)  BY <2>1
  <2>3. stack # <<>> => Front(stack) \in Seq(STRING)  BY FrontOfStack
  <2>4. QED  BY <2>2, <2>3 DEF Push
<1>4. step \in [Seq(STRING) \X (1 .. n) -> Seq(STRING)]
  BY <1>3
<1>5. PICK iter \in [SUBSET (1 .. n) -> Seq(STRING)] : IsFold(iter, <<>>, step, n)
  <2> HIDE DEF step, n
  <2>1. QED  BY <1>1, <1>2, <1>4, FoldExists
<1>6. ASSUME NEW s \in SUBSET (1 .. n)
      PROVE  iter[s] = IF s = {} THEN <<>> ELSE Push(iter[s \ {Max(s)}], typed[Max(s)])
  <2>1. CASE s = {}
    BY <1>5, <2>1 DEF IsFold
  <2>2. CASE s # {}
    <3>1. Max(s) \in 1 .. n  BY <1>1, <2>2, MaxInside
    <3>2. <<iter[s \ {Max(s)}], Max(s)>> \in Seq(STRING) \X (1 .. n)  BY <1>5, <3>1
    <3>3. step[<<iter[s \ {Max(s)}], Max(s)>>] = Push(iter[s \ {Max(s)}], typed[Max(s)])
      BY <3>2
    <3>4. QED  BY <1>5, <2>2, <3>3 DEF IsFold
  <2>3. QED  BY <2>1, <2>2
<1>7. Folds(iter)
  <2> HIDE DEF n
  <2>1. iter = [s \in SUBSET (1 .. n) |-> iter[s]]  BY <1>5
  <2>2. QED  BY <1>6, <2>1
<1>8. Folds(chosen)
  <2> HIDE DEF Folds
  <2>1. QED  BY <1>7, Zenon
<1>9. FoldLeft(Push, <<>>, typed) = chosen[1 .. n]
  BY <1>1, Zenon DEF FoldLeft, MapThenFoldSet
<1> DEFINE run == [m \in 0 .. n |-> chosen[1 .. m]]
<1> HIDE DEF chosen
<1>10. run[0] = <<>>
  BY <1>1, <1>8
<1>11. ASSUME NEW m \in 1 .. n
       PROVE  run[m] = Push(run[m - 1], typed[m])
  <2>1. 1 .. m \in SUBSET (1 .. n)  BY <1>1
  <2>2. 1 .. m # {} /\ Max(1 .. m) = m /\ (1 .. m) \ {m} = 1 .. m - 1
    BY <1>1, LastOfPrefix
  <2>3. chosen[1 .. m] = Push(chosen[1 .. m - 1], typed[m])
    BY <1>8, <2>1, <2>2
  <2>4. QED  BY <1>1, <2>3
<1>12. run[n] = chosen[1 .. n]
  BY <1>1
<1> HIDE DEF run
<1>13. QED  BY <1>9, <1>10, <1>11, <1>12

\* By how many the names outnumber the parents, of the parts after i up to j.
Ahead(parts, i, j) ==
  Cardinality({k \in i + 1 .. j : IsName(parts[k])}) - Cardinality({k \in i + 1 .. j : parts[k] = ".."})

\* The parts that stay, of the first n.
KeptOf(parts, n) ==
  {i \in 1 .. n : IsName(parts[i]) /\ \A j \in i + 1 .. n : Ahead(parts, i, j) >= 0}

\* Names and parents can be counted.
LEMMA PartCounts ==
  ASSUME NEW parts, NEW i \in Nat, NEW j \in Nat
  PROVE  /\ Cardinality({k \in i + 1 .. j : IsName(parts[k])}) \in Nat
         /\ Cardinality({k \in i + 1 .. j : parts[k] = ".."}) \in Nat
<1>1. IsFiniteSet(i + 1 .. j)
  BY FS_Interval
<1>2. /\ {k \in i + 1 .. j : IsName(parts[k])} \in SUBSET (i + 1 .. j)
      /\ {k \in i + 1 .. j : parts[k] = ".."} \in SUBSET (i + 1 .. j)
  OBVIOUS
<1>3. QED  BY <1>1, <1>2, FS_Subset, FS_CardinalityType

\* Of one number more, one more or none is in P.
LEMMA CountNext ==
  ASSUME NEW P, NEW i \in Nat, NEW n \in Nat, i <= n
  PROVE  Cardinality({k \in i + 1 .. n + 1 : k \in P}) =
           Cardinality({k \in i + 1 .. n : k \in P}) + (IF n + 1 \in P THEN 1 ELSE 0)
<1> DEFINE old == {k \in i + 1 .. n : k \in P}
           new == {k \in i + 1 .. n + 1 : k \in P}
<1>1. IsFiniteSet(old)
  <2>1. old \in SUBSET (i + 1 .. n) /\ IsFiniteSet(i + 1 .. n)  BY FS_Interval
  <2>2. QED  BY <2>1, FS_Subset
<1>2. Cardinality(old) \in Nat
  BY <1>1, FS_CardinalityType
<1>3. CASE n + 1 \in P
  <2>1. new = old \cup {n + 1} /\ n + 1 \notin old  BY <1>3
  <2>2. QED  BY <1>1, <1>3, <2>1, FS_AddElement
<1>4. CASE n + 1 \notin P
  <2>1. new = old  BY <1>4
  <2>2. QED  BY <1>2, <1>4, <2>1
<1>5. QED  BY <1>3, <1>4

\* runnerConfig.js:56 - a name is one ahead, a parent one behind, and an empty part
\* or a dot neither.
LEMMA AheadNext ==
  ASSUME NEW parts, NEW i \in Nat, NEW n \in Nat, i <= n
  PROVE  /\ Ahead(parts, i, n) \in Int /\ Ahead(parts, i, i) = 0
         /\ Ahead(parts, i, n + 1) = Ahead(parts, i, n) + (IF IsName(parts[n + 1]) THEN 1
                                                         ELSE IF parts[n + 1] = ".." THEN -1 ELSE 0)
<1> DEFINE Names == {k \in Nat : IsName(parts[k])}
           Parents == {k \in Nat : parts[k] = ".."}
<1>1. \A j \in Nat : /\ {k \in i + 1 .. j : IsName(parts[k])} = {k \in i + 1 .. j : k \in Names}
                     /\ {k \in i + 1 .. j : parts[k] = ".."} = {k \in i + 1 .. j : k \in Parents}
  OBVIOUS
<1>2. /\ Cardinality({k \in i + 1 .. n + 1 : k \in Names}) =
           Cardinality({k \in i + 1 .. n : k \in Names}) + (IF n + 1 \in Names THEN 1 ELSE 0)
      /\ Cardinality({k \in i + 1 .. n + 1 : k \in Parents}) =
           Cardinality({k \in i + 1 .. n : k \in Parents}) + (IF n + 1 \in Parents THEN 1 ELSE 0)
  <2> HIDE DEF Names, Parents
  <2>1. \A P : Cardinality({k \in i + 1 .. n + 1 : k \in P}) =
                Cardinality({k \in i + 1 .. n : k \in P}) + (IF n + 1 \in P THEN 1 ELSE 0)
    BY CountNext
  <2>2. QED  BY <2>1
<1>3. /\ Cardinality({k \in i + 1 .. n : k \in Names}) \in Nat
      /\ Cardinality({k \in i + 1 .. n : k \in Parents}) \in Nat
  <2>1. /\ Cardinality({k \in i + 1 .. n : IsName(parts[k])}) \in Nat
        /\ Cardinality({k \in i + 1 .. n : parts[k] = ".."}) \in Nat
    BY PartCounts
  <2>2. QED  BY <1>1, <2>1, Zenon
<1>4. n + 1 \in Nat /\ ~ (IsName(parts[n + 1]) /\ parts[n + 1] = "..")
  BY DEF IsName
<1>5. /\ Ahead(parts, i, n) = Cardinality({k \in i + 1 .. n : k \in Names})
                                - Cardinality({k \in i + 1 .. n : k \in Parents})
      /\ Ahead(parts, i, n + 1) = Cardinality({k \in i + 1 .. n + 1 : k \in Names})
                                    - Cardinality({k \in i + 1 .. n + 1 : k \in Parents})
  BY <1>1, <1>4, Zenon DEF Ahead
<1>6. Ahead(parts, i, i) = 0
  <2>1. {k \in i + 1 .. i : IsName(parts[k])} = {} /\ {k \in i + 1 .. i : parts[k] = ".."} = {}
    OBVIOUS
  <2>2. Ahead(parts, i, i) = Cardinality({}) - Cardinality({})
    BY <2>1, Zenon DEF Ahead
  <2>3. QED  BY <2>2, FS_EmptySet
<1>7. /\ n + 1 \in Names <=> IsName(parts[n + 1])
      /\ n + 1 \in Parents <=> parts[n + 1] = ".."
  BY <1>4
<1>8. QED
  <2> DEFINE c == Cardinality({k \in i + 1 .. n : k \in Names})
             d == Cardinality({k \in i + 1 .. n : k \in Parents})
  <2>1. c \in Nat /\ d \in Nat  BY <1>3
  <2>2. /\ Ahead(parts, i, n) = c - d
        /\ Ahead(parts, i, n + 1) = (c + (IF n + 1 \in Names THEN 1 ELSE 0))
                                      - (d + (IF n + 1 \in Parents THEN 1 ELSE 0))
    BY <1>2, <1>5
  <2> HIDE DEF c, d, Names, Parents
  <2>3. QED  BY <1>4, <1>6, <1>7, <2>1, <2>2

\* Of one part more: those stay that stayed and that it does not take, and itself
\* if it is a name.
LEMMA KeptNext ==
  ASSUME NEW parts, NEW n \in Nat
  PROVE  KeptOf(parts, n + 1) =
           {i \in KeptOf(parts, n) : Ahead(parts, i, n + 1) >= 0}
             \cup (IF IsName(parts[n + 1]) THEN {n + 1} ELSE {})
<1>1. ASSUME NEW i \in 1 .. n
      PROVE  i \in KeptOf(parts, n + 1) <=> i \in KeptOf(parts, n) /\ Ahead(parts, i, n + 1) >= 0
  <2>1. \A j : j \in i + 1 .. n + 1 <=> j \in i + 1 .. n \/ j = n + 1  OBVIOUS
  <2>2. QED  BY <2>1 DEF KeptOf
<1>2. n + 1 \in KeptOf(parts, n + 1) <=> IsName(parts[n + 1])
  BY DEF KeptOf
<1>3. KeptOf(parts, n) \subseteq 1 .. n /\ KeptOf(parts, n + 1) \subseteq (1 .. n) \cup {n + 1}
  BY DEF KeptOf
<1>4. QED  BY <1>1, <1>2, <1>3

\* Of all the parts, those stay that PathClean keeps.
LEMMA KeptAll ==
  ASSUME NEW parts \in Seq(STRING)
  PROVE  Kept(parts) = KeptOf(parts, Len(parts))
<1>1. Len(parts) \in Nat /\ DOMAIN parts = 1 .. Len(parts)
  OBVIOUS
<1>2. ASSUME NEW i \in 1 .. Len(parts), NEW j \in i + 1 .. Len(parts)
      PROVE  Cardinality({k \in i + 1 .. j : parts[k] = ".."})
               <= Cardinality({k \in i + 1 .. j : IsName(parts[k])})
             <=> Ahead(parts, i, j) >= 0
  <2>1. i \in Nat /\ j \in Nat  BY <1>1
  <2>2. QED  BY <2>1, PartCounts DEF Ahead
<1>3. QED  BY <1>1, <1>2, Zenon DEF Kept, KeptOf

\* e lists h numbers in increasing order.
Increasing(e, h) == \A a, b \in 1 .. h : a < b => e[a] < e[b]

\* The first b of such a list are b numbers.
LEMMA CountListed ==
  ASSUME NEW h \in Nat, NEW e \in [1 .. h -> Nat], Increasing(e, h), NEW b \in 0 .. h
  PROVE  Cardinality({e[c] : c \in 1 .. b}) = b
<1> DEFINE listed == {e[c] : c \in 1 .. b}
           f == [c \in 1 .. b |-> e[c]]
<1>1. f \in Surjection(1 .. b, listed)
  BY DEF Surjection
<1>2. \A c, d \in 1 .. b : e[c] = e[d] => c = d
  <2> SUFFICES ASSUME NEW c \in 1 .. b, NEW d \in 1 .. b, e[c] = e[d]
               PROVE  c = d
    OBVIOUS
  <2>1. c \in 1 .. h /\ d \in 1 .. h /\ e[c] \in Nat /\ e[d] \in Nat  OBVIOUS
  <2>2. ~ (c < d) /\ ~ (d < c)  BY <2>1 DEF Increasing
  <2>3. QED  BY <2>1, <2>2
<1>3. IsInjective(f)
  BY <1>2 DEF IsInjective
<1>4. ExistsBijection(1 .. b, listed)
  <2>1. f \in Injection(1 .. b, listed)  BY <1>1, <1>3 DEF Injection, Surjection
  <2>2. QED  BY <1>1, <2>1, Zenon DEF ExistsBijection, Bijection
<1>5. Cardinality(listed) = b
  <2>1. \A T : ExistsBijection(1 .. b, T) => Cardinality(T) = b
    BY FS_CountingElements
  <2>2. QED  BY <1>4, <2>1, Zenon
<1>6. QED  BY <1>5

\* The invariant of the loop of cleanCachePath: after n parts its stack has those
\* that stay, in order, each as far ahead as there are parts above it.
OnStack(parts, n, stack, e) ==
  /\ stack \in Seq(STRING) /\ e \in [1 .. Len(stack) -> 1 .. n] /\ Increasing(e, Len(stack))
  /\ KeptOf(parts, n) = {e[a] : a \in 1 .. Len(stack)}
  /\ \A a \in 1 .. Len(stack) : stack[a] = parts[e[a]] /\ Ahead(parts, e[a], n) = Len(stack) - a

\* runnerConfig.js:56 - a part that is pushed, popped or skipped keeps the
\* invariant: a pop takes the one part that falls behind.
LEMMA PushKeeps ==
  ASSUME NEW parts \in Seq(STRING), NEW n \in Nat, n + 1 <= Len(parts),
         NEW stack, NEW e, OnStack(parts, n, stack, e)
  PROVE  \E f : OnStack(parts, n + 1, Push(stack, parts[n + 1]), f)
<1> DEFINE h == Len(stack)
           part == parts[n + 1]
<1>1. /\ h \in Nat /\ stack \in Seq(STRING) /\ part \in STRING
      /\ e \in [1 .. h -> 1 .. n]
  BY DEF OnStack
<1>2. \A a \in 1 .. h : /\ e[a] \in 1 .. n /\ stack[a] = parts[e[a]]
                        /\ Ahead(parts, e[a], n) = h - a
                        /\ Ahead(parts, e[a], n + 1) =
                             h - a + (IF IsName(part) THEN 1 ELSE IF part = ".." THEN -1 ELSE 0)
  <2> SUFFICES ASSUME NEW a \in 1 .. h
               PROVE  /\ e[a] \in 1 .. n /\ stack[a] = parts[e[a]]
                      /\ Ahead(parts, e[a], n) = h - a
                      /\ Ahead(parts, e[a], n + 1) =
                           h - a + (IF IsName(part) THEN 1 ELSE IF part = ".." THEN -1 ELSE 0)
    OBVIOUS
  <2>1. e[a] \in 1 .. n  BY <1>1
  <2>2. stack[a] = parts[e[a]] /\ Ahead(parts, e[a], n) = h - a  BY DEF OnStack
  <2>3. e[a] \in Nat /\ e[a] <= n  BY <2>1
  <2>4. Ahead(parts, e[a], n + 1) =
          Ahead(parts, e[a], n) + (IF IsName(part) THEN 1 ELSE IF part = ".." THEN -1 ELSE 0)
    BY <2>3, AheadNext
  <2>5. QED  BY <2>1, <2>2, <2>4
<1>3. KeptOf(parts, n) = {e[a] : a \in 1 .. h} /\ Increasing(e, h)
  BY DEF OnStack
<1>4. KeptOf(parts, n + 1) = {i \in KeptOf(parts, n) : Ahead(parts, i, n + 1) >= 0}
                               \cup (IF IsName(part) THEN {n + 1} ELSE {})
  BY KeptNext
<1>5. Ahead(parts, n + 1, n + 1) = 0
  BY AheadNext
<1>6. CASE IsName(part)
  <2> DEFINE f == [a \in 1 .. h + 1 |-> IF a = h + 1 THEN n + 1 ELSE e[a]]
             new == Append(stack, part)
  <2>1. Push(stack, part) = new  BY <1>6 DEF Push
  <2>2. /\ new \in Seq(STRING) /\ Len(new) = h + 1 /\ new[h + 1] = part
        /\ \A a \in 1 .. h : new[a] = stack[a]
    BY <1>1
  <2>3. f \in [1 .. h + 1 -> 1 .. n + 1] /\ f[h + 1] = n + 1 /\ \A a \in 1 .. h : f[a] = e[a]
    BY <1>1
  <2>4. \A a \in 1 .. h + 1 : a \in 1 .. h \/ a = h + 1
    BY <1>1
  <2> HIDE DEF f, new
  <2>5. Increasing(f, h + 1)
    <3> SUFFICES ASSUME NEW a \in 1 .. h + 1, NEW b \in 1 .. h + 1, a < b
                 PROVE  f[a] < f[b]
      BY DEF Increasing
    <3>1. a \in 1 .. h /\ f[a] = e[a] /\ e[a] \in 1 .. n  BY <1>1, <1>2, <2>3
    <3>2. CASE b = h + 1
      BY <2>3, <3>1, <3>2
    <3>3. CASE b \in 1 .. h
      BY <1>3, <2>3, <3>1, <3>3 DEF Increasing
    <3>4. QED  BY <2>4, <3>2, <3>3
  <2>6. \A i \in KeptOf(parts, n) : Ahead(parts, i, n + 1) >= 0
    BY <1>1, <1>2, <1>3, <1>6
  <2>7. KeptOf(parts, n + 1) = {e[a] : a \in 1 .. h} \cup {n + 1}
    BY <1>3, <1>4, <1>6, <2>6
  <2>8. KeptOf(parts, n + 1) = {f[a] : a \in 1 .. h + 1}
    <3>1. h + 1 \in 1 .. h + 1 /\ 1 .. h \subseteq 1 .. h + 1  BY <1>1
    <3>2. QED  BY <2>3, <2>4, <2>7, <3>1
  <2>9. ASSUME NEW a \in 1 .. h + 1
        PROVE  new[a] = parts[f[a]] /\ Ahead(parts, f[a], n + 1) = h + 1 - a
    <3>1. CASE a = h + 1
      BY <1>1, <1>5, <2>2, <2>3, <3>1
    <3>2. CASE a \in 1 .. h
      BY <1>1, <1>2, <1>6, <2>2, <2>3, <3>2
    <3>3. QED  BY <2>4, <3>1, <3>2
  <2>10. QED  BY <2>1, <2>2, <2>3, <2>5, <2>8, <2>9 DEF OnStack
<1>7. CASE part = ".." /\ stack # <<>>
  <2> DEFINE f == [a \in 1 .. h - 1 |-> e[a]]
             new == Front(stack)
  <2>1. ~ IsName(part) /\ h # 0  BY <1>1, <1>7 DEF IsName
  <2>2. Push(stack, part) = new  BY <1>7, <2>1 DEF Push
  <2>3. /\ new \in Seq(STRING) /\ Len(new) = h - 1
        /\ \A a \in 1 .. h - 1 : new[a] = stack[a]
    BY <1>1, <1>7, FrontOfStack
  <2>4. /\ h - 1 \in Nat /\ \A a \in 1 .. h - 1 : a \in 1 .. h
        /\ \A a \in 1 .. h : a \in 1 .. h - 1 <=> h - a - 1 >= 0
    BY <1>1, <2>1
  <2>5. f \in [1 .. h - 1 -> 1 .. n + 1] /\ \A a \in 1 .. h - 1 : f[a] = e[a]
    BY <1>1, <2>4
  <2> HIDE DEF f, new
  <2>6. Increasing(f, h - 1)
    BY <1>3, <2>4, <2>5 DEF Increasing
  <2>7. \A a \in 1 .. h : Ahead(parts, e[a], n + 1) = h - a - 1
    BY <1>1, <1>2, <1>7, <2>1
  <2>8. KeptOf(parts, n + 1) = {f[a] : a \in 1 .. h - 1}
    <3>1. KeptOf(parts, n + 1) = {i \in {e[a] : a \in 1 .. h} : Ahead(parts, i, n + 1) >= 0}
      BY <1>3, <1>4, <2>1
    <3>2. \A a \in 1 .. h : Ahead(parts, e[a], n + 1) >= 0 <=> a \in 1 .. h - 1
      BY <2>4, <2>7
    <3>3. QED  BY <2>4, <2>5, <3>1, <3>2
  <2>9. ASSUME NEW a \in 1 .. h - 1
        PROVE  new[a] = parts[f[a]] /\ Ahead(parts, f[a], n + 1) = (h - 1) - a
    BY <1>1, <1>2, <2>3, <2>4, <2>5, <2>7, <2>9
  <2>10. OnStack(parts, n + 1, new, f)
    <3> HIDE DEF h
    <3>1. QED  BY <2>3, <2>5, <2>6, <2>8, <2>9 DEF OnStack
  <2>11. QED  BY <2>2, <2>10, Zenon
<1>8. CASE ~ IsName(part) /\ ~ (part = ".." /\ stack # <<>>)
  <2>1. Push(stack, part) = stack  BY <1>8 DEF Push
  <2>2. \A a \in 1 .. h : Ahead(parts, e[a], n + 1) = h - a
    BY <1>1, <1>2, <1>8
  <2>3. \A a \in 1 .. h : Ahead(parts, e[a], n + 1) >= 0
    BY <1>1, <2>2
  <2>4. KeptOf(parts, n + 1) = {e[a] : a \in 1 .. h}
    BY <1>3, <1>4, <1>8, <2>3
  <2>5. e \in [1 .. h -> 1 .. n + 1]
    BY <1>1
  <2>6. OnStack(parts, n + 1, stack, e)
    BY <1>1, <1>2, <1>3, <2>2, <2>4, <2>5 DEF OnStack
  <2>7. QED  BY <2>1, <2>6
<1>9. QED  BY <1>6, <1>7, <1>8

\* runnerConfig.js:54 - after its last part the loop has the parts that stay.
LEMMA StackOfKept ==
  ASSUME NEW typed \in Seq(STRING)
  PROVE  \E e : OnStack(typed, Len(typed), FoldLeft(Push, <<>>, typed), e)
<1> DEFINE n == Len(typed)
<1>1. PICK run :
         /\ run[0] = <<>>
         /\ \A m \in 1 .. n : run[m] = Push(run[m - 1], typed[m])
         /\ FoldLeft(Push, <<>>, typed) = run[n]
  BY PathRuns
<1> DEFINE Good(m) == \E e : OnStack(typed, m, run[m], e)
           S == {m \in Nat : m <= n => Good(m)}
<1>2. n \in Nat
  OBVIOUS
<1>3. Good(0)
  <2>1. OnStack(typed, 0, <<>>, <<>>)
    BY DEF OnStack, KeptOf, Increasing
  <2>2. QED  BY <1>1, <2>1
<1>4. ASSUME NEW m \in Nat, m + 1 <= n, Good(m)
      PROVE  Good(m + 1)
  <2>1. run[m + 1] = Push(run[m], typed[m + 1])
    BY <1>1, <1>2, <1>4
  <2>2. PICK e : OnStack(typed, m, run[m], e)
    BY <1>4
  <2>3. \E f : OnStack(typed, m + 1, Push(run[m], typed[m + 1]), f)
    BY <1>4, <2>2, PushKeeps
  <2>4. QED  BY <2>1, <2>3
<1>5. Good(n)
  <2> HIDE DEF Good
  <2>1. 0 \in S  BY <1>3
  <2>2. \A m \in Nat : m \in S => m + 1 \in S  BY <1>4
  <2>3. n \in S
    <3> HIDE DEF S, n
    <3>1. QED  BY <1>2, <2>1, <2>2, Induction
  <2>4. QED  BY <1>2, <2>3
<1>6. QED  BY <1>1, <1>5

\* runnerConfig.js:46 - an absolute path of any length is to the form what path.Clean
\* of Go makes of it, with which the server validates it (persistence.go:168).
THEOREM CleansLikeGo ==
  ASSUME NEW p \in Paths, p.abs
  PROVE  cleanCachePath(p) = PathClean(p)
<1> DEFINE parts == p.parts
           stack == FoldLeft(Push, <<>>, parts)
           kept == Kept(parts)
           h == Len(stack)
           Nth(a) == CHOOSE i \in kept : Cardinality({j \in kept : j <= i}) = a
<1>1. parts \in Seq(STRING) /\ p = [abs |-> TRUE, parts |-> parts] /\ p # NoPath
  BY DEF Paths, NoPath
<1>2. PICK e : OnStack(parts, Len(parts), stack, e)
  <2> HIDE DEF parts
  <2>1. QED  BY <1>1, StackOfKept
<1> HIDE DEF stack
<1>3. /\ stack \in Seq(STRING) /\ h \in Nat /\ e \in [1 .. h -> 1 .. Len(parts)]
      /\ Increasing(e, h) /\ kept = {e[a] : a \in 1 .. h}
      /\ \A a \in 1 .. h : stack[a] = parts[e[a]]
  BY <1>1, <1>2, KeptAll DEF OnStack
<1> HIDE DEF kept, parts
<1>4. e \in [1 .. h -> Nat] /\ \A a \in 1 .. h : e[a] \in Nat
  BY <1>1, <1>3
<1>5. Cardinality(kept) = h
  <2>1. h \in 0 .. h  BY <1>3
  <2>2. QED  BY <1>3, <1>4, <2>1, CountListed
<1>6. ASSUME NEW b \in 1 .. h
      PROVE  Cardinality({j \in kept : j <= e[b]}) = b
  <2>1. \A a \in 1 .. h : e[a] <= e[b] <=> a <= b
    BY <1>3, <1>4 DEF Increasing
  <2>2. {j \in kept : j <= e[b]} = {e[c] : c \in 1 .. b}
    BY <1>3, <2>1
  <2>3. b \in 0 .. h  BY <1>3
  <2>4. QED  BY <1>3, <1>4, <2>2, <2>3, CountListed
<1>7. ASSUME NEW a \in 1 .. h
      PROVE  Nth(a) = e[a]
  <2>1. e[a] \in kept /\ Cardinality({j \in kept : j <= e[a]}) = a
    BY <1>3, <1>6
  <2>2. ASSUME NEW i \in kept, Cardinality({j \in kept : j <= i}) = a
        PROVE  i = e[a]
    <3>1. PICK b \in 1 .. h : i = e[b]  BY <1>3
    <3>2. QED  BY <1>6, <2>2, <3>1
  <2>3. QED  BY <2>1, <2>2, Zenon
<1> HIDE DEF Nth
<1>8. [a \in 1 .. Cardinality(kept) |-> parts[Nth(a)]] = stack
  <2>1. stack = [a \in 1 .. h |-> stack[a]]  BY <1>3
  <2>2. \A a \in 1 .. h : stack[a] = parts[Nth(a)]  BY <1>3, <1>7
  <2>3. QED  BY <1>5, <2>1, <2>2
<1>9. PathClean(p) = AbsPath([a \in 1 .. Cardinality(kept) |-> parts[Nth(a)]])
  BY Zenon DEF PathClean, kept, parts, Nth
<1>10. cleanCachePath(p) = [abs |-> TRUE, parts |-> stack]
  BY <1>1 DEF cleanCachePath, stack, parts
<1>11. QED  BY <1>8, <1>9, <1>10 DEF AbsPath

\* A sequence of one.
LEMMA OnePart ==
  ASSUME NEW S, NEW part \in S
  PROVE  <<part>> \in Seq(S) /\ Len(<<part>>) = 1 /\ <<part>>[1] = part
OBVIOUS

\* runnerConfig.js:65 - what is left of a path is one, absolute if it was.
LEMMA CleanIsPath ==
  ASSUME NEW p \in Paths
  PROVE  cleanCachePath(p) \in Paths /\ cleanCachePath(p).abs = p.abs
<1> DEFINE stack == FoldLeft(Push, <<>>, p.parts)
<1>1. p.abs \in BOOLEAN /\ p.parts \in Seq(STRING) /\ p = [abs |-> p.abs, parts |-> p.parts]
  BY DEF Paths
<1>2. stack \in Seq(STRING)
  BY <1>1, StackOfKept DEF OnStack
<1> HIDE DEF stack
<1>3. CASE p = NoPath
  BY <1>3 DEF cleanCachePath
<1>4. CASE p # NoPath
  <2> DEFINE parts == IF ~ p.abs /\ stack = <<>> THEN <<".">> ELSE stack
  <2>1. parts \in Seq(STRING)
    <3>1. "." \in STRING  BY NamesAssumption
    <3>2. <<".">> \in Seq(STRING)  BY <3>1, OnePart, Zenon
    <3>3. QED  BY <1>2, <3>2, Zenon
  <2> HIDE DEF parts
  <2>2. cleanCachePath(p) = [p EXCEPT !.parts = parts]
    BY <1>4, Zenon DEF cleanCachePath, stack, parts
  <2>3. QED  BY <1>1, <2>1, <2>2 DEF Paths
<1>5. QED  BY <1>3, <1>4

\* persistence.go:168 - a path that can be mounted is clean for the form too.
LEMMA MountedIsClean ==
  ASSUME NEW p \in Paths, MountPath(p)
  PROVE  p.abs /\ p # NoPath /\ cleanCachePath(p) = p
BY CleansLikeGo DEF MountPath, NoPath

\* runnerConfig.js:139 - the path of a new form is clean.
LEMMA CachePathClean == CachePath \in Paths /\ PathClean(CachePath) = CachePath
<1> DEFINE name == "cache"
           parts == <<name>>
<1>1. name \in STRING /\ IsName(name)
  BY NamesAssumption DEF IsName, Skipped
<1>2. CachePath = AbsPath(parts)
  BY DEF CachePath
<1> HIDE DEF name
<1>3. parts \in Seq(STRING) /\ Len(parts) = 1 /\ parts[1] = name
  <2>1. \A S : name \in S => <<name>> \in Seq(S) /\ Len(<<name>>) = 1 /\ <<name>>[1] = name
    BY OnePart
  <2>2. QED  BY <1>1, <2>1, Zenon
<1>4. Push(<<>>, name) = parts
  <2>1. Push(<<>>, name) = Append(<<>>, name)  BY <1>1 DEF Push
  <2>2. Append(<<>>, name) = <<name>>  OBVIOUS
  <2>3. QED  BY <2>1, <2>2
<1> HIDE DEF parts
<1>5. CachePath \in Paths /\ CachePath.abs /\ CachePath # NoPath /\ CachePath.parts = parts
  BY <1>2, <1>3 DEF AbsPath, Paths, NoPath
<1>6. PICK run :
         /\ run[0] = <<>>
         /\ \A m \in 1 .. Len(parts) : run[m] = Push(run[m - 1], parts[m])
         /\ FoldLeft(Push, <<>>, parts) = run[Len(parts)]
  BY <1>3, PathRuns
<1>7. FoldLeft(Push, <<>>, parts) = parts
  <2>1. 1 \in 1 .. Len(parts)  BY <1>3
  <2>2. run[1] = Push(run[1 - 1], parts[1])  BY <1>6, <2>1
  <2>3. run[1 - 1] = <<>>  BY <1>6
  <2>4. run[1] = Push(<<>>, name)  BY <1>3, <2>2, <2>3
  <2>5. QED  BY <1>3, <1>4, <1>6, <2>4
<1>8. cleanCachePath(CachePath) = CachePath
  BY <1>2, <1>5, <1>7 DEF cleanCachePath, AbsPath
<1>9. QED  BY <1>5, <1>8, CleansLikeGo

\* runnerConfig.js:46 - the server can mount the path that the form sends exactly
\* if it can mount the one typed, and they are the same then.
LEMMA MountsAsTyped ==
  ASSUME NEW p \in Paths
  PROVE  /\ MountPath(cleanCachePath(p)) <=> MountPath(PathClean(p))
         /\ MountPath(PathClean(p)) => cleanCachePath(p) = PathClean(p)
<1>1. CASE p.abs
  BY <1>1, CleansLikeGo
<1>2. CASE ~ p.abs
  <2>1. ~ cleanCachePath(p).abs  BY <1>2, CleanIsPath
  <2>2. PathClean(p) = p  BY <1>2 DEF PathClean
  <2>3. QED  BY <1>2, <2>1, <2>2 DEF MountPath
<1>3. QED  BY <1>1, <1>2

--------------------------------------------------------------------------------
(* The configuration on its way.                                             *)

\* The inputs of a form, one by one.
LEMMA TypedFields ==
  ASSUME NEW f
  PROVE  TypedForm(f) <=>
           /\ f = [x \in Fields |-> f[x]]
           /\ f.labels \in Seq(STRING) /\ f.limit \in Int /\ f.env \in Seq(Lines)
           /\ f.host \in Paths /\ f.target \in Paths
           /\ f.cacheEnabled \in BOOLEAN /\ f.cacheType \in CacheTypes
BY DEF TypedForm, Inputs

\* CreateRunnerDialog.vue:153 - a new form could have been typed.
LEMMA NewTyped == TypedForm(NewForm)
<1>1. NoPath \in Paths  BY DEF NoPath, Paths
<1>2. NewForm = [x \in Fields |-> NewForm[x]]
  BY DEF Fields, NewForm
<1>3. /\ NewForm.labels \in Seq(STRING) /\ NewForm.limit \in Int /\ NewForm.env \in Seq(Lines)
      /\ NewForm.host \in Paths /\ NewForm.target \in Paths
      /\ NewForm.cacheEnabled \in BOOLEAN /\ NewForm.cacheType \in CacheTypes
  BY <1>1, CachePathClean DEF NewForm, CacheTypes
<1>4. QED  BY <1>2, <1>3, TypedFields

\* persistence.go:118 - a stored cache is none, a bind at one clean path on both
\* sides, or a volume at one.
LEMMA StoredCacheFields ==
  ASSUME NEW c, CacheAsStored(c)
  PROVE  \/ c = NoCache /\ ~ c.enabled
         \/ /\ c.enabled /\ c.type \in CacheTypes
            /\ c.target \in Paths /\ MountPath(c.target) /\ c.host \in Paths
            /\ c.type = "bind" => c.host = c.target /\ c = Bind(c.host, c.readOnly)
            /\ c.type = "volume" => c = Volume(c.volume, c.target, c.readOnly)
<1>1. CASE c = NoCache
  BY <1>1 DEF NoCache
<1>2. NoPath \in Paths  BY DEF NoPath, Paths
<1>3. CASE c = Bind(c.target, c.readOnly) /\ c.target \in Paths /\ MountPath(c.target)
  <2>1. c.enabled /\ c.type = "bind" /\ c.host = c.target
    BY <1>3 DEF Bind
  <2>2. QED  BY <1>3, <2>1 DEF CacheTypes
<1>4. CASE c = Volume(c.volume, c.target, c.readOnly) /\ c.target \in Paths /\ MountPath(c.target)
  <2>1. c.enabled /\ c.type = "volume" /\ c.host = NoPath
    BY <1>4 DEF Volume
  <2>2. QED  BY <1>2, <1>4, <2>1 DEF CacheTypes
<1>5. QED  BY <1>1, <1>3, <1>4 DEF CacheAsStored

\* runnerConfig.js:78 - the form of a stored record could have been typed.
LEMMA LoadedTyped ==
  ASSUME NEW rec, AsStored(rec)
  PROVE  TypedForm(FormOf(rec))
<1> DEFINE f == FormOf(rec)
           c == cacheFromRunner(rec.cache)
<1>1. f = [x \in Fields |-> f[x]]
  BY DEF FormOf, Fields, NewForm
<1>2. /\ f.labels = rec.labels /\ f.limit = rec.limit /\ f.env = formatExtraEnv(rec.env)
      /\ f.host = c.host /\ f.target = c.target
      /\ f.cacheEnabled = c.cacheEnabled /\ f.cacheType = c.cacheType
  BY DEF FormOf
<1>3. /\ c.host \in Paths /\ c.target \in Paths
      /\ c.cacheEnabled \in BOOLEAN /\ c.cacheType \in CacheTypes
  <2>1. CacheAsStored(rec.cache)  BY DEF AsStored
  <2>2. CASE ~ rec.cache.enabled
    <3>1. NoPath \in Paths  BY DEF NoPath, Paths
    <3>2. QED  BY <2>2, <3>1, CachePathClean DEF cacheFromRunner, NewForm, CacheTypes
  <2>3. CASE rec.cache.enabled
    <3>1. rec.cache.host \in Paths /\ rec.cache.target \in Paths /\ rec.cache.type \in CacheTypes
      BY <2>1, <2>3, StoredCacheFields
    <3>2. /\ cleanCachePath(rec.cache.host) \in Paths
          /\ cleanCachePath(IF rec.cache.type = "bind" THEN rec.cache.host ELSE rec.cache.target)
               \in Paths
      BY <3>1, CleanIsPath
    <3>3. QED  BY <2>3, <3>1, <3>2 DEF cacheFromRunner
  <2>4. QED  BY <2>2, <2>3
<1>4. f.labels \in Seq(STRING) /\ f.limit \in Int
  BY <1>2 DEF AsStored
<1>5. f.env \in Seq(Lines)
  BY <1>2, EnvComesBack DEF AsStored, Envs
<1> HIDE DEF f
<1>6. QED  BY <1>1, <1>2, <1>3, <1>4, <1>5, TypedFields DEF f

\* RunnerConfigFields.vue - a field that is typed into has what its input gives.
LEMMA EntryTyped ==
  ASSUME TypedForm(form), NEW f \in DOMAIN Entries, NEW v \in Entries[f]
  PROVE  TypedForm([form EXCEPT ![f] = v])
<1>1. f \in Fields /\ (f \in DOMAIN Inputs => v \in Inputs[f])
  BY EntriesAssumption
<1>2. DOMAIN Inputs \subseteq Fields
  BY DEF Inputs, Fields, NewForm
<1>3. QED  BY <1>1, <1>2 DEF TypedForm

\* runnerConfig.js:154 - the payload of a form, field by field.
LEMMA PayloadFields ==
  ASSUME NEW f, TypedForm(f)
  PROVE  LET p == buildRuntimePayload(f)
         IN  /\ p = [labels |-> p.labels, image |-> p.image, limit |-> p.limit,
                     env |-> p.env, sock |-> p.sock, cache |-> p.cache]
             /\ p.labels = normalizeLabelList(f.labels) /\ p.image = f.image
             /\ p.limit = (IF f.limit > 0 THEN f.limit ELSE 0)
             /\ p.env = parseExtraEnvText(f.env) /\ p.sock = f.sock
             /\ ~ f.cacheEnabled => p.cache = NoCache
             /\ f.cacheEnabled /\ f.cacheType = "bind" =>
                  p.cache = Bind(cleanCachePath(f.host), f.readOnly)
             /\ f.cacheEnabled /\ f.cacheType = "volume" =>
                  p.cache = Volume(f.volume, VolumePath(f.target), f.readOnly)
BY DEF buildRuntimePayload

\* manager.go - the record of a payload: the default labels and image, and the rest
\* as it was sent.
LEMMA StoredFields ==
  ASSUME NEW p,
         p = [labels |-> p.labels, image |-> p.image, limit |-> p.limit,
              env |-> p.env, sock |-> p.sock, cache |-> p.cache]
  PROVE  Stored(p) = [labels |-> IF p.labels = <<>> THEN DefaultLabels ELSE p.labels,
                      image |-> IF p.image = Unset THEN DefaultImage ELSE p.image,
                      limit |-> p.limit, env |-> p.env, sock |-> p.sock, cache |-> p.cache]
<1> DEFINE labels == IF p.labels = <<>> THEN DefaultLabels ELSE p.labels
           image == IF p.image = Unset THEN DefaultImage ELSE p.image
<1>1. Stored(p) = [[p EXCEPT !.labels = labels] EXCEPT !.image = image]
  BY DEF Stored
<1> HIDE DEF labels, image
<1>2. Stored(p) = [labels |-> labels, image |-> image,
                   limit |-> p.limit, env |-> p.env, sock |-> p.sock, cache |-> p.cache]
  BY <1>1
<1>3. QED  BY <1>2 DEF labels, image

\* manager.go - what the server accepts of a form is a record as it stores them.
LEMMA StoresKnown ==
  ASSUME NEW f, TypedForm(f), Accepts(buildRuntimePayload(f))
  PROVE  AsStored(Stored(buildRuntimePayload(f)))
<1> DEFINE p == buildRuntimePayload(f)
           rec == Stored(p)
<1>1. /\ f.labels \in Seq(STRING) /\ f.limit \in Int /\ f.env \in Seq(Lines)
      /\ f.host \in Paths /\ f.target \in Paths
      /\ f.cacheEnabled \in BOOLEAN /\ f.cacheType \in CacheTypes
  BY TypedFields
<1>2. /\ p = [labels |-> p.labels, image |-> p.image, limit |-> p.limit,
              env |-> p.env, sock |-> p.sock, cache |-> p.cache]
      /\ p.labels = normalizeLabelList(f.labels)
      /\ p.limit = (IF f.limit > 0 THEN f.limit ELSE 0)
      /\ p.env = parseExtraEnvText(f.env)
  BY PayloadFields
<1>3. Accepts(p)
  OBVIOUS
<1>4. CacheAsStored(p.cache)
  <2>1. CASE ~ f.cacheEnabled
    <3>1. p.cache = NoCache  BY <2>1, PayloadFields
    <3>2. QED  BY <3>1 DEF CacheAsStored
  <2>2. CASE f.cacheEnabled /\ f.cacheType = "bind"
    <3>1. p.cache = Bind(cleanCachePath(f.host), f.readOnly)  BY <2>2, PayloadFields
    <3>2. cleanCachePath(f.host) \in Paths  BY <1>1, CleanIsPath
    <3> HIDE DEF p
    <3>3. /\ p.cache.enabled /\ p.cache.target = cleanCachePath(f.host)
          /\ p.cache.readOnly = f.readOnly
      BY <3>1 DEF Bind
    <3>4. MountPath(p.cache.target)  BY <1>3, <3>3 DEF Accepts
    <3>5. QED  BY <3>1, <3>2, <3>3, <3>4 DEF CacheAsStored
  <2>3. CASE f.cacheEnabled /\ f.cacheType = "volume"
    <3>1. p.cache = Volume(f.volume, VolumePath(f.target), f.readOnly)  BY <2>3, PayloadFields
    <3>2. VolumePath(f.target) \in Paths  BY <1>1, CleanIsPath, CachePathClean DEF VolumePath
    <3> HIDE DEF p
    <3>3. /\ p.cache.enabled /\ p.cache.target = VolumePath(f.target)
          /\ p.cache.readOnly = f.readOnly /\ p.cache.volume = f.volume
      BY <3>1 DEF Volume
    <3>4. MountPath(p.cache.target)  BY <1>3, <3>3 DEF Accepts
    <3>5. QED  BY <3>1, <3>2, <3>3, <3>4 DEF CacheAsStored
  <2>4. QED  BY <1>1, <2>1, <2>2, <2>3 DEF CacheTypes
<1>5. p.labels \in Seq(STRING) /\ Blank \notin Range(p.labels)
  BY <1>1, <1>2, LabelsKept
<1>6. p.env \in [Keys -> Values \cup {Unset}]
  BY <1>1, <1>2, LastLineWins DEF Envs
<1>7. p.limit \in Nat
  BY <1>1, <1>2
<1>8. /\ DefaultLabels \in Seq(STRING) /\ DefaultLabels # <<>>
      /\ Blank \notin Range(DefaultLabels)
  <2>1. DefaultLabels \in Seq(STRING)
    <3>1. "self-hosted" \in STRING /\ "linux" \in STRING  BY NamesAssumption
    <3>2. \A a, b, S : a \in S /\ b \in S => <<a, b>> \in Seq(S)  OBVIOUS
    <3>3. QED  BY <3>1, <3>2, Zenon DEF DefaultLabels
  <2>2. QED  BY <2>1 DEF DefaultLabels, Range, Blank
<1>9. DefaultImage # Unset
  BY UnsetAssumption
<1> HIDE DEF p
<1>10. rec = [labels |-> IF p.labels = <<>> THEN DefaultLabels ELSE p.labels,
              image |-> IF p.image = Unset THEN DefaultImage ELSE p.image,
              limit |-> p.limit, env |-> p.env, sock |-> p.sock, cache |-> p.cache]
  BY <1>2, StoredFields
<1> HIDE DEF rec
<1>11. AsStored(rec)
  BY <1>4, <1>5, <1>6, <1>7, <1>8, <1>9, <1>10 DEF AsStored
<1>12. QED  BY <1>11 DEF rec, p

\* runnerConfig.js:78 - a stored record that is loaded into a form and sent parses,
\* is accepted and stores itself, with its values trimmed.
THEOREM ThereAndBack ==
  ASSUME NEW rec, AsStored(rec)
  PROVE  /\ Parses(FormOf(rec).env) /\ Accepts(buildRuntimePayload(FormOf(rec)))
         /\ Stored(buildRuntimePayload(FormOf(rec))) = [rec EXCEPT !.env = TrimmedEnv(rec.env)]
<1> DEFINE f == FormOf(rec)
           p == buildRuntimePayload(f)
           c == cacheFromRunner(rec.cache)
<1>1. TypedForm(f)
  BY LoadedTyped
<1>2. /\ f.labels = rec.labels /\ f.image = rec.image /\ f.limit = rec.limit
      /\ f.env = formatExtraEnv(rec.env) /\ f.sock = rec.sock
      /\ f.cacheEnabled = c.cacheEnabled /\ f.cacheType = c.cacheType /\ f.volume = c.volume
      /\ f.host = c.host /\ f.target = c.target /\ f.readOnly = c.readOnly
  BY DEF FormOf
<1>3. Parses(f.env) /\ parseExtraEnvText(f.env) = TrimmedEnv(rec.env)
  BY <1>2, EnvComesBack DEF AsStored, Envs
<1>4. normalizeLabelList(f.labels) = rec.labels /\ rec.labels # <<>>
  BY <1>2, LabelsKept DEF AsStored
<1>5. (IF f.limit > 0 THEN f.limit ELSE 0) = rec.limit
  BY <1>2 DEF AsStored
<1> HIDE DEF f
<1>6. p.cache = rec.cache
  <2>1. CacheAsStored(rec.cache)  BY DEF AsStored
  <2>2. CASE ~ rec.cache.enabled
    <3>1. rec.cache = NoCache  BY <2>1, <2>2, StoredCacheFields
    <3>2. ~ f.cacheEnabled  BY <1>2, <2>2 DEF cacheFromRunner, NewForm
    <3>3. QED  BY <1>1, <3>1, <3>2, PayloadFields
  <2>3. CASE rec.cache.enabled
    <3>1. /\ rec.cache.type \in CacheTypes
          /\ rec.cache.target \in Paths /\ MountPath(rec.cache.target)
          /\ rec.cache.type = "bind" => rec.cache.host = rec.cache.target
                                        /\ rec.cache = Bind(rec.cache.host, rec.cache.readOnly)
          /\ rec.cache.type = "volume" =>
               rec.cache = Volume(rec.cache.volume, rec.cache.target, rec.cache.readOnly)
      BY <2>1, <2>3, StoredCacheFields
    <3>2. rec.cache.target # NoPath /\ cleanCachePath(rec.cache.target) = rec.cache.target
      BY <3>1, MountedIsClean
    <3>3. /\ f.cacheEnabled /\ f.cacheType = rec.cache.type /\ f.volume = rec.cache.volume
          /\ f.host = cleanCachePath(rec.cache.host)
          /\ rec.cache.type = "volume" => f.target = cleanCachePath(rec.cache.target)
      BY <1>2, <2>3 DEF cacheFromRunner
    <3>4. f.readOnly = rec.cache.readOnly
      BY <1>2, <2>3, Zenon DEF cacheFromRunner
    <3>5. CASE rec.cache.type = "bind"
      <4>1. p.cache = Bind(cleanCachePath(f.host), f.readOnly)
        BY <1>1, <3>3, <3>5, PayloadFields
      <4>2. cleanCachePath(f.host) = rec.cache.host
        BY <3>1, <3>2, <3>3, <3>5
      <4>3. QED  BY <3>1, <3>4, <3>5, <4>1, <4>2
    <3>6. CASE rec.cache.type = "volume"
      <4>1. p.cache = Volume(f.volume, VolumePath(f.target), f.readOnly)
        BY <1>1, <3>3, <3>6, PayloadFields
      <4>2. VolumePath(f.target) = rec.cache.target
        BY <3>2, <3>3, <3>6 DEF VolumePath
      <4>3. QED  BY <3>1, <3>3, <3>4, <3>6, <4>1, <4>2
    <3>7. QED  BY <3>1, <3>5, <3>6 DEF CacheTypes
  <2>4. QED  BY <2>2, <2>3
<1>7. Accepts(p)
  <2>1. rec.cache.enabled => MountPath(rec.cache.target)
    BY StoredCacheFields DEF AsStored
  <2> HIDE DEF p
  <2>2. QED  BY <1>6, <2>1 DEF Accepts
<1>8. /\ p = [labels |-> p.labels, image |-> p.image, limit |-> p.limit,
              env |-> p.env, sock |-> p.sock, cache |-> p.cache]
      /\ p.labels = rec.labels /\ p.image = rec.image /\ p.limit = rec.limit
      /\ p.env = TrimmedEnv(rec.env) /\ p.sock = rec.sock
  BY <1>1, <1>2, <1>3, <1>4, <1>5, PayloadFields
<1> HIDE DEF p
<1>9. Stored(p) = [labels |-> IF p.labels = <<>> THEN DefaultLabels ELSE p.labels,
                   image |-> IF p.image = Unset THEN DefaultImage ELSE p.image,
                   limit |-> p.limit, env |-> p.env, sock |-> p.sock, cache |-> p.cache]
  BY <1>8, StoredFields
<1>10. rec.image # Unset /\ rec = [labels |-> rec.labels, image |-> rec.image, limit |-> rec.limit,
                                   env |-> rec.env, sock |-> rec.sock, cache |-> rec.cache]
  BY DEF AsStored
<1>11. Stored(p) = [labels |-> rec.labels, image |-> rec.image, limit |-> rec.limit,
                    env |-> TrimmedEnv(rec.env), sock |-> rec.sock, cache |-> rec.cache]
  BY <1>4, <1>6, <1>8, <1>9, <1>10
<1>12. Stored(p) = [rec EXCEPT !.env = TrimmedEnv(rec.env)]
  BY <1>10, <1>11
<1>13. QED  BY <1>3, <1>7, <1>12 DEF f, p

\* runnerConfig.js:154 - a payload that is made of a form stores what is typed in it.
LEMMA SavesAsTyped ==
  ASSUME NEW f, TypedForm(f)
  PROVE  StoredAsTyped(f)
<1> DEFINE p == buildRuntimePayload(f)
           rec == Stored(p)
           typed == PathClean(IF f.cacheType = "bind" THEN f.host
                              ELSE IF f.target = NoPath THEN CachePath ELSE f.target)
<1>1. /\ f.env \in Seq(Lines) /\ f.host \in Paths /\ f.target \in Paths
      /\ f.cacheEnabled \in BOOLEAN /\ f.cacheType \in CacheTypes
  BY TypedFields
<1>2. rec.cache = p.cache /\ rec.env = parseExtraEnvText(f.env)
  <2>1. /\ p = [labels |-> p.labels, image |-> p.image, limit |-> p.limit,
                env |-> p.env, sock |-> p.sock, cache |-> p.cache]
        /\ p.env = parseExtraEnvText(f.env)
    BY PayloadFields
  <2> HIDE DEF p
  <2>2. Stored(p) = [labels |-> IF p.labels = <<>> THEN DefaultLabels ELSE p.labels,
                     image |-> IF p.image = Unset THEN DefaultImage ELSE p.image,
                     limit |-> p.limit, env |-> p.env, sock |-> p.sock, cache |-> p.cache]
    BY <2>1, StoredFields
  <2>3. QED  BY <2>1, <2>2
<1>3. /\ p.cache.enabled = f.cacheEnabled
      /\ f.cacheEnabled => (Accepts(p) <=> MountPath(typed))
      /\ f.cacheEnabled /\ MountPath(typed) =>
           /\ p.cache.target = typed
           /\ f.cacheType = "bind" => p.cache.host = typed
  <2>1. CASE ~ f.cacheEnabled
    <3>1. p.cache = NoCache  BY <2>1, PayloadFields
    <3>2. p.cache.enabled = FALSE  BY <3>1 DEF NoCache
    <3>3. QED  BY <1>1, <2>1, <3>2
  <2>2. CASE f.cacheEnabled /\ f.cacheType = "bind"
    <3>1. p.cache = Bind(cleanCachePath(f.host), f.readOnly)  BY <2>2, PayloadFields
    <3>2. /\ p.cache.enabled = TRUE /\ p.cache.target = cleanCachePath(f.host)
          /\ p.cache.host = cleanCachePath(f.host)
      BY <3>1 DEF Bind
    <3>3. typed = PathClean(f.host)  BY <2>2
    <3> HIDE DEF p, typed
    <3>4. Accepts(p) <=> MountPath(typed)
      BY <1>1, <3>2, <3>3, MountsAsTyped DEF Accepts
    <3>5. QED  BY <1>1, <2>2, <3>2, <3>3, <3>4, MountsAsTyped
  <2>3. CASE f.cacheEnabled /\ f.cacheType = "volume"
    <3>1. p.cache = Volume(f.volume, VolumePath(f.target), f.readOnly)
      BY <2>3, PayloadFields
    <3>2. /\ p.cache.enabled = TRUE /\ p.cache.target = VolumePath(f.target)
      BY <3>1 DEF Volume
    <3>3. /\ MountPath(VolumePath(f.target)) <=> MountPath(typed)
          /\ MountPath(typed) => VolumePath(f.target) = typed
      <4>1. CASE f.target = NoPath
        BY <2>3, <4>1, CachePathClean DEF VolumePath
      <4>2. CASE f.target # NoPath
        BY <1>1, <2>3, <4>2, MountsAsTyped DEF VolumePath
      <4>3. QED  BY <4>1, <4>2
    <3> HIDE DEF p, typed
    <3>4. Accepts(p) <=> MountPath(typed)
      BY <3>2, <3>3 DEF Accepts
    <3>5. QED  BY <1>1, <2>3, <3>2, <3>3, <3>4
  <2>4. QED  BY <1>1, <2>1, <2>2, <2>3 DEF CacheTypes
<1>4. \A k \in Keys :
        LET lines == {i \in DOMAIN f.env : f.env[i].kind = "pair" /\ f.env[i].key = k}
        IN  IF lines = {} THEN parseExtraEnvText(f.env)[k] = Unset
            ELSE \E i \in lines : /\ parseExtraEnvText(f.env)[k] = Trimmed[f.env[i].value]
                                  /\ \A j \in lines : j <= i
  BY <1>1, LastLineWins
<1> HIDE DEF p, rec, typed
<1>5. QED  BY <1>2, <1>3, <1>4 DEF StoredAsTyped, p, rec, typed

\* runnerConfig.js:108, persistence.go - of a volume that the server accepts, the
\* form names the path that the server will name: both leave it as it is sent.
LEMMA SameWarning ==
  ASSUME NEW f, TypedForm(f), Accepts(buildRuntimePayload(f))
  PROVE  cacheSiblingPathWarning(f) = ServerWarning(Stored(buildRuntimePayload(f)))
<1> DEFINE sentCache == buildRuntimePayload(f).cache
<1>1. Stored(buildRuntimePayload(f)).cache = sentCache
  BY PayloadFields, StoredFields
<1>2. CASE ~ f.cacheEnabled
  <2>1. ~ sentCache.enabled  BY <1>2 DEF buildRuntimePayload, NoCache
  <2>2. QED  BY <1>1, <1>2, <2>1 DEF cacheSiblingPathWarning, ServerWarning
<1>3. CASE f.cacheEnabled /\ f.cacheType = "bind"
  <2>1. sentCache.type = "bind"  BY <1>3 DEF buildRuntimePayload, Bind
  <2>2. QED  BY <1>1, <1>3, <2>1 DEF cacheSiblingPathWarning, ServerWarning
<1>4. CASE f.cacheEnabled /\ f.cacheType = "volume"
  <2>1. /\ sentCache.enabled /\ sentCache.type = "volume"
        /\ sentCache.target = VolumePath(f.target)
    BY <1>4 DEF buildRuntimePayload, Volume
  <2>2. PathClean(VolumePath(f.target)) = VolumePath(f.target)
    BY <2>1 DEF Accepts, MountPath
  <2>3. QED  BY <1>1, <1>4, <2>1, <2>2 DEF cacheSiblingPathWarning, ServerWarning
<1>5. QED  BY <1>2, <1>3, <1>4, TypedFields DEF CacheTypes

--------------------------------------------------------------------------------
(* What is in flight.                                                        *)

\* No edit is in flight, and a creation only beside another.
Quiet == \A q \in Requests : Sent(q) => flights[q].kind = "create" /\ overlap

\* CreateRunnerDialog.vue:40, EditRunnerDialog.vue:176 - fields that are enabled, and
\* a form that can be closed, have nothing in flight of what the form holds.
LEMMA IdleIsQuiet ==
  ASSUME InFlight, Idle \/ dialog = None
  PROVE  Quiet
<1> SUFFICES ASSUME NEW q \in Requests, Sent(q), ~ (flights[q].kind = "create" /\ overlap)
             PROVE  FALSE
  BY DEF Quiet
<1>1. flights[q].kind \in {"create", "save", "apply"}
  BY DEF InFlight, Flights, Sent
<1>2. flights[q].kind \in {"save", "apply"} \/ ~ overlap
  BY <1>1
<1>3. dialog = DialogOf(flights[q].kind) /\ ~ Idle
  BY <1>2 DEF InFlight, SentAsHeld
<1>4. DialogOf(flights[q].kind) # None
  BY NoneAssumption DEF DialogOf
<1>5. QED  BY <1>3, <1>4

\* Then the form may change.
LEMMA KeepsQuiet ==
  ASSUME InFlight, Quiet, UNCHANGED request, token' \in BOOLEAN,
         creating => dialog' = "create"
  PROVE  InFlight'
<1>1. UNCHANGED <<flights, overlap, creating>>  BY DEF request
<1>2. Flights'  BY <1>1 DEF InFlight, Flights, Sent
<1>3. SentAsHeld'
  <2> SUFFICES ASSUME NEW q \in Requests, Sent(q)'
               PROVE  flights'[q].kind = "create" /\ overlap'
    BY DEF SentAsHeld
  <2>1. QED  BY <1>1 DEF Quiet, Sent
<1>4. QED  BY <1>1, <1>2, <1>3 DEF InFlight

\* What is in flight after a submit: what the form holds, with the token that is typed
\* unless it is a save.
Made(kind) == [kind |-> kind, form |-> form, token |-> token /\ kind # "save", reply |-> None]

LEMMA MadeHolds ==
  ASSUME NEW kind, token \in BOOLEAN
  PROVE  /\ Made(kind).kind = kind /\ Made(kind).form = form
         /\ kind = "save" => ~ Made(kind).token
         /\ kind # "save" => Made(kind).token = token
<1>1. Made(kind).kind = kind /\ Made(kind).form = form
  BY DEF Made
<1>2. Made(kind).token = (token /\ kind # "save")
  BY Zenon DEF Made
<1>3. CASE token = TRUE   BY <1>1, <1>2, <1>3, Zenon
<1>4. CASE token = FALSE  BY <1>1, <1>2, <1>4, Zenon
<1>5. QED  BY <1>3, <1>4

LEMMA Launched ==
  ASSUME NEW kind, Flights, Launch(kind)
  PROVE  \E q \in Requests :
           /\ ~ Sent(q) /\ flights'[q] = Made(kind)
           /\ flights' = [o \in Requests |-> IF o = q THEN Made(kind) ELSE flights[o]]
<1> DEFINE free == CHOOSE q \in Requests : ~ Sent(q)
<1>1. free \in Requests /\ ~ Sent(free)  BY Zenon DEF Launch
<1>2. flights' = [flights EXCEPT ![free] = Made(kind)]
  BY DEF Launch, Made
<1>3. flights = [q \in Requests |-> flights[q]]  BY DEF Flights
<1> HIDE DEF free
<1>4. flights' = [o \in Requests |-> IF o = free THEN Made(kind) ELSE flights[o]]
  BY <1>2, <1>3
<1>5. QED  BY <1>1, <1>4

\* What is launched has its place.
LEMMA LaunchedFlights ==
  ASSUME NEW kind \in {"create", "save", "apply"}, Flights, Launch(kind), Parses(form.env),
         kind # "create" => /\ UNCHANGED overlap
                            /\ \A o \in Requests : flights[o].kind \notin {"save", "apply"},
         kind = "create" /\ ~ overlap' => \A o \in Requests : flights[o].kind # "create"
  PROVE  Flights'
<1>1. PICK q \in Requests :
        /\ ~ Sent(q) /\ flights'[q] = Made(kind)
        /\ flights' = [o \in Requests |-> IF o = q THEN Made(kind) ELSE flights[o]]
  BY Launched
<1>2. /\ Made(kind) = [kind |-> Made(kind).kind, form |-> Made(kind).form,
                       token |-> Made(kind).token, reply |-> Made(kind).reply]
      /\ Made(kind).kind = kind /\ Made(kind).form = form
  BY DEF Made
<1>3. \A o \in Requests : flights'[o] = IF o = q THEN Made(kind) ELSE flights[o]
  BY <1>1
<1>4. flights' = [o \in Requests |-> flights'[o]]  BY <1>1
<1>5. \A o \in Requests :
        /\ flights'[o] = [kind |-> flights'[o].kind, form |-> flights'[o].form,
                          token |-> flights'[o].token, reply |-> flights'[o].reply]
        /\ flights'[o].kind \in {None, "create", "save", "apply"}
        /\ flights'[o].kind # None => Parses(flights'[o].form.env)
  <2> TAKE o \in Requests
  <2>1. CASE o = q   BY <1>2, <1>3, <2>1
  <2>2. CASE o # q   BY <1>3, <2>2 DEF Flights, Sent
  <2>3. QED  BY <2>1, <2>2
<1>6. CASE kind = "create"
  BY <1>2, <1>3, <1>4, <1>5, <1>6 DEF Flights, Sent
<1>7. CASE kind # "create"
  BY <1>2, <1>3, <1>4, <1>5, <1>7 DEF Flights, Sent
<1>8. QED  BY <1>6, <1>7

\* CreateRunnerDialog.vue:181 - a creation is sent as the form holds it, with its token
\* or a PAT; beside another it is remembered as such, and a form that is in flight
\* alone parses, so that only another ends its loading.
LEMMA CreateInFlight == InFlight /\ SubmitCreate => InFlight'
<1> SUFFICES ASSUME InFlight, SubmitCreate PROVE InFlight'
  OBVIOUS
<1>1. /\ UNCHANGED <<dialog, form, named, apply, token, pat, acting>> /\ token \in BOOLEAN
      /\ dialog = "create"
  BY DEF SubmitCreate, inputs, InFlight
<1>2. \A o \in Requests : flights[o].kind \in {None, "create"}
  <2> SUFFICES ASSUME NEW o \in Requests, flights[o].kind \in {"save", "apply"} PROVE FALSE
    BY DEF InFlight, Flights
  <2>1. Sent(o)  BY NoneAssumption DEF Sent
  <2>2. QED  BY <1>1, <2>1 DEF InFlight, SentAsHeld, DialogOf
<1>3. CASE UNCHANGED <<creating, flights, overlap>>
  BY <1>1, <1>3 DEF InFlight, Flights, SentAsHeld, Sent, Idle
<1>4. CASE creating' = FALSE /\ UNCHANGED <<flights, overlap>> /\ ~ Parses(form.env)
  <2>1. Flights'  BY <1>4 DEF InFlight, Flights, Sent
  <2>2. SentAsHeld'
    <3> SUFFICES ASSUME NEW q \in Requests, Sent(q)'
                 PROVE  flights'[q].kind = "create" /\ overlap'
      BY DEF SentAsHeld
    <3>1. Sent(q) /\ flights[q].kind = "create"  BY <1>2, <1>4 DEF Sent
    <3>2. Parses(flights[q].form.env)  BY <3>1 DEF InFlight, Flights
    <3>3. overlap  BY <1>4, <3>1, <3>2 DEF InFlight, SentAsHeld
    <3>4. QED  BY <1>4, <3>1, <3>3
  <2>3. QED  BY <1>1, <1>4, <2>1, <2>2 DEF InFlight
<1>5. CASE /\ named /\ (token \/ pat) /\ Parses(form.env)
           /\ Launch("create") /\ creating' = TRUE
           /\ IF \E q \in Requests : flights[q].kind = "create"
                THEN overlap' = TRUE ELSE UNCHANGED overlap
  <2>1. PICK q \in Requests :
          /\ ~ Sent(q) /\ flights'[q] = Made("create")
          /\ flights' = [o \in Requests |-> IF o = q THEN Made("create") ELSE flights[o]]
    BY <1>5, Launched DEF InFlight
  <2>2. overlap' \in BOOLEAN  BY <1>5 DEF InFlight
  <2>3. ~ overlap' => \A o \in Requests : flights[o].kind # "create"  BY <1>5
  <2>4. Flights'  BY <1>5, <2>3, LaunchedFlights DEF InFlight
  <2>5. /\ flights'[q].kind = "create" /\ flights'[q].form = form
        /\ flights'[q].token = token
    BY <1>1, <2>1, MadeHolds
  <2>6. SentAsHeld'
    <3> SUFFICES ASSUME NEW o \in Requests, Sent(o)', ~ (flights'[o].kind = "create" /\ overlap')
                 PROVE  o = q /\ ~ overlap'
      BY <1>1, <1>5, <2>5 DEF SentAsHeld, DialogOf, Idle
    <3>1. flights'[o].kind = "create"  BY <1>2, <2>1, <2>5 DEF Sent
    <3>2. QED  BY <2>1, <2>3, <3>1
  <2>7. QED  BY <1>1, <1>5, <2>2, <2>4, <2>6 DEF InFlight
<1>6. QED  BY <1>3, <1>4, <1>5 DEF SubmitCreate

\* EditRunnerDialog.vue:182 - an edit is sent as the form holds it, one at a time, and a
\* save only without the toggle.
LEMMA EditInFlight ==
  ASSUME InFlight, NEW force \in BOOLEAN, SubmitEdit(force)
  PROVE  InFlight'
<1>1. /\ UNCHANGED <<dialog, form, named, apply, token, pat, creating, overlap>>
      /\ token \in BOOLEAN /\ dialog = "edit" /\ acting = None /\ ~ creating
  BY DEF SubmitEdit, inputs, InFlight
<1>2. Quiet  BY <1>1, IdleIsQuiet DEF Idle
<1>3. CASE UNCHANGED <<acting, flights>>
  BY <1>1, <1>2, <1>3, KeepsQuiet DEF request
<1> DEFINE kind == IF force THEN "apply" ELSE "save"
<1>4. CASE (force \/ ~ apply) /\ Parses(form.env) /\ Launch(kind) /\ acting' = kind
  <2>1. kind \in {"save", "apply"} /\ (kind = "save" => ~ apply)  BY <1>4
  <2> HIDE DEF kind
  <2>2. PICK q \in Requests :
          /\ ~ Sent(q) /\ flights'[q] = Made(kind)
          /\ flights' = [o \in Requests |-> IF o = q THEN Made(kind) ELSE flights[o]]
    BY <1>4, Launched DEF InFlight
  <2>3. \A o \in Requests : flights[o].kind \notin {"save", "apply"}
    BY <1>2, NoneAssumption DEF Quiet, Sent
  <2>4. Flights'  BY <1>1, <1>4, <2>1, <2>3, LaunchedFlights DEF InFlight
  <2>5. /\ flights'[q].kind = kind /\ flights'[q].form = form
        /\ kind = "save" => ~ flights'[q].token
        /\ kind # "save" => flights'[q].token = token
    BY <1>1, <2>2, MadeHolds
  <2>6. ~ Idle' /\ dialog' = DialogOf(kind)
    BY <1>1, <1>4, <2>1, NoneAssumption DEF Idle, DialogOf
  <2>7. SentAsHeld'
    <3> SUFFICES ASSUME NEW o \in Requests, Sent(o)', ~ (flights'[o].kind = "create" /\ overlap')
                 PROVE  o = q
      BY <1>1, <1>4, <2>1, <2>5, <2>6 DEF SentAsHeld
    <3>1. QED  BY <1>1, <1>2, <2>2 DEF Quiet, Sent
  <2>8. QED  BY <1>1, <2>4, <2>7 DEF InFlight
<1>5. QED  BY <1>3, <1>4 DEF SubmitEdit

\* What the server does leaves the form alone.
LEMMA ServeInFlight ==
  ASSUME InFlight, NEW q \in Requests, NEW reply, Reply(q, reply),
         UNCHANGED <<dialog, inputs, pat, creating, acting, overlap>>
  PROVE  InFlight'
<1>1. \A o \in Requests : /\ flights'[o].kind = flights[o].kind
                          /\ flights'[o].form = flights[o].form
                          /\ flights'[o].token = flights[o].token
  BY DEF Reply, InFlight, Flights
<1>2. /\ flights' = [o \in Requests |-> flights'[o]]
      /\ \A o \in Requests :
           flights'[o] = [kind |-> flights'[o].kind, form |-> flights'[o].form,
                          token |-> flights'[o].token, reply |-> flights'[o].reply]
  BY DEF Reply, InFlight, Flights
<1>3. Flights'  BY <1>1, <1>2 DEF InFlight, Flights, Sent
<1>4. UNCHANGED <<form, named, apply, token>>  BY DEF inputs
<1>5. SentAsHeld'  BY <1>1, <1>4 DEF InFlight, SentAsHeld, Sent, Idle
<1>6. QED  BY <1>3, <1>4, <1>5 DEF InFlight

\* CreateRunnerDialog.vue:229, EditRunnerDialog.vue:217 - an answer ends its request; it
\* touches the form of another only when creations overlap.
LEMMA EndInFlight ==
  ASSUME InFlight, NEW q \in Requests, Sent(q), EndSubmit(q), UNCHANGED pat,
         token' \in BOOLEAN,
         dialog # DialogOf(flights[q].kind) => UNCHANGED <<dialog, inputs>>
  PROVE  InFlight'
<1>1. \A o \in Requests : flights'[o] = IF o = q THEN Landed ELSE flights[o]
  BY DEF EndSubmit, InFlight, Flights
<1>2. /\ Landed = [kind |-> Landed.kind, form |-> Landed.form,
                   token |-> Landed.token, reply |-> Landed.reply]
      /\ Landed.kind = None
  BY DEF Landed
<1>3. flights' = [o \in Requests |-> flights'[o]]
  BY DEF EndSubmit, InFlight, Flights
<1>4. \A o \in Requests :
        /\ flights'[o] = [kind |-> flights'[o].kind, form |-> flights'[o].form,
                          token |-> flights'[o].token, reply |-> flights'[o].reply]
        /\ flights'[o].kind \in {None, "create", "save", "apply"}
        /\ flights'[o].kind # None => Parses(flights'[o].form.env)
        /\ flights'[o].kind # None => o # q
  <2> TAKE o \in Requests
  <2>1. CASE o = q   BY <1>1, <1>2, <2>1
  <2>2. CASE o # q   BY <1>1, <2>2 DEF InFlight, Flights, Sent
  <2>3. QED  BY <2>1, <2>2
<1>5. CASE flights[q].kind = "create"
  <2>1. creating' = FALSE /\ UNCHANGED acting  BY <1>5 DEF EndSubmit
  <2>2. overlap' = (overlap /\ \E o \in Requests \ {q} : flights[o].kind = "create")
    BY <1>5 DEF EndSubmit
  <2>3. overlap' \in BOOLEAN  BY <2>2, Zenon
  <2>4. \A o \in Requests \ {q} : flights[o].kind = "create" => overlap
    BY <1>5 DEF InFlight, Flights
  <2>5. \A o \in Requests \ {q} : flights[o].kind = "create" => overlap'
    BY <2>2, <2>4, Zenon
  <2>6. \A o \in Requests : flights'[o].kind = "create" => overlap'
    BY <1>1, <1>4, <2>5, NoneAssumption
  <2>7. Flights'
    BY <1>1, <1>3, <1>4, <2>6, NoneAssumption DEF InFlight, Flights, Sent
  <2>8. SentAsHeld'
    <3> SUFFICES ASSUME NEW o \in Requests, Sent(o)', ~ (flights'[o].kind = "create" /\ overlap')
                 PROVE  /\ UNCHANGED <<dialog, inputs>> /\ flights'[o] = flights[o] /\ Sent(o)
                        /\ dialog = "edit" /\ flights[o].kind \in {"save", "apply"}
      BY <2>1 DEF SentAsHeld, InFlight, Idle, inputs
    <3>1. flights'[o] = flights[o] /\ Sent(o)  BY <1>1, <1>4 DEF Sent
    <3>2. flights[o].kind \in {"save", "apply"}
      BY <2>6, <3>1 DEF InFlight, Flights, Sent
    <3>3. dialog = "edit"  BY <3>1, <3>2 DEF InFlight, SentAsHeld, DialogOf
    <3>4. QED  BY <1>5, <3>1, <3>2, <3>3 DEF DialogOf
  <2>9. QED  BY <2>1, <2>3, <2>7, <2>8 DEF InFlight
<1>6. CASE flights[q].kind \in {"save", "apply"}
  <2>1. UNCHANGED <<creating, overlap>>  BY <1>6 DEF EndSubmit
  <2>2. dialog = "edit" /\ ~ creating
    BY <1>6 DEF InFlight, SentAsHeld, DialogOf
  <2>3. \A o \in Requests : flights'[o].kind # None =>
                              flights'[o] = flights[o] /\ flights[o].kind = "create" /\ overlap
    <3> SUFFICES ASSUME NEW o \in Requests, flights'[o].kind # None
                 PROVE  flights'[o] = flights[o] /\ flights[o].kind = "create" /\ overlap
      OBVIOUS
    <3>1. o # q /\ flights'[o] = flights[o] /\ Sent(o)  BY <1>1, <1>4 DEF Sent
    <3>2. flights[o].kind = "create"  BY <1>6, <3>1 DEF InFlight, Flights, Sent
    <3>3. overlap  BY <2>2, <3>1, <3>2 DEF InFlight, SentAsHeld, DialogOf
    <3>4. QED  BY <3>1, <3>2, <3>3
  <2>4. Flights'
    BY <1>3, <1>4, <2>1, <2>3, NoneAssumption DEF InFlight, Flights, Sent
  <2>5. SentAsHeld'  BY <2>1, <2>3 DEF SentAsHeld, Sent
  <2>6. QED  BY <2>1, <2>2, <2>4, <2>5 DEF InFlight
<1>7. QED  BY <1>5, <1>6 DEF Sent, InFlight, Flights

\* No step sends what the form does not hold, or changes it under a request.
LEMMA NextInFlight == InFlight /\ [Next]_vars => InFlight'
<1> SUFFICES ASSUME InFlight, [Next]_vars PROVE InFlight'
  OBVIOUS
<1> /\ token \in BOOLEAN /\ FALSE \in BOOLEAN /\ (~ token) \in BOOLEAN
    /\ creating => dialog = "create"
  BY DEF InFlight
<1>1. ASSUME Idle \/ dialog = None, UNCHANGED request, token' \in BOOLEAN,
             creating => dialog' = "create"
      PROVE  InFlight'
  BY <1>1, IdleIsQuiet, KeepsQuiet
<1>2. CASE OpenCreate
  BY <1>1, <1>2 DEF OpenCreate, Emptied
<1>3. CASE OpenEdit
  BY <1>1, <1>3, NoneAssumption DEF OpenEdit
<1>4. CASE Close
  <2>1. Idle /\ ~ creating  BY <1>4 DEF Close, Idle
  <2>2. QED  BY <1>1, <1>4, <2>1 DEF Close, Shut, Emptied
<1>5. CASE TypeName
  BY <1>1, <1>5 DEF TypeName
<1>6. CASE TypeToken
  BY <1>1, <1>6 DEF TypeToken
<1>7. CASE ToggleApply
  BY <1>1, <1>7 DEF ToggleApply
<1>8. ASSUME NEW f \in DOMAIN Entries, Type(f)
      PROVE  InFlight'
  BY <1>1, <1>8 DEF Type
<1>9. CASE SubmitCreate
  BY <1>9, CreateInFlight
<1>10. ASSUME NEW force \in BOOLEAN, SubmitEdit(force)
       PROVE  InFlight'
  BY <1>10, EditInFlight
<1>11. ASSUME NEW q \in Requests, Serve(q) \/ ServeFails(q)
       PROVE  InFlight'
  <2>1. UNCHANGED <<dialog, inputs, pat, creating, acting, overlap>>
    BY <1>11 DEF Serve, ServeFails
  <2>2. Reply(q, "done") \/ Reply(q, "failed")  BY <1>11 DEF Serve, ServeFails
  <2>3. QED  BY <2>1, <2>2, ServeInFlight
<1>12. ASSUME NEW q \in Requests, Answer(q)
       PROVE  InFlight'
  <2>1. token' \in BOOLEAN  BY <1>12 DEF Answer, ShutOf, Shut, Emptied, inputs
  <2>2. QED  BY <1>12, <2>1, EndInFlight DEF Answer, ShutOf, Replied
<1>13. ASSUME NEW q \in Requests, AnswerFails(q)
       PROVE  InFlight'
  <2>1. token' \in BOOLEAN  BY <1>13 DEF AnswerFails, inputs
  <2>2. QED  BY <1>13, <2>1, EndInFlight DEF AnswerFails, Replied
<1>14. CASE Elsewhere \/ Poll \/ UNCHANGED vars
  <2>1. UNCHANGED <<dialog, form, named, apply, token, pat, creating, acting, flights, overlap>>
    BY <1>14 DEF Elsewhere, Poll, vars, inputs, request
  <2>2. QED  BY <2>1 DEF InFlight, Flights, SentAsHeld, Sent, Idle
<1>15. QED
  BY <1>2, <1>3, <1>4, <1>5, <1>6, <1>7, <1>8, <1>9, <1>10, <1>11, <1>12, <1>13, <1>14
  DEF Next, User, Server

--------------------------------------------------------------------------------
(* What is stored, shown and typed.                                          *)

\* runnerConfig.js:80, persistence.go:118 - no step makes a record or a form of
\* another kind: what is stored was sent by a form and accepted, or is another
\* client's record.
LEMMA NextConfigsKnown ==
  ASSUME InFlight, ConfigsKnown, [Next]_vars
  PROVE  ConfigsKnown'
<1> DEFINE Forms == \A q \in Requests : TypedForm(flights'[q].form)
<1>1. UNCHANGED flights => Forms
  BY DEF ConfigsKnown
<1>2. ASSUME NEW kind, Launch(kind)
      PROVE  Forms
  <2>1. PICK q \in Requests :
          flights' = [o \in Requests |-> IF o = q THEN Made(kind) ELSE flights[o]]
    BY <1>2, Launched DEF InFlight
  <2>2. Made(kind).form = form  BY DEF Made
  <2> SUFFICES ASSUME NEW o \in Requests PROVE TypedForm(flights'[o].form)
    OBVIOUS
  <2>3. flights'[o] = Made(kind) \/ flights'[o] = flights[o]  BY <2>1
  <2>4. flights'[o].form = form \/ flights'[o].form = flights[o].form  BY <2>2, <2>3
  <2>5. QED  BY <2>4 DEF ConfigsKnown
<1>3. ASSUME NEW q \in Requests, NEW reply, Reply(q, reply)
      PROVE  Forms
  <2>1. \A o \in Requests : flights'[o].form = flights[o].form
    BY <1>3 DEF Reply, InFlight, Flights
  <2>2. QED  BY <2>1 DEF ConfigsKnown
<1>4. ASSUME NEW q \in Requests, EndSubmit(q)
      PROVE  Forms
  <2>1. Landed.form = NewForm  BY DEF Landed
  <2>2. \A o \in Requests : flights'[o] = Landed \/ flights'[o] = flights[o]
    BY <1>4 DEF EndSubmit, InFlight, Flights
  <2> SUFFICES ASSUME NEW o \in Requests PROVE TypedForm(flights'[o].form)
    OBVIOUS
  <2>3. flights'[o].form = NewForm \/ flights'[o].form = flights[o].form  BY <2>1, <2>2
  <2>4. QED  BY <2>3, NewTyped DEF ConfigsKnown
<1>5. CASE UNCHANGED <<stored, row, dialog, loaded>> /\ TypedForm(form') /\ Forms
  BY <1>5 DEF ConfigsKnown
<1>6. CASE UNCHANGED <<stored, row, dialog, loaded, form>> /\ Forms
  BY <1>6 DEF ConfigsKnown
<1>7. CASE UNCHANGED stored /\ row' \in {row, stored} /\ dialog' # "edit" /\ form' = NewForm /\ Forms
  BY <1>7, NewTyped DEF ConfigsKnown
<1> HIDE DEF Forms
<1>8. CASE OpenCreate
  BY <1>1, <1>7, <1>8 DEF OpenCreate, Emptied, request
<1>9. CASE OpenEdit
  <2>1. AsStored(row)  BY <1>9 DEF OpenEdit, ConfigsKnown
  <2>2. form' = FormOf(row) /\ loaded' = row /\ UNCHANGED <<stored, row>> /\ Forms
    BY <1>1, <1>9 DEF OpenEdit, request
  <2>3. TypedForm(form')  BY <2>1, <2>2, LoadedTyped
  <2>4. QED  BY <2>1, <2>2, <2>3 DEF ConfigsKnown, Forms
<1>10. CASE Close
  BY <1>1, <1>7, <1>10, NoneAssumption DEF Close, Shut, Emptied, request
<1>11. CASE TypeName \/ TypeToken \/ ToggleApply
  BY <1>1, <1>6, <1>11 DEF TypeName, TypeToken, ToggleApply, request
<1>12. ASSUME NEW f \in DOMAIN Entries, Type(f)
       PROVE  ConfigsKnown'
  <2>1. PICK v \in Entries[f] : form' = [form EXCEPT ![f] = v]
    BY <1>12 DEF Type
  <2>2. TypedForm(form')  BY <2>1, EntryTyped DEF ConfigsKnown
  <2>3. QED  BY <1>1, <1>5, <1>12, <2>2 DEF Type, request
<1>13. CASE SubmitCreate
  BY <1>1, <1>2, <1>6, <1>13 DEF SubmitCreate, inputs
<1>14. ASSUME NEW force \in BOOLEAN, SubmitEdit(force)
       PROVE  ConfigsKnown'
  BY <1>1, <1>2, <1>6, <1>14 DEF SubmitEdit, inputs
<1>15. ASSUME NEW q \in Requests, Serve(q) \/ ServeFails(q)
       PROVE  ConfigsKnown'
  <2>1. UNCHANGED <<row, dialog, loaded, form>>  BY <1>15 DEF Serve, ServeFails, inputs
  <2>2. stored' = stored \/ (Accepts(Payload(q)) /\ stored' = Stored(Payload(q)))
    BY <1>15 DEF Serve, ServeFails
  <2>3. Accepts(Payload(q)) => AsStored(Stored(Payload(q)))
    BY StoresKnown DEF ConfigsKnown, Payload
  <2>4. Forms  BY <1>3, <1>15 DEF Serve, ServeFails
  <2>5. QED  BY <2>1, <2>2, <2>3, <2>4 DEF ConfigsKnown, Forms
<1>16. ASSUME NEW q \in Requests, Answer(q)
       PROVE  ConfigsKnown'
  <2>1. Forms /\ UNCHANGED stored /\ row' = stored  BY <1>4, <1>16 DEF Answer
  <2>2. CASE Shut
    BY <1>7, <2>1, <2>2, NoneAssumption DEF Shut, Emptied
  <2>3. CASE UNCHANGED <<dialog, loaded, form>>
    BY <2>1, <2>3 DEF ConfigsKnown, Forms
  <2>4. QED  BY <1>16, <2>2, <2>3 DEF Answer, ShutOf, inputs
<1>17. ASSUME NEW q \in Requests, AnswerFails(q)
       PROVE  ConfigsKnown'
  <2>1. row' \in {row, stored} /\ UNCHANGED <<stored, dialog, loaded, form>> /\ Forms
    BY <1>4, <1>17 DEF AnswerFails, inputs
  <2>2. QED  BY <2>1 DEF ConfigsKnown, Forms
<1>18. CASE Elsewhere
  <2>1. stored' \in Records \cup {None} /\ UNCHANGED <<row, dialog, loaded, form>> /\ Forms
    BY <1>1, <1>18 DEF Elsewhere, inputs, request
  <2>2. QED  BY <2>1, RecordsAssumption DEF ConfigsKnown, Forms
<1>19. CASE Poll
  <2>1. row' = stored /\ UNCHANGED <<stored, dialog, loaded, form>> /\ Forms
    BY <1>1, <1>19 DEF Poll, inputs, request
  <2>2. QED  BY <2>1 DEF ConfigsKnown, Forms
<1>20. CASE UNCHANGED vars
  BY <1>1, <1>6, <1>20 DEF vars, inputs, request
<1>21. QED
  BY <1>8, <1>9, <1>10, <1>11, <1>12, <1>13, <1>14, <1>15, <1>16, <1>17, <1>18, <1>19, <1>20
  DEF Next, User, Server

--------------------------------------------------------------------------------
(* Theorems.                                                                 *)

\* The form, its requests and the records stay as the rest needs them.
THEOREM FormsInvariant == Spec => []FormInv
<1>1. Init => FormInv
  <2> SUFFICES ASSUME Init PROVE FormInv
    OBVIOUS
  <2>1. \A q \in Requests : flights[q] = Landed  BY DEF Init
  <2>2. /\ Landed = [kind |-> Landed.kind, form |-> Landed.form,
                     token |-> Landed.token, reply |-> Landed.reply]
        /\ Landed.kind = None /\ Landed.form = NewForm
    BY DEF Landed
  <2>3. Flights  BY <2>1, <2>2, NoneAssumption DEF Init, Flights, Sent
  <2>4. InFlight  BY <2>1, <2>2, <2>3 DEF Init, InFlight, SentAsHeld, Sent
  <2>5. \A q \in Requests : TypedForm(flights[q].form)  BY <2>1, <2>2, NewTyped
  <2>6. ConfigsKnown
    BY <2>5, RecordsAssumption, NoneAssumption, NewTyped DEF Init, ConfigsKnown
  <2>7. QED  BY <2>4, <2>6 DEF FormInv
<1>2. FormInv /\ [Next]_vars => FormInv'
  BY NextInFlight, NextConfigsKnown DEF FormInv
<1>3. QED  BY <1>1, <1>2, PTL DEF Spec

\* EditRunnerDialog.vue:184, CreateRunnerDialog.vue:40 - for all forms and records: an
\* edit in flight is what its form still holds, and so is a creation while no other is
\* in flight with it; a save without apply carries no token.
THEOREM HeldIsSent == Spec => []SentAsHeld
<1>1. FormInv => SentAsHeld  BY DEF FormInv, InFlight
<1>2. QED  BY <1>1, FormsInvariant, PTL

\* runnerConfig.js:46 - for all forms, with paths and environments of any length: the
\* server stores what was typed, or refuses it for what was typed.
THEOREM SavesWhatIsTyped == Spec => []SavedAsTyped
<1>1. FormInv => SavedAsTyped
  BY SavesAsTyped DEF FormInv, ConfigsKnown, SavedAsTyped
<1>2. QED  BY <1>1, FormsInvariant, PTL

\* runnerConfig.js:78 - for all records, with paths and environments of any size: an
\* edit in which nothing is changed saves what it was loaded with, trimmed.
THEOREM EditsKeep == Spec => []UntouchedSaveKeeps
<1>1. FormInv => UntouchedSaveKeeps
  <2> SUFFICES ASSUME FormInv, dialog = "edit", form = FormOf(loaded)
               PROVE  /\ Parses(form.env) /\ Accepts(buildRuntimePayload(form))
                      /\ Stored(buildRuntimePayload(form)) =
                           [loaded EXCEPT !.env =
                              [k \in Keys |-> IF @[k] = Unset THEN Unset ELSE Trimmed[@[k]]]]
    BY DEF UntouchedSaveKeeps
  <2>1. AsStored(loaded)  BY DEF FormInv, ConfigsKnown
  <2>2. [loaded EXCEPT !.env = [k \in Keys |-> IF @[k] = Unset THEN Unset ELSE Trimmed[@[k]]]]
          = [loaded EXCEPT !.env = TrimmedEnv(loaded.env)]
    BY DEF TrimmedEnv
  <2>3. QED  BY <2>1, <2>2, ThereAndBack
<1>2. QED  BY <1>1, FormsInvariant, PTL

\* runnerConfig.js:108 - for all forms and records: the form warns of a volume
\* exactly when the server will, and of the same path.
THEOREM WarningsAgree == Spec => []WarnsAlike
<1>1. FormInv => WarnsAlike
  BY SameWarning DEF FormInv, ConfigsKnown, WarnsAlike
<1>2. QED  BY <1>1, FormsInvariant, PTL

\* CreateRunnerDialog.vue:226 - for all forms and records: an answer closes the form
\* that waits for it only when the server has done what was asked, and else leaves it
\* as it is, with an error; of creations, while they do not overlap.
THEOREM FormClosesOnlyWhenDone == Spec => ClosesOnlyWhenDone
<1> DEFINE Closes == \A q \in Requests :
                       /\ Sent(q) /\ ~ Sent(q)'
                       /\ flights[q].kind = "create" => ~ overlap
                       => \/ dialog' = None /\ flights[q].reply = "done"
                          \/ dialog' = dialog /\ UNCHANGED inputs /\ error'
<1>1. InFlight /\ [Next]_vars => [Closes]_vars
  <2> SUFFICES ASSUME InFlight, Next, NEW q \in Requests, Sent(q), ~ Sent(q)',
                      flights[q].kind = "create" => ~ overlap
               PROVE  \/ dialog' = None /\ flights[q].reply = "done"
                      \/ dialog' = dialog /\ UNCHANGED inputs /\ error'
    BY DEF Closes
  <2>1. dialog = DialogOf(flights[q].kind)
    BY DEF InFlight, Flights, SentAsHeld, Sent
  <2>2. Answer(q) => dialog' = None /\ flights[q].reply = "done"
    BY <2>1 DEF Answer, Replied, ShutOf, Shut
  <2>3. AnswerFails(q) => dialog' = dialog /\ UNCHANGED inputs /\ error'
    BY <2>1 DEF AnswerFails, ErrorOf
  <2>4. ~ UNCHANGED flights  BY DEF Sent
  <2>5. ASSUME NEW o \in Requests, Serve(o) \/ ServeFails(o)
        PROVE  FALSE
    <3>1. PICK reply : Reply(o, reply)  BY <2>5 DEF Serve, ServeFails
    <3>2. flights'[q].kind = flights[q].kind  BY <3>1 DEF Reply, InFlight, Flights
    <3>3. QED  BY <3>2 DEF Sent
  <2>6. ASSUME NEW o \in Requests, o # q, Answer(o) \/ AnswerFails(o)
        PROVE  FALSE
    <3>1. flights'[q] = flights[q]
      BY <2>6 DEF Answer, AnswerFails, EndSubmit, InFlight, Flights
    <3>2. QED  BY <3>1 DEF Sent
  <2>7. ASSUME NEW kind \in {"create", "save", "apply"}, Launch(kind)
        PROVE  FALSE
    <3>1. PICK o \in Requests :
            ~ Sent(o) /\ flights' = [r \in Requests |-> IF r = o THEN Made(kind) ELSE flights[r]]
      BY <2>7, Launched DEF InFlight
    <3>2. flights'[q] = flights[q]  BY <3>1
    <3>3. QED  BY <3>2 DEF Sent
  <2>8. ~ SubmitCreate  BY <2>4, <2>7 DEF SubmitCreate
  <2>9. ~ \E force \in BOOLEAN : SubmitEdit(force)  BY <2>4, <2>7 DEF SubmitEdit
  <2>10. ~ (OpenCreate \/ OpenEdit \/ Close \/ TypeName \/ TypeToken \/ ToggleApply)
    BY <2>4 DEF OpenCreate, OpenEdit, Close, TypeName, TypeToken, ToggleApply, request
  <2>11. ~ \E f \in DOMAIN Entries : Type(f)  BY <2>4 DEF Type, request
  <2>12. ~ (Elsewhere \/ Poll)  BY <2>4 DEF Elsewhere, Poll, request
  <2>13. QED
    BY <2>2, <2>3, <2>5, <2>6, <2>8, <2>9, <2>10, <2>11, <2>12 DEF Next, User, Server
<1> HIDE DEF Closes
<1>2. FormInv => InFlight  BY DEF FormInv
<1>3. QED  BY <1>1, <1>2, FormsInvariant, PTL DEF Spec, ClosesOnlyWhenDone, Closes

===============================================================================
