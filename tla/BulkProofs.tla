------------------------------ MODULE BulkProofs ------------------------------
(***************************************************************************)
(* Theorems about BulkMessages and GroupDirectory, for every number of     *)
(* groups, aliases, sets, editors, callers and targets: how a list of      *)
(* targets is resolved, that every target is accounted for and no group    *)
(* is sent to twice, and that a set is changed whole and sent to as it is. *)
(***************************************************************************)
EXTENDS BulkMessages, FiniteSetTheorems, WellFoundedInduction, TLAPS

-----------------------------------------------------------------------------
(* Induction over what a loop has done.                                    *)

(* A set that holds 0 and with each number the next one holds n.  The      *)
(* least 0 .. k whose end is missing, of the subsets of 0 .. n, would have *)
(* the predecessor of k missing too.                                       *)
LEMMA Induction ==
  ASSUME NEW S, NEW n \in Nat, 0 \in S, \A i \in 0 .. n - 1 : i \in S => i + 1 \in S
  PROVE  n \in S
<1> SUFFICES ASSUME n \notin S PROVE FALSE
  OBVIOUS
<1> DEFINE U == 0 .. n
           T == {X \in SUBSET U : \E k \in U : k \notin S /\ X = 0 .. k}
<1>1. IsWellFoundedOn(StrictSubsetOrdering(U), FiniteSubsetsOf(U))
  BY FS_StrictSubsetOrderingWellFounded
<1>2. T \subseteq FiniteSubsetsOf(U)
  BY FS_Interval, FS_FiniteSubsetsOfFinite
<1>3. U \in T
  OBVIOUS
<1> HIDE DEF T
<1>4. PICK X \in T : \A Y \in T : <<Y, X>> \notin StrictSubsetOrdering(U)
  BY <1>1, <1>2, <1>3, WFMin
<1>5. PICK k \in U : k \notin S /\ X = 0 .. k
  BY DEF T
<1>6. k - 1 \in 0 .. n - 1 /\ k - 1 \notin S
  BY <1>5
<1>7. 0 .. k - 1 \in T
  BY <1>6 DEF T
<1>8. <<0 .. k - 1, X>> \in StrictSubsetOrdering(U)
  <2>1. 0 .. k - 1 \subseteq X /\ X \subseteq U /\ k \in X /\ k \notin 0 .. k - 1
    BY <1>5, <1>6
  <2> QED BY <2>1 DEF StrictSubsetOrdering
<1> QED BY <1>4, <1>7, <1>8

-----------------------------------------------------------------------------
(* Resolution.                                                             *)

(* What the loop of resolveTargets has found, prefix by prefix.            *)
IsResolution(f, inputs, n) ==
  f = [i \in 0 .. n |-> IF i = 0 THEN Nothing ELSE Take(f[i - 1], inputs[i])]

Resolution(inputs) == CHOOSE f : IsResolution(f, inputs, Len(inputs))

(* A loop over n inputs has found something, and one more input extends it. *)
LEMMA ResolutionExists ==
  ASSUME NEW inputs, Len(inputs) \in Nat
  PROVE  IsResolution(Resolution(inputs), inputs, Len(inputs))
<1> DEFINE S == {n \in Nat : \E f : IsResolution(f, inputs, n)}
<1>1. 0 \in S
  <2> DEFINE f == [i \in 0 .. 0 |-> Nothing]
  <2>1. IsResolution(f, inputs, 0)
    BY DEF IsResolution
  <2> QED BY <2>1
<1>2. ASSUME NEW n \in Nat, n \in S PROVE n + 1 \in S
  <2>1. PICK f : IsResolution(f, inputs, n)
    BY <1>2
  <2> DEFINE g == [i \in 0 .. n + 1 |-> IF i = n + 1 THEN Take(f[n], inputs[n + 1]) ELSE f[i]]
  <2>2. \A i \in 0 .. n : g[i] = f[i]
    OBVIOUS
  <2>3. \A i \in 0 .. n : f[i] = IF i = 0 THEN Nothing ELSE Take(f[i - 1], inputs[i])
    BY <2>1 DEF IsResolution
  <2>4. \A i \in 0 .. n + 1 : g[i] = IF i = 0 THEN Nothing ELSE Take(g[i - 1], inputs[i])
    <3> SUFFICES ASSUME NEW i \in 0 .. n + 1
                 PROVE  g[i] = IF i = 0 THEN Nothing ELSE Take(g[i - 1], inputs[i])
      OBVIOUS
    <3>1. CASE i = n + 1
      BY <3>1, <2>2
    <3>2. CASE i \in 0 .. n
      <4>1. g[i] = f[i] /\ (i # 0 => g[i - 1] = f[i - 1])
        BY <3>2, <2>2
      <4> HIDE DEF g
      <4> QED BY <3>2, <4>1, <2>3
    <3> QED BY <3>1, <3>2
  <2>5. IsResolution(g, inputs, n + 1)
    <3> g = [i \in 0 .. n + 1 |-> g[i]]
      OBVIOUS
    <3> HIDE DEF g
    <3> QED BY <2>4 DEF IsResolution
  <2> QED BY <2>5
<1> HIDE DEF S
<1>3. Len(inputs) \in S
  BY <1>1, <1>2, Induction
<1> QED BY <1>3 DEF S, Resolution

LEMMA Resolves ==
  ASSUME NEW inputs, Len(inputs) \in Nat
  PROVE  LET f == Resolution(inputs) IN
         /\ ResolveTargets(inputs) = f[Len(inputs)]
         /\ f[0] = Nothing
         /\ \A i \in 1 .. Len(inputs) : f[i] = Take(f[i - 1], inputs[i])
<1>1. IsResolution(Resolution(inputs), inputs, Len(inputs))
  BY ResolutionExists
<1>2. ResolveTargets(inputs) = Resolution(inputs)[Len(inputs)]
  BY DEF ResolveTargets, Resolution, IsResolution
<1> HIDE DEF Resolution
<1> QED BY <1>1, <1>2 DEF IsResolution

(* The inputs that can be sent to, among the first n, and those of them    *)
(* that mention their group first.                                         *)
Good(inputs, n) == {i \in 1 .. n : Eligible(inputs[i])}
First(inputs, n) ==
  {i \in Good(inputs, n) :
     \A j \in Good(inputs, n) : j < i => Lookup(inputs[j]) # Lookup(inputs[i])}
UpTo(inputs, n, i) == {j \in First(inputs, n) : j <= i}

Tallied(found, inputs, n) ==
  /\ found \in [destinations : Seq(allowed), issues : Nat, duplicates : Nat]
  /\ Len(found.destinations) = Cardinality(First(inputs, n))
  /\ found.issues = n - Cardinality(Good(inputs, n))
  /\ found.duplicates = Cardinality(Good(inputs, n)) - Cardinality(First(inputs, n))

(* What found holds after n inputs: the first mentions in their order, and *)
(* how many were left out.                                                 *)
Reflects(found, inputs, n) ==
  /\ Tallied(found, inputs, n)
  /\ \A i \in First(inputs, n) :
       found.destinations[Cardinality(UpTo(inputs, n, i))] = Lookup(inputs[i])
  /\ ToSet(found.destinations) = {Lookup(inputs[i]) : i \in Good(inputs, n)}
  /\ IsInjective(found.destinations)

LEMMA FiniteParts ==
  ASSUME NEW inputs, NEW n \in Nat
  PROVE  /\ IsFiniteSet(Good(inputs, n)) /\ Cardinality(Good(inputs, n)) \in Nat
         /\ IsFiniteSet(First(inputs, n)) /\ Cardinality(First(inputs, n)) \in Nat
         /\ Cardinality(First(inputs, n)) <= Cardinality(Good(inputs, n))
         /\ Cardinality(Good(inputs, n)) <= n
<1>1. IsFiniteSet(1 .. n) /\ Cardinality(1 .. n) = n
  BY FS_Interval
<1>2. Good(inputs, n) \in SUBSET (1 .. n) /\ First(inputs, n) \in SUBSET Good(inputs, n)
  BY DEF Good, First
<1> QED BY <1>1, <1>2, FS_Subset, FS_CardinalityType

(* Where a first mention is found: within the list.                        *)
LEMMA Positions ==
  ASSUME NEW inputs, NEW n \in Nat, NEW i \in First(inputs, n)
  PROVE  Cardinality(UpTo(inputs, n, i)) \in 1 .. Cardinality(First(inputs, n))
<1>1. UpTo(inputs, n, i) \in SUBSET First(inputs, n) /\ i \in UpTo(inputs, n, i)
  BY DEF UpTo, First, Good
<1> QED BY <1>1, FiniteParts, FS_Subset, FS_CardinalityType, FS_EmptySet

LEMMA AppendOne ==
  ASSUME NEW S, NEW s \in Seq(S), NEW x \in S
  PROVE  /\ Append(s, x) \in Seq(S) /\ Len(Append(s, x)) = Len(s) + 1
         /\ \A i \in 1 .. Len(s) : Append(s, x)[i] = s[i]
         /\ Append(s, x)[Len(s) + 1] = x
         /\ ToSet(Append(s, x)) = ToSet(s) \cup {x}
         /\ IsInjective(s) /\ x \notin ToSet(s) => IsInjective(Append(s, x))
<1>1. /\ Append(s, x) \in Seq(S) /\ Len(Append(s, x)) = Len(s) + 1
      /\ \A i \in 1 .. Len(s) : Append(s, x)[i] = s[i]
      /\ Append(s, x)[Len(s) + 1] = x
  OBVIOUS
<1>2. DOMAIN s = 1 .. Len(s) /\ DOMAIN Append(s, x) = 1 .. Len(s) + 1 /\ Len(s) \in Nat
  BY <1>1
<1> DEFINE t == Append(s, x)
<1> HIDE DEF t
<1>3. \A i \in 1 .. Len(s) + 1 : i \in 1 .. Len(s) \/ i = Len(s) + 1
  BY <1>2
<1>4. ToSet(t) = ToSet(s) \cup {x}
  BY <1>1, <1>2, <1>3 DEF ToSet, t
<1>5. ASSUME IsInjective(s), x \notin ToSet(s) PROVE IsInjective(t)
  BY <1>1, <1>2, <1>3, <1>5 DEF IsInjective, ToSet, t
<1> QED BY <1>1, <1>4, <1>5 DEF t

(* One more input: it cannot be sent to, is a duplicate, or is new.        *)
LEMMA OneMore ==
  ASSUME NEW inputs, NEW n \in Nat, NEW found, Reflects(found, inputs, n)
  PROVE  Reflects(Take(found, inputs[n + 1]), inputs, n + 1)
<1> DEFINE x == Lookup(inputs[n + 1])
           now == Take(found, inputs[n + 1])
           G == Good(inputs, n)
           F == First(inputs, n)
<1>1. G \subseteq 1 .. n /\ F \subseteq G
  BY DEF Good, First
<1>2. /\ IsFiniteSet(G) /\ IsFiniteSet(F) /\ n + 1 \notin G /\ n + 1 \notin F
       /\ Cardinality(G) \in Nat /\ Cardinality(F) \in Nat /\ Cardinality(G) <= n
       /\ Cardinality(F) <= Cardinality(G)
  BY <1>1, FiniteParts
<1>3. /\ found \in [destinations : Seq(allowed), issues : Nat, duplicates : Nat]
        /\ Len(found.destinations) = Cardinality(F)
        /\ found.issues = n - Cardinality(G)
        /\ found.duplicates = Cardinality(G) - Cardinality(F)
  BY DEF Reflects, Tallied
<1>4. CASE x \notin allowed
  <2>1. Good(inputs, n + 1) = G
    BY <1>4 DEF Good, Eligible
  <2>2. First(inputs, n + 1) = F
    BY <2>1 DEF First
  <2>3. now = [found EXCEPT !.issues = @ + 1]
    BY <1>4 DEF Take, Eligible
  <2>4. Tallied(now, inputs, n + 1)
    BY <2>1, <2>2, <2>3, FiniteParts DEF Reflects, Tallied
  <2>5. now.destinations = found.destinations
    BY <2>3 DEF Reflects, Tallied
  <2>6. \A i \in F : UpTo(inputs, n + 1, i) = UpTo(inputs, n, i)
    BY <2>2 DEF UpTo
  <2> HIDE DEF now
  <2>7. Reflects(now, inputs, n + 1)
    BY <2>1, <2>2, <2>4, <2>5, <2>6 DEF Reflects
  <2> QED BY <2>7 DEF now
<1>5. CASE x \in allowed /\ x \in ToSet(found.destinations)
  <2>1. Good(inputs, n + 1) = G \cup {n + 1}
    BY <1>5 DEF Good, Eligible
  <2>2. First(inputs, n + 1) = F
    <3>1. PICK j \in G : Lookup(inputs[j]) = x
      BY <1>5 DEF Reflects
    <3>2. j \in 1 .. n
      BY <1>1
    <3> QED BY <2>1, <3>1, <3>2, <1>1 DEF First
  <2>3. now = [found EXCEPT !.duplicates = @ + 1]
    BY <1>5 DEF Take, Eligible
  <2>4. Cardinality(G \cup {n + 1}) = Cardinality(G) + 1
    BY <1>2, FS_AddElement
  <2>5. /\ Cardinality(Good(inputs, n + 1)) = Cardinality(G) + 1
         /\ Cardinality(First(inputs, n + 1)) = Cardinality(F)
    BY <2>1, <2>2, <2>4
  <2>6. Tallied(now, inputs, n + 1)
    <3> HIDE DEF G, F
    <3>1. /\ now \in [destinations : Seq(allowed), issues : Nat, duplicates : Nat]
          /\ now.destinations = found.destinations /\ now.issues = found.issues
          /\ now.duplicates = found.duplicates + 1
      BY <2>3, <1>3
    <3> HIDE DEF now
    <3>2. Len(now.destinations) = Cardinality(First(inputs, n + 1))
      BY <2>2, <3>1, <1>3
    <3>3. now.issues = (n + 1) - Cardinality(Good(inputs, n + 1))
      BY <2>4, <3>1, <1>2, <1>3, <2>5
    <3>4. now.duplicates = Cardinality(Good(inputs, n + 1)) - Cardinality(First(inputs, n + 1))
      BY <2>4, <3>1, <1>2, <1>3, <2>5
    <3> QED BY <3>1, <3>2, <3>3, <3>4 DEF Tallied
  <2>7. now.destinations = found.destinations
    BY <2>3 DEF Reflects, Tallied
  <2>8. \A i \in F : UpTo(inputs, n + 1, i) = UpTo(inputs, n, i)
    BY <2>2 DEF UpTo
  <2>9. {Lookup(inputs[i]) : i \in G \cup {n + 1}} = {Lookup(inputs[i]) : i \in G}
    BY <1>5 DEF Reflects
  <2> HIDE DEF now
  <2>10. Reflects(now, inputs, n + 1)
    BY <2>1, <2>2, <2>6, <2>7, <2>8, <2>9 DEF Reflects
  <2> QED BY <2>10 DEF now
<1>6. CASE x \in allowed /\ x \notin ToSet(found.destinations)
  <2>1. Good(inputs, n + 1) = G \cup {n + 1}
    BY <1>6 DEF Good, Eligible
  <2>2. First(inputs, n + 1) = F \cup {n + 1}
    <3>1. \A j \in G : Lookup(inputs[j]) # x /\ j < n + 1
      BY <1>6, <1>1 DEF Reflects
    <3> QED BY <2>1, <3>1, <1>1 DEF First
  <2>3. now = [found EXCEPT !.destinations = Append(@, x)]
    BY <1>6 DEF Take, Eligible
  <2>4. /\ Cardinality(G \cup {n + 1}) = Cardinality(G) + 1
        /\ Cardinality(F \cup {n + 1}) = Cardinality(F) + 1
    BY <1>2, FS_AddElement
  <2>5. found.destinations \in Seq(allowed) /\ now.destinations = Append(found.destinations, x)
    BY <2>3 DEF Reflects, Tallied
  <2>6. /\ Cardinality(Good(inputs, n + 1)) = Cardinality(G) + 1
         /\ Cardinality(First(inputs, n + 1)) = Cardinality(F) + 1
    BY <2>1, <2>2, <2>4
  <2>7. Tallied(now, inputs, n + 1)
    <3> HIDE DEF G, F, x
    <3>1. Append(found.destinations, x) \in Seq(allowed)
      BY <1>6, <2>5, AppendOne
    <3>2. Len(Append(found.destinations, x)) = Len(found.destinations) + 1
      BY <1>6, <2>5, AppendOne
    <3>3. /\ now \in [destinations : Seq(allowed), issues : Nat, duplicates : Nat]
          /\ Len(now.destinations) = Len(found.destinations) + 1 /\ now.issues = found.issues
          /\ now.duplicates = found.duplicates
      BY <2>3, <2>5, <3>1, <3>2, <1>3
    <3> HIDE DEF now
    <3>4. Len(now.destinations) = Cardinality(First(inputs, n + 1))
      BY <2>2, <2>4, <3>3, <1>3
    <3>5. now.issues = (n + 1) - Cardinality(Good(inputs, n + 1))
      BY <2>4, <3>3, <1>2, <1>3, <2>6
    <3>6. now.duplicates = Cardinality(Good(inputs, n + 1)) - Cardinality(First(inputs, n + 1))
      BY <2>4, <3>3, <1>2, <1>3, <2>6
    <3> QED BY <3>3, <3>4, <3>5, <3>6 DEF Tallied
  <2>8. \A i \in F : UpTo(inputs, n + 1, i) = UpTo(inputs, n, i)
    BY <1>1, <2>2 DEF UpTo
  <2>9. UpTo(inputs, n + 1, n + 1) = F \cup {n + 1}
    BY <1>1, <2>2 DEF UpTo
  <2>10. {Lookup(inputs[i]) : i \in G \cup {n + 1}} = {Lookup(inputs[i]) : i \in G} \cup {x}
    OBVIOUS
  <2>11. /\ ToSet(now.destinations) = ToSet(found.destinations) \cup {x}
         /\ IsInjective(now.destinations)
    BY <1>6, <2>5, AppendOne DEF Reflects
  <2> HIDE DEF now
  <2>12. ASSUME NEW i \in F \cup {n + 1}
         PROVE  now.destinations[Cardinality(UpTo(inputs, n + 1, i))] = Lookup(inputs[i])
    <3>1. CASE i \in F
      <4>1. Cardinality(UpTo(inputs, n, i)) \in 1 .. Len(found.destinations)
        BY <3>1, Positions DEF Reflects, Tallied
      <4> QED BY <1>6, <2>5, <2>8, <3>1, <4>1, AppendOne DEF Reflects
    <3>2. CASE i = n + 1
      <4>1. Cardinality(UpTo(inputs, n + 1, i)) = Len(found.destinations) + 1
        BY <2>4, <2>9, <3>2, <1>3
      <4>2. Append(found.destinations, x)[Len(found.destinations) + 1] = x
        BY <1>6, <2>5, AppendOne
      <4> QED BY <2>5, <3>2, <4>1, <4>2
    <3> QED BY <3>1, <3>2
  <2>13. Reflects(now, inputs, n + 1)
    BY <2>1, <2>2, <2>7, <2>10, <2>11, <2>12 DEF Reflects
  <2> QED BY <2>13 DEF now
<1> QED BY <1>4, <1>5, <1>6

LEMMA ResolutionReflects ==
  ASSUME NEW inputs, Len(inputs) \in Nat
  PROVE  Reflects(ResolveTargets(inputs), inputs, Len(inputs))
<1> DEFINE f == Resolution(inputs)
           S == {n \in 0 .. Len(inputs) : Reflects(f[n], inputs, n)}
<1>1. 0 \in S
  <2>1. Good(inputs, 0) = {} /\ First(inputs, 0) = {}
    BY DEF Good, First
  <2>2. Nothing.destinations = <<>> /\ ToSet(<<>>) = {} /\ IsInjective(<<>>)
    BY DEF Nothing, ToSet, IsInjective
  <2>3. Reflects(Nothing, inputs, 0)
    <3>1. Nothing \in [destinations : Seq(allowed), issues : Nat, duplicates : Nat]
      BY DEF Nothing
    <3>2. Nothing.issues = 0 /\ Nothing.duplicates = 0 /\ Len(Nothing.destinations) = 0
      BY DEF Nothing
    <3>3. Cardinality({}) = 0 /\ 0 - 0 = 0 /\ {Lookup(inputs[i]) : i \in {}} = {}
      BY FS_EmptySet
    <3>4. Tallied(Nothing, inputs, 0)
      BY <2>1, <3>1, <3>2, <3>3 DEF Tallied
    <3>5. ToSet(Nothing.destinations) = {Lookup(inputs[i]) : i \in Good(inputs, 0)}
      BY <2>1, <2>2, <3>3
    <3> QED BY <2>1, <2>2, <3>4, <3>5 DEF Reflects
  <2> QED BY <2>3, Resolves
<1>2. ASSUME NEW n \in 0 .. Len(inputs) - 1, n \in S PROVE n + 1 \in S
  <2>1. f[n + 1] = Take(f[n], inputs[n + 1])
    <3>1. n + 1 \in 1 .. Len(inputs) /\ (n + 1) - 1 = n
      OBVIOUS
    <3> HIDE DEF f
    <3>2. \A i \in 1 .. Len(inputs) : f[i] = Take(f[i - 1], inputs[i])
      BY Resolves DEF f
    <3> QED BY <3>1, <3>2
  <2> QED BY <1>2, <2>1, OneMore
<1> HIDE DEF S
<1>3. Len(inputs) \in S
  BY <1>1, <1>2, Induction
<1> QED BY <1>3, Resolves DEF S

(* resolveTargets keeps the first mention of every eligible group in order *)
(* and counts every other input once, for every directory and list.        *)
THEOREM ResolvesCorrectly == Spec => []ResolvesAsDefined
<1>1. ResolvesAsDefined
  <2> SUFFICES ASSUME NEW inputs \in SeqOf(Name, MaxInputs + 1)
               PROVE
    LET found == ResolveTargets(inputs)
        good == {i \in DOMAIN inputs : Eligible(inputs[i])}
        first == {i \in good : \A j \in good : j < i => Lookup(inputs[j]) # Lookup(inputs[i])}
    IN /\ Len(found.destinations) = Cardinality(first)
       /\ \A i \in first :
            found.destinations[Cardinality({j \in first : j <= i})] = Lookup(inputs[i])
       /\ found.issues = Len(inputs) - Cardinality(good)
       /\ found.duplicates = Cardinality(good) - Cardinality(first)
    BY DEF ResolvesAsDefined
  <2>1. Len(inputs) \in Nat /\ DOMAIN inputs = 1 .. Len(inputs)
    BY DirectoryAssumption DEF SeqOf
  <2>2. Reflects(ResolveTargets(inputs), inputs, Len(inputs))
    BY <2>1, ResolutionReflects
  <2> QED BY <2>1, <2>2 DEF Reflects, Tallied, Good, First, UpTo
<1> QED BY <1>1, PTL

-----------------------------------------------------------------------------
(* The directory.                                                          *)

GroupsType == allowed \subseteq Group /\ active \subseteq Group

AliasType ==
  /\ alias \in [Group -> Alias \cup {None}]
  /\ \A g, h \in Group : g # h /\ alias[g] # None => alias[g] # alias[h]

SetsType ==
  /\ sets \in [SetName -> 0 .. lastId] /\ lastId \in 0 .. MaxSets
  /\ members \in [1 .. MaxSets -> SUBSET Group]
  /\ \A s, t \in SetName : s # t /\ sets[s] # 0 => sets[s] # sets[t]
  /\ \A i \in 1 .. MaxSets : members[i] # {} => \E s \in SetName : sets[s] = i

(* What a command has looked up, by what it is about to do: one group, or  *)
(* every target so far, found or counted as a duplicate.                   *)
WorkOK(w) ==
  /\ w \in Work /\ IsInjective(w.found)
  /\ w.op \in {"add", "remove"} =>
       w.set \in SetName /\ w.asked = Len(w.todo) + Len(w.found) + w.duplicates
  /\ w.op \in {"allow", "deny", "alias"} => Len(w.found) = 1
  /\ w.op \notin {"add", "remove"} => w.todo = <<>>

EditsOK == edit \in [Editor -> Work] /\ \A e \in Editor : WorkOK(edit[e])

DirectoryInv == GroupsType /\ AliasType /\ SetsType /\ EditsOK

LEMMA DirectoryTyped == DirectoryInv => DirectoryTypeOK
BY DEF DirectoryInv, GroupsType, AliasType, SetsType, EditsOK, WorkOK, DirectoryTypeOK, Unambiguous

LEMMA DirectoryBegins == DirectoryInit => DirectoryInv
<1> SUFFICES ASSUME DirectoryInit PROVE DirectoryInv
  OBVIOUS
<1>1. WorkOK(Idle)
  BY DirectoryAssumption DEF WorkOK, Work, Idle, Doing, IsInjective
<1>2. EditsOK
  BY <1>1 DEF DirectoryInit, EditsOK, WorkOK
<1>3. GroupsType /\ AliasType
  BY DEF DirectoryInit, GroupsType, AliasType
<1>4. SetsType
  BY DirectoryAssumption DEF DirectoryInit, SetsType
<1> QED BY <1>2, <1>3, <1>4 DEF DirectoryInv

(* A name that resolves names a group, and a group is its own name.        *)
LEMMA LookupType ==
  /\ \A name : Lookup(name) \in Group \cup {None}
  /\ \A g \in Group : Lookup(g) = g
<1>1. ASSUME NEW name PROVE Lookup(name) \in Group \cup {None}
  <2> DEFINE called == {g \in Group : alias[g] = name}
  <2>1. called # {} => (CHOOSE g \in called : TRUE) \in called
    OBVIOUS
  <2> QED BY <2>1 DEF Lookup
<1> QED BY <1>1 DEF Lookup

LEMMA EditBecomes ==
  ASSUME EditsOK, NEW e \in Editor, NEW w, WorkOK(w), edit' = [edit EXCEPT ![e] = w]
  PROVE  EditsOK'
<1>1. edit' \in [Editor -> Work]
  BY DEF EditsOK, WorkOK
<1>2. \A d \in Editor : edit'[d] = IF d = e THEN w ELSE edit[d]
  BY DEF EditsOK
<1> QED BY <1>1, <1>2 DEF EditsOK, WorkOK

LEMMA EditEnds == ASSUME EditsOK, NEW e \in Editor, Ends(e) PROVE EditsOK'
<1>1. WorkOK(Idle)
  BY DirectoryAssumption DEF WorkOK, Work, Idle, Doing, IsInjective
<1> QED BY <1>1, EditBecomes DEF Ends

LEMMA SubjectType ==
  ASSUME EditsOK, NEW e \in Editor, edit[e].op \in {"allow", "deny", "alias"}
  PROVE  Subject(e) \in Group /\ edit[e].alias \in Alias \cup {None}
<1>1. /\ edit[e].found \in Seq(Group) /\ Len(edit[e].found) = 1
      /\ edit[e].alias \in Alias \cup {None}
  BY DEF EditsOK, WorkOK, Work
<1> QED BY <1>1 DEF Subject

(* A command that names one group, and one that changes a set.             *)
LEMMA OneSubject ==
  ASSUME EditsOK, NEW e \in Editor, NEW g \in Group, NEW a \in Alias \cup {None},
         NEW op \in {"allow", "deny", "alias"}, Starts(e, Doing(op, None, a, <<>>, <<g>>))
  PROVE  EditsOK'
<1> DEFINE w == Doing(op, None, a, <<>>, <<g>>)
<1>1. WorkOK(w)
  <2>1. <<g>> \in Seq(Group) /\ IsInjective(<<g>>) /\ Len(<<g>>) = 1 /\ Len(<<>>) = 0
    BY DEF IsInjective
  <2> QED BY <2>1, DirectoryAssumption DEF Doing, WorkOK, Work
<1> HIDE DEF w
<1> QED BY <1>1, EditBecomes DEF Starts, w

LEMMA ManySubjects ==
  ASSUME EditsOK, NEW e \in Editor, NEW s \in SetName, NEW op \in {"add", "remove"},
         NEW inputs \in Inputs, Starts(e, Doing(op, s, None, inputs, <<>>))
  PROVE  EditsOK'
<1> DEFINE asked == Len(inputs)
           w == [op |-> op, set |-> s, alias |-> None, todo |-> inputs, found |-> <<>>,
                 duplicates |-> 0, asked |-> asked]
<1>1. inputs \in Seq(Name) /\ asked \in 0 .. MaxInputs
  BY DirectoryAssumption DEF Inputs, SeqOf
<1>2. 0 \in 0 .. MaxInputs /\ <<>> \in Seq(Group) /\ IsInjective(<<>>) /\ Len(<<>>) = 0
  BY DirectoryAssumption DEF IsInjective
<1>3. w \in Work
  <2> HIDE DEF asked
  <2> QED BY <1>1, <1>2 DEF Work
<1>4. WorkOK(w)
  <2>1. asked = Len(inputs) + Len(<<>>) + 0
    BY <1>1, <1>2
  <2> QED BY <1>2, <1>3, <2>1 DEF WorkOK
<1>5. edit' = [edit EXCEPT ![e] = w]
  BY DEF Starts, Doing
<1> HIDE DEF w
<1> QED BY <1>4, <1>5, EditBecomes

LEMMA AskStep ==
  ASSUME DirectoryInv, NEW e \in Editor, AskEnabled(e) \/ AskAlias(e) \/ AskChange(e)
  PROVE  DirectoryInv'
<1> USE DEF DirectoryInv
<1>1. EditsOK'
  <2>1. CASE AskEnabled(e)
    <3>1. PICK name \in Name, op \in {"allow", "deny"} :
            Lookup(name) # None /\ Starts(e, Doing(op, None, None, <<>>, <<Lookup(name)>>))
      BY <2>1 DEF AskEnabled
    <3>2. Lookup(name) \in Group
      BY <3>1, LookupType
    <3> QED BY <3>1, <3>2, OneSubject
  <2>2. CASE AskAlias(e)
    <3>1. PICK name \in Name, a \in Alias \cup {None} :
            Lookup(name) # None /\ Starts(e, Doing("alias", None, a, <<>>, <<Lookup(name)>>))
      BY <2>2 DEF AskAlias
    <3>2. Lookup(name) \in Group
      BY <3>1, LookupType
    <3> QED BY <3>1, <3>2, OneSubject
  <2>3. CASE AskChange(e)
    BY <2>3, ManySubjects DEF AskChange
  <2> QED BY <2>1, <2>2, <2>3
<1> QED BY <1>1 DEF AskEnabled, AskAlias, AskChange, GroupsType, AliasType, SetsType

LEMMA WriteStep ==
  ASSUME DirectoryInv, NEW e \in Editor,
         WriteEnabled(e) \/ WriteAlias(e) \/ WriteMembers(e) \/ EditorCrash(e)
  PROVE  DirectoryInv'
<1> USE DEF DirectoryInv
<1>1. Ends(e)
  BY DEF WriteEnabled, WriteAlias, WriteMembers, EditorCrash
<1>2. EditsOK'
  BY <1>1, EditEnds
<1>3. CASE WriteEnabled(e)
  <2>1. Subject(e) \in Group
    BY <1>3, SubjectType DEF WriteEnabled
  <2> QED BY <1>2, <1>3, <2>1 DEF WriteEnabled, Denied, GroupsType, AliasType, SetsType
<1>4. CASE WriteAlias(e)
  <2>1. Subject(e) \in Group /\ edit[e].alias \in Alias \cup {None}
    BY <1>4, SubjectType DEF WriteAlias
  <2>2. AliasType'
    <3>1. CASE Taken(Subject(e), edit[e].alias)
      BY <1>4, <3>1 DEF WriteAlias, AliasType
    <3>2. CASE ~Taken(Subject(e), edit[e].alias)
      BY <1>4, <2>1, <3>2 DEF WriteAlias, AliasType, Taken
    <3> QED BY <3>1, <3>2
  <2> QED BY <1>2, <1>4, <2>2 DEF WriteAlias, GroupsType, SetsType
<1>5. CASE WriteMembers(e)
  <2> DEFINE id == sets[edit[e].set]
             jids == ToSet(edit[e].found)
  <2>1. edit[e].set \in SetName /\ edit[e].found \in Seq(Group)
    BY <1>5 DEF WriteMembers, EditsOK, WorkOK, Work
  <2>2. ASSUME NEW s \in Seq(Group) PROVE ToSet(s) \subseteq Group
    BY DEF ToSet
  <2>3. id \in 0 .. MaxSets
    BY <2>1, DirectoryAssumption DEF SetsType
  <2>4. jids \subseteq Group /\ id \in 0 .. MaxSets
    BY <2>1, <2>2, <2>3
  <2>5. \/ members' = members
        \/ id # 0 /\ members' = [members EXCEPT ![id] = @ \cup jids]
        \/ id # 0 /\ members' = [members EXCEPT ![id] = @ \ jids]
    BY <1>5 DEF WriteMembers
  <2>6. SetsType'
    <3> HIDE DEF jids
    <3>1. members' \in [1 .. MaxSets -> SUBSET Group]
      BY <2>4, <2>5 DEF SetsType
    <3>2. \A i \in 1 .. MaxSets : i # id => members'[i] = members[i]
      BY <2>4, <2>5 DEF SetsType
    <3>3. UNCHANGED <<sets, lastId>>
      BY <1>5 DEF WriteMembers
    <3> QED BY <2>1, <3>1, <3>2, <3>3 DEF SetsType
  <2> QED BY <1>2, <1>5, <2>6 DEF WriteMembers, GroupsType, AliasType
<1>6. CASE EditorCrash(e)
  BY <1>2, <1>6 DEF EditorCrash, GroupsType, AliasType, SetsType
<1> QED BY <1>3, <1>4, <1>5, <1>6

(* A target moves from those to come to those found or counted.            *)
OneOn(v, w) ==
  /\ v.op \in {"add", "remove"} /\ v.todo # <<>>
  /\ w \in Work /\ IsInjective(w.found) /\ w.op = v.op /\ w.set = v.set
  /\ w.asked = v.asked /\ w.todo = Tail(v.todo)
  /\ Len(w.found) + w.duplicates = (Len(v.found) + v.duplicates) + 1

LEMMA OneTargetOn == ASSUME NEW v, NEW w, WorkOK(v), OneOn(v, w) PROVE WorkOK(w)
<1> DEFINE todo == Len(v.todo)
           left == Len(w.todo)
           found == Len(v.found)
           now == Len(w.found)
           old == v.duplicates
           new == w.duplicates
           asked == v.asked
<1>1. v.todo \in Seq(Name) /\ v.found \in Seq(Group) /\ old \in Nat /\ asked \in Nat
  BY DirectoryAssumption DEF WorkOK, Work
<1>2. w \in Work
  BY DEF OneOn
<1>3. w.todo \in Seq(Name) /\ w.found \in Seq(Group) /\ new \in Nat
  BY <1>2, DirectoryAssumption DEF Work
<1>4. todo \in Nat /\ found \in Nat
  BY <1>1
<1>5. left \in Nat /\ now \in Nat
  BY <1>3
<1>6. todo = left + 1
  BY <1>1 DEF OneOn
<1>7. v.set \in SetName /\ asked = todo + found + old
  BY DEF OneOn, WorkOK
<1>8. now + new = (found + old) + 1
  BY DEF OneOn
<1>9. asked = left + now + new
  <2> HIDE DEF todo, left, found, now, old, new, asked
  <2> QED BY <1>1, <1>3, <1>4, <1>5, <1>6, <1>7, <1>8
<1> QED BY <1>7, <1>9 DEF OneOn, WorkOK

(* One target of a change is looked up.                                    *)
LEMMA LookUpStep ==
  ASSUME DirectoryInv, NEW e \in Editor, LookUpNext(e)
  PROVE  DirectoryInv'
<1> USE DEF DirectoryInv
<1> DEFINE old == edit[e]
           g == Lookup(Head(old.todo))
<1>1. WorkOK(old) /\ old.todo # <<>> /\ old.op \in {"add", "remove"}
  BY DEF LookUpNext, EditsOK, WorkOK, Work
<1>2. /\ old.todo \in Seq(Name) /\ Tail(old.todo) \in Seq(Name)
      /\ Len(Tail(old.todo)) = Len(old.todo) - 1 /\ Len(old.todo) - 1 \in Nat
      /\ Len(old.todo) \in Nat /\ Len(old.found) \in Nat
  BY <1>1 DEF WorkOK, Work
<1>3. EditsOK'
  <2>1. CASE g = None /\ Unresolved(e)
    BY <2>1, EditEnds DEF Unresolved
  <2>2. CASE edit' = [edit EXCEPT ![e].todo = Tail(@), ![e].duplicates = @ + 1]
    <3> DEFINE w == [old EXCEPT !.todo = Tail(@), !.duplicates = @ + 1]
    <3>1. edit' = [edit EXCEPT ![e] = w]
      BY <2>2 DEF EditsOK, Work
    <3>2. WorkOK(w)
      <4>1. old.duplicates + 1 \in 0 .. MaxInputs
        <5>1. old.asked = Len(old.todo) + Len(old.found) + old.duplicates
          BY <1>1 DEF WorkOK
        <5>2. old.asked \in 0 .. MaxInputs /\ old.duplicates \in 0 .. MaxInputs
          BY <1>1 DEF WorkOK, Work
        <5> DEFINE todo == Len(old.todo)
                   found == Len(old.found)
                   count == old.duplicates
                   asked == old.asked
        <5>3. todo \in Nat /\ todo - 1 \in Nat /\ found \in Nat /\ MaxInputs \in Nat
          BY <1>2, DirectoryAssumption
        <5>4. asked = todo + found + count
          BY <5>1
        <5>5. asked \in 0 .. MaxInputs /\ count \in 0 .. MaxInputs
          BY <5>2
        <5> HIDE DEF todo, found, count, asked
        <5>6. count + 1 \in 0 .. MaxInputs
          BY <5>3, <5>4, <5>5
        <5> QED BY <5>6 DEF count
      <4>2. /\ w \in Work /\ w.found = old.found /\ w.op = old.op /\ w.set = old.set
            /\ w.asked = old.asked /\ w.todo = Tail(old.todo)
            /\ w.duplicates = old.duplicates + 1
        BY <1>1, <1>2, <4>1 DEF WorkOK, Work
      <4>3. IsInjective(old.found) /\ old.duplicates \in Nat
        BY <1>1, DirectoryAssumption DEF WorkOK, Work
      <4> HIDE DEF w, old
      <4>4. Len(w.found) + w.duplicates = (Len(old.found) + old.duplicates) + 1
        BY <1>2, <4>2, <4>3
      <4> QED BY <1>1, <4>2, <4>3, <4>4, OneTargetOn DEF OneOn
    <3> HIDE DEF w
    <3> QED BY <3>1, <3>2, EditBecomes
  <2>3. CASE /\ g # None /\ g \notin ToSet(old.found)
             /\ edit' = [edit EXCEPT ![e].todo = Tail(@), ![e].found = Append(@, g)]
    <3> DEFINE w == [old EXCEPT !.todo = Tail(@), !.found = Append(@, g)]
    <3>1. edit' = [edit EXCEPT ![e] = w]
      BY <2>3 DEF EditsOK, Work
    <3>2. g \in Group /\ old.found \in Seq(Group)
      BY <1>1, <2>3, LookupType DEF WorkOK, Work
    <3>3. /\ Append(old.found, g) \in Seq(Group) /\ IsInjective(Append(old.found, g))
          /\ Len(Append(old.found, g)) = Len(old.found) + 1
      BY <1>1, <2>3, <3>2, AppendOne DEF WorkOK
    <3>4. WorkOK(w)
      <4> HIDE DEF g
      <4>1. /\ w \in Work /\ w.found = Append(old.found, g) /\ w.op = old.op /\ w.set = old.set
            /\ w.asked = old.asked /\ w.todo = Tail(old.todo) /\ w.duplicates = old.duplicates
        BY <1>1, <1>2, <3>3 DEF WorkOK, Work
      <4>2. old.duplicates \in Nat
        BY <1>1, DirectoryAssumption DEF WorkOK, Work
      <4> HIDE DEF w, old
      <4>3. Len(w.found) + w.duplicates = (Len(old.found) + old.duplicates) + 1
        BY <1>2, <3>3, <4>1, <4>2
      <4> QED BY <1>1, <3>3, <4>1, <4>3, OneTargetOn DEF OneOn
    <3> HIDE DEF w
    <3> QED BY <3>1, <3>4, EditBecomes
  <2> QED BY <2>1, <2>2, <2>3 DEF LookUpNext
<1> QED BY <1>3 DEF LookUpNext, GroupsType, AliasType, SetsType

LEMMA ImportStep ==
  ASSUME DirectoryInv, NEW e \in Editor, ImportLocal(e)
  PROVE  DirectoryInv'
<1> USE DEF DirectoryInv
<1>1. EditsOK'
  <2>1. CASE UNCHANGED edit
    BY <2>1 DEF EditsOK, WorkOK
  <2>2. ASSUME NEW g \in Group, NEW a \in Alias,
               Starts(e, Doing("alias", None, a, <<>>, <<g>>))
        PROVE  EditsOK'
    BY <2>2, OneSubject
  <2> QED BY <2>1, <2>2 DEF ImportLocal
<1> QED BY <1>1 DEF ImportLocal, Synchronized, GroupsType, AliasType, SetsType

(* Whole commands of other processes.                                      *)
LEMMA OthersStep ==
  ASSUME DirectoryInv,
         \/ Refresh \/ \E s \in SetName : Create(s) \/ Delete(s)
         \/ \E g \in Group : Allow(g) \/ Deny(g) \/ Rename(g) \/ Enter(g) \/ Leave(g)
  PROVE  DirectoryInv'
<1> USE DEF DirectoryInv
<1>1. UNCHANGED edit => EditsOK'
  BY DEF EditsOK, WorkOK
<1>2. CASE Refresh
  BY <1>1, <1>2 DEF Refresh, Synchronized, GroupsType, AliasType, SetsType
<1>3. ASSUME NEW s \in SetName, Create(s) PROVE DirectoryInv'
  <2>1. SetsType'
    BY <1>3, DirectoryAssumption DEF Create, NextId, SetsType
  <2> QED BY <1>1, <1>3, <2>1 DEF Create, GroupsType, AliasType
<1>4. ASSUME NEW s \in SetName, Delete(s) PROVE DirectoryInv'
  <2>1. SetsType'
    BY <1>4, DirectoryAssumption DEF Delete, Cascade, SetsType
  <2> QED BY <1>1, <1>4, <2>1 DEF Delete, GroupsType, AliasType
<1>5. ASSUME NEW g \in Group, Rename(g) PROVE DirectoryInv'
  <2>1. AliasType'
    BY <1>5 DEF Rename, Taken, AliasType
  <2> QED BY <1>1, <1>5, <2>1 DEF Rename, GroupsType, SetsType
<1>6. ASSUME NEW g \in Group, Allow(g) \/ Deny(g) \/ Enter(g) \/ Leave(g) PROVE DirectoryInv'
  BY <1>1, <1>6 DEF Allow, Deny, Denied, Enter, Leave, GroupsType, AliasType, SetsType
<1> QED BY <1>2, <1>3, <1>4, <1>5, <1>6

LEMMA DirectoryStep == ASSUME DirectoryInv, DirectoryNext PROVE DirectoryInv'
BY AskStep, WriteStep, LookUpStep, ImportStep, OthersStep DEF DirectoryNext

(* Ids are never reused: a set keeps its id, loses it, or gets a new one.  *)
LEMMA IdsAreNew ==
  ASSUME SetsType, DirectoryNext
  PROVE  /\ lastId' \in Nat /\ lastId <= lastId'
         /\ \A s \in SetName : sets'[s] \in {sets[s], 0} \/ sets'[s] > lastId
<1>1. ASSUME NEW s \in SetName, Create(s) PROVE lastId' = lastId + 1
  BY <1>1 DEF Create, NextId, SetsType
<1>2. ASSUME NEW s \in SetName, Create(s), NEW t \in SetName
      PROVE  sets'[t] \in {sets[t], 0} \/ sets'[t] > lastId
  BY <1>2 DEF Create, NextId, SetsType
<1>3. ASSUME NEW s \in SetName, Delete(s), NEW t \in SetName
      PROVE  sets'[t] \in {sets[t], 0} /\ lastId' = lastId
  BY <1>3 DEF Delete, SetsType
<1>4. CASE UNCHANGED <<sets, lastId>>
  BY <1>4 DEF SetsType
<1>5. ASSUME NEW e \in Editor,
             \/ AskEnabled(e) \/ WriteEnabled(e) \/ AskAlias(e) \/ WriteAlias(e) \/ ImportLocal(e)
             \/ AskChange(e) \/ LookUpNext(e) \/ WriteMembers(e) \/ EditorCrash(e)
      PROVE  UNCHANGED <<sets, lastId>>
  BY <1>5 DEF AskEnabled, WriteEnabled, AskAlias, WriteAlias, ImportLocal, AskChange,
              LookUpNext, WriteMembers, EditorCrash
<1>6. ASSUME NEW g \in Group, Allow(g) \/ Deny(g) \/ Rename(g) \/ Enter(g) \/ Leave(g)
      PROVE  UNCHANGED <<sets, lastId>>
  BY <1>6 DEF Allow, Deny, Rename, Enter, Leave
<1>7. CASE Refresh
  BY <1>4, <1>7 DEF Refresh
<1>8. CASE \E s \in SetName : Create(s) \/ Delete(s)
  BY <1>1, <1>2, <1>3, <1>8 DEF SetsType
<1> QED BY <1>4, <1>5, <1>6, <1>7, <1>8 DEF DirectoryNext
-----------------------------------------------------------------------------
(* The bulk commands.                                                      *)

Balanced(b) ==
  b.requested = Len(b.left) + b.queued + b.duplicateJobs
                + b.duplicateTargets + b.failed + b.skipped

(* What a command still has to send to, what it has counted and the groups *)
(* it has rows for: nothing is counted before it enqueues, and no group it *)
(* has a row for is left.                                                  *)
CallerOK(b, done) ==
  /\ IsInjective(b.left) /\ Balanced(b)
  /\ b.pc \in {"new", "reading"} =>
       b.left = <<>> /\ b.queued = 0 /\ b.duplicateJobs = 0 /\ b.failed = 0
  /\ done \cap ToSet(b.left) = {} /\ Cardinality(done) = b.queued

(* Between looking a set up and reading its rows: whatever happened, the   *)
(* id is that of the name or of no name.                                   *)
ReadingOK(b) ==
  b.pc = "reading" =>
    b.set \in SetName /\ b.id \in 1 .. lastId /\ \A t \in SetName : sets[t] = b.id => t = b.set

CallersOK ==
  /\ command \in [Caller -> Batch] /\ rows \in [Caller -> SUBSET Group]
  /\ \A c \in Caller : CallerOK(command[c], rows[c]) /\ ReadingOK(command[c])

BulkInv == DirectoryInv /\ CallersOK

(* The step of one caller.                                                 *)
Alone(c) ==
  /\ command' \in [Caller -> Batch] /\ rows' \in [Caller -> SUBSET Group]
  /\ \A d \in Caller : d # c => command'[d] = command[d] /\ rows'[d] = rows[d]
  /\ UNCHANGED <<sets, lastId>>

LEMMA OneCaller ==
  ASSUME CallersOK, NEW c \in Caller, Alone(c),
         CallerOK(command'[c], rows'[c]), ReadingOK(command'[c])
  PROVE  CallersOK'
<1>1. ASSUME NEW d \in Caller PROVE CallerOK(command'[d], rows'[d]) /\ ReadingOK(command'[d])
  BY DEF CallersOK, Alone
<1>2. UNCHANGED <<sets, lastId>>
  BY DEF Alone
<1>3. ASSUME NEW d \in Caller PROVE CallerOK(command'[d], rows'[d]) /\ ReadingOK(command[d])'
  BY <1>1, <1>2 DEF ReadingOK
<1> QED BY <1>3 DEF CallersOK, Alone, CallerOK

LEMMA GroupsFinite ==
  /\ Cardinality(Group) \in Nat /\ MaxInputs \in Nat
  /\ \A S \in SUBSET Group : IsFiniteSet(S) /\ Cardinality(S) \in Nat
                             /\ Cardinality(S) <= Cardinality(Group)
BY DirectoryAssumption, FS_CardinalityType, FS_Subset

LEMMA BulkBegins == Init => BulkInv
<1> SUFFICES ASSUME Init PROVE BulkInv
  OBVIOUS
<1>1. DirectoryInv
  BY DirectoryBegins DEF Init
<1>2. 0 \in Count /\ 0 \in 0 .. MaxSets
  BY GroupsFinite, DirectoryAssumption DEF Count
<1>3. command \in [Caller -> Batch] /\ rows \in [Caller -> SUBSET Group]
  BY <1>2 DEF Init, Batch
<1>4. ASSUME NEW c \in Caller PROVE CallerOK(command[c], rows[c]) /\ ReadingOK(command[c])
  <2>1. /\ command[c].pc = "new" /\ command[c].left = <<>> /\ rows[c] = {}
        /\ command[c].requested = 0 /\ command[c].queued = 0 /\ command[c].duplicateJobs = 0
        /\ command[c].duplicateTargets = 0 /\ command[c].failed = 0 /\ command[c].skipped = 0
    BY DEF Init
  <2>2. IsInjective(<<>>) /\ Len(<<>>) = 0 /\ Cardinality({}) = 0
    BY FS_EmptySet DEF IsInjective
  <2>3. Balanced(command[c])
    BY <2>1, <2>2 DEF Balanced
  <2> QED BY <2>1, <2>2, <2>3 DEF CallerOK, ReadingOK
<1> QED BY <1>1, <1>3, <1>4 DEF BulkInv, CallersOK
LEMMA CallerType ==
  ASSUME CallersOK, NEW c \in Caller
  PROVE  /\ command[c] \in Batch /\ rows[c] \in SUBSET Group
         /\ CallerOK(command[c], rows[c]) /\ ReadingOK(command[c])
         /\ command[c].left \in Seq(Group)
BY DEF CallersOK, Batch

(* A command that goes on with the same targets and counts.                *)
SameCounts(b, d) ==
  /\ d.left = b.left /\ d.requested = b.requested /\ d.queued = b.queued
  /\ d.duplicateJobs = b.duplicateJobs /\ d.duplicateTargets = b.duplicateTargets
  /\ d.failed = b.failed /\ d.skipped = b.skipped

LEMMA GoesOn ==
  ASSUME NEW b, NEW d, NEW done, CallerOK(b, done), SameCounts(b, d),
         b.pc \in {"new", "reading"} \/ d.pc \notin {"new", "reading"}
  PROVE  CallerOK(d, done)
BY DEF CallerOK, SameCounts, Balanced

LEMMA PcStep ==
  ASSUME CallersOK, NEW c \in Caller, UNCHANGED <<directoryVars, rows>>,
         \/ command[c].pc \in {"new", "reading"} /\ Abort(c)
         \/ FindSet(c) \/ Finish(c) \/ Crash(c),
         SetsType
  PROVE  CallersOK'
<1> DEFINE b == command[c]
           d == command'[c]
<1>1. UNCHANGED <<sets, lastId, rows>>
  BY DEF directoryVars
<1>2. /\ command' \in [Caller -> Batch] /\ SameCounts(b, d)
      /\ \A a \in Caller : a # c => command'[a] = command[a]
      /\ \/ d.pc \in {"aborted", "done", "gone"}
         \/ /\ d.pc = "reading" /\ b.pc = "new"
            /\ \E s \in SetName : sets[s] # 0 /\ d.set = s /\ d.id = sets[s]
  <2>1. ASSUME NEW p \in {"aborted", "done", "gone"}, command' = [command EXCEPT ![c].pc = p]
        PROVE  /\ command' \in [Caller -> Batch] /\ SameCounts(b, d) /\ d.pc = p
               /\ \A a \in Caller : a # c => command'[a] = command[a]
    <3>1. command' \in [Caller -> Batch]
      <4>1. b \in Batch /\ command \in [Caller -> Batch]
        BY CallerType DEF CallersOK
      <4>2. [b EXCEPT !.pc = p] \in Batch
        BY <4>1 DEF Batch
      <4> HIDE DEF b
      <4>3. command' = [command EXCEPT ![c] = [b EXCEPT !.pc = p]]
        BY <2>1 DEF b
      <4> QED BY <4>1, <4>2, <4>3
    <3>2. SameCounts(b, d) /\ d.pc = p
      BY <2>1 DEF CallersOK, Batch, SameCounts
    <3> QED BY <2>1, <3>1, <3>2 DEF CallersOK
  <2>2. ASSUME NEW s \in SetName, sets[s] # 0, b.pc = "new",
               command' = [command EXCEPT ![c].pc = "reading", ![c].set = s, ![c].id = sets[s]]
        PROVE  /\ command' \in [Caller -> Batch] /\ SameCounts(b, d)
               /\ \A a \in Caller : a # c => command'[a] = command[a]
               /\ d.pc = "reading" /\ d.set = s /\ d.id = sets[s]
    <3>1. sets[s] \in 0 .. MaxSets
      BY DirectoryAssumption DEF SetsType
    <3>2. command' \in [Caller -> Batch]
      <4> DEFINE r == [b EXCEPT !.pc = "reading", !.set = s, !.id = sets[s]]
      <4>1. b \in Batch /\ command \in [Caller -> Batch]
        BY CallerType DEF CallersOK
      <4>2. r \in Batch
        BY <3>1, <4>1 DEF Batch
      <4>3. command' = [command EXCEPT ![c] = r]
        BY <2>2, <4>1
      <4> HIDE DEF r
      <4> QED BY <4>1, <4>2, <4>3
    <3>3. SameCounts(b, d) /\ d.pc = "reading" /\ d.set = s /\ d.id = sets[s]
      BY <2>2 DEF CallersOK, Batch, SameCounts
    <3> QED BY <2>2, <3>2, <3>3 DEF CallersOK
  <2> QED BY <2>1, <2>2 DEF Abort, Finish, Crash, FindSet, Give
<1>3. Alone(c)
  BY <1>1, <1>2 DEF Alone, CallersOK
<1>4. CallerOK(d, rows'[c])
  <2>1. CallerOK(b, rows[c]) /\ rows' = rows
    BY <1>1, CallerType
  <2>2. b.pc \in {"new", "reading"} \/ d.pc \notin {"new", "reading"}
    BY <1>2
  <2> HIDE DEF b, d
  <2> QED BY <1>2, <2>1, <2>2, GoesOn
<1>5. ReadingOK(d)
  BY <1>2 DEF ReadingOK, SetsType
<1> QED BY <1>3, <1>4, <1>5, OneCaller
LEMMA TailOne ==
  ASSUME NEW S, NEW s \in Seq(S), s # <<>>, IsInjective(s)
  PROVE  /\ Head(s) \in S /\ Tail(s) \in Seq(S) /\ Len(s) = Len(Tail(s)) + 1
         /\ ToSet(Tail(s)) = ToSet(s) \ {Head(s)} /\ IsInjective(Tail(s))
<1> DEFINE t == Tail(s)
<1>1. /\ Head(s) \in S /\ t \in Seq(S) /\ Len(s) = Len(t) + 1 /\ Len(t) \in Nat
      /\ Head(s) = s[1] /\ DOMAIN s = 1 .. Len(s) /\ DOMAIN t = 1 .. Len(t)
      /\ \A i \in 1 .. Len(t) : t[i] = s[i + 1]
  OBVIOUS
<1> HIDE DEF t
<1>2. IsInjective(t)
  BY <1>1 DEF IsInjective
<1>3. ToSet(t) \subseteq ToSet(s) \ {Head(s)}
  BY <1>1 DEF ToSet, IsInjective
<1>4. ToSet(s) \ {Head(s)} \subseteq ToSet(t)
  <2> SUFFICES ASSUME NEW i \in 1 .. Len(s), s[i] # Head(s) PROVE s[i] \in ToSet(t)
    BY <1>1 DEF ToSet
  <2>1. i - 1 \in 1 .. Len(t) /\ (i - 1) + 1 = i
    BY <1>1
  <2>2. t[i - 1] = s[i]
    BY <1>1, <2>1
  <2> QED BY <1>1, <2>1, <2>2 DEF ToSet
<1> QED BY <1>1, <1>2, <1>3, <1>4 DEF t
(* One target of b is counted, in one of three ways.                       *)
OneCounted(b, d) ==
  /\ b.left # <<>> /\ d.left = Tail(b.left) /\ d.pc = b.pc /\ d.requested = b.requested
  /\ d.duplicateTargets = b.duplicateTargets /\ d.skipped = b.skipped
  /\ \/ /\ d.queued = b.queued + 1
        /\ d.duplicateJobs = b.duplicateJobs /\ d.failed = b.failed
     \/ /\ d.duplicateJobs = b.duplicateJobs + 1
        /\ d.queued = b.queued /\ d.failed = b.failed
     \/ /\ d.failed = b.failed + 1
        /\ d.queued = b.queued /\ d.duplicateJobs = b.duplicateJobs

Counts(b) ==
  /\ b.left \in Seq(Group)
  /\ b.requested \in Nat /\ b.queued \in Nat /\ b.duplicateJobs \in Nat
  /\ b.duplicateTargets \in Nat /\ b.failed \in Nat /\ b.skipped \in Nat

(* What is left and what is counted still make up what was asked for, and  *)
(* no count exceeds it.                                                    *)
LEMMA CountsOne ==
  ASSUME NEW b, NEW d, OneCounted(b, d), Counts(b), Balanced(b)
  PROVE  /\ Balanced(d)
         /\ d.queued \in 0 .. b.requested /\ d.duplicateJobs \in 0 .. b.requested
         /\ d.failed \in 0 .. b.requested
<1> DEFINE l == Len(b.left)
           m == Len(d.left)
           r == b.requested
           q == b.queued
           j == b.duplicateJobs
           t == b.duplicateTargets
           f == b.failed
           s == b.skipped
           q1 == d.queued
           j1 == d.duplicateJobs
           f1 == d.failed
<1>1. l \in Nat /\ m \in Nat /\ l = m + 1
  BY DEF OneCounted, Counts
<1>2. /\ r \in Nat /\ q \in Nat /\ j \in Nat /\ t \in Nat /\ f \in Nat /\ s \in Nat
  BY DEF Counts
<1>3. r = l + q + j + t + f + s
  BY DEF Balanced
<1>4. \/ q1 = q + 1 /\ j1 = j /\ f1 = f
      \/ q1 = q /\ j1 = j + 1 /\ f1 = f
      \/ q1 = q /\ j1 = j /\ f1 = f + 1
  BY DEF OneCounted
<1>5. d.requested = r /\ d.duplicateTargets = t /\ d.skipped = s
  BY DEF OneCounted
<1>6. r = m + q1 + j1 + t + f1 + s /\ q1 \in 0 .. r /\ j1 \in 0 .. r /\ f1 \in 0 .. r
  <2> HIDE DEF l, m, r, q, j, t, f, s, q1, j1, f1
  <2> QED BY <1>1, <1>2, <1>3, <1>4
<1> QED BY <1>5, <1>6 DEF Balanced
(* One destination is enqueued, a duplicate, or fails.                     *)
LEMMA CountStep ==
  ASSUME CallersOK, NEW c \in Caller, Queue(c) \/ Duplicate(c) \/ Fail(c)
  PROVE  CallersOK'
<1> DEFINE b == command[c]
           d == command'[c]
           g == Head(b.left)
<1>1. /\ b.pc = "enqueuing" /\ b.left # <<>> /\ b.left \in Seq(Group) /\ b \in Batch
      /\ CallerOK(b, rows[c]) /\ rows[c] \in SUBSET Group
  BY CallerType DEF Queue, Duplicate, Fail, Enqueuing
<1>2. /\ g \in Group /\ Tail(b.left) \in Seq(Group) /\ IsInjective(Tail(b.left))
      /\ ToSet(Tail(b.left)) = ToSet(b.left) \ {g} /\ g \in ToSet(b.left)
  <2>1. b.left[1] \in ToSet(b.left) /\ g = b.left[1]
    BY <1>1 DEF ToSet
  <2> QED BY <1>1, <2>1, TailOne DEF CallerOK
<1>3. /\ OneCounted(b, d) /\ UNCHANGED <<sets, lastId>>
      /\ \A a \in Caller : a # c => command'[a] = command[a]
      /\ \/ d.queued = b.queued + 1 /\ rows' = [rows EXCEPT ![c] = @ \cup {g}]
         \/ d.queued = b.queued /\ rows' = rows
  <2>1. CASE Queue(c)
    BY <1>1, <2>1 DEF CallersOK, Batch, Queue, Counted, OneCounted
  <2>2. CASE Duplicate(c)
    BY <1>1, <2>2 DEF CallersOK, Batch, Duplicate, Counted, OneCounted, directoryVars
  <2>3. CASE Fail(c)
    BY <1>1, <2>3 DEF CallersOK, Batch, Fail, Counted, OneCounted, directoryVars
  <2> QED BY <2>1, <2>2, <2>3
<1>4. Counts(b) /\ b.requested <= MaxInputs + Cardinality(Group)
  BY <1>1, GroupsFinite DEF Batch, Count, Counts
<1>5. /\ Balanced(d) /\ d.queued \in 0 .. b.requested /\ d.duplicateJobs \in 0 .. b.requested
      /\ d.failed \in 0 .. b.requested
  <2> HIDE DEF b, d
  <2> QED BY <1>1, <1>3, <1>4, CountsOne DEF CallerOK
<1>6. d.queued \in Count /\ d.duplicateJobs \in Count /\ d.failed \in Count
  <2> HIDE DEF b, d
  <2> QED BY <1>4, <1>5, GroupsFinite DEF Count, Counts
<1>7. command' \in [Caller -> Batch]
  <2>1. CASE Queue(c)
    BY <1>1, <1>2, <1>6, <2>1 DEF CallersOK, Batch, Queue, Counted
  <2>2. CASE Duplicate(c)
    BY <1>1, <1>2, <1>6, <2>2 DEF CallersOK, Batch, Duplicate, Counted
  <2>3. CASE Fail(c)
    BY <1>1, <1>2, <1>6, <2>3 DEF CallersOK, Batch, Fail, Counted
  <2> QED BY <2>1, <2>2, <2>3
<1>8. Alone(c)
  BY <1>2, <1>3, <1>7 DEF Alone, CallersOK
<1>9. /\ rows'[c] \cap ToSet(d.left) = {} /\ Cardinality(rows'[c]) = d.queued
  <2>1. /\ d.left = Tail(b.left) /\ g \notin rows[c] /\ Cardinality(rows[c]) = b.queued
        /\ rows[c] \cap ToSet(b.left) = {} /\ IsFiniteSet(rows[c])
    BY <1>1, <1>2, <1>3, GroupsFinite DEF OneCounted, CallerOK
  <2>2. \/ d.queued = b.queued + 1 /\ rows'[c] = rows[c] \cup {g}
        \/ d.queued = b.queued /\ rows'[c] = rows[c]
    BY <1>3 DEF CallersOK
  <2> HIDE DEF b, d, g
  <2> QED BY <1>2, <2>1, <2>2, FS_AddElement
<1>10. CallerOK(d, rows'[c]) /\ ReadingOK(d)
  <2> HIDE DEF b, d, g
  <2> QED BY <1>1, <1>2, <1>3, <1>5, <1>9 DEF OneCounted, CallerOK, ReadingOK
<1> QED BY <1>8, <1>10, OneCaller
(* What a list of targets resolves to.                                     *)
LEMMA ResolvedType ==
  ASSUME GroupsType, NEW inputs, Len(inputs) \in Nat
  PROVE  LET found == ResolveTargets(inputs) IN
         /\ found.destinations \in Seq(Group) /\ IsInjective(found.destinations)
         /\ found.issues \in Nat /\ found.duplicates \in Nat
         /\ Len(inputs) = Len(found.destinations) + found.duplicates + found.issues
         /\ ToSet(found.destinations) \subseteq {Lookup(inputs[i]) : i \in 1 .. Len(inputs)}
<1> DEFINE found == ResolveTargets(inputs)
           n == Len(inputs)
           good == Cardinality(Good(inputs, n))
           first == Cardinality(First(inputs, n))
           size == Len(found.destinations)
           issues == found.issues
           duplicates == found.duplicates
<1>1. Reflects(found, inputs, n)
  BY ResolutionReflects
<1> HIDE DEF found, n
<1>2. n \in Nat
  BY DEF n
<1>3. good \in Nat /\ first \in Nat /\ first <= good /\ good <= n
  BY <1>2, FiniteParts
<1>4. found.destinations \in Seq(allowed) /\ Seq(allowed) \subseteq Seq(Group)
  BY <1>1 DEF Reflects, Tallied, GroupsType
<1>5. size = first /\ issues = n - good /\ duplicates = good - first
  BY <1>1 DEF Reflects, Tallied
<1>6. issues \in Nat /\ duplicates \in Nat /\ n = size + duplicates + issues
  <2> HIDE DEF good, first, size, issues, duplicates
  <2> QED BY <1>2, <1>3, <1>5
<1>7. /\ IsInjective(found.destinations)
      /\ ToSet(found.destinations) \subseteq {Lookup(inputs[i]) : i \in 1 .. n}
  BY <1>1 DEF Reflects, Good
<1> QED BY <1>4, <1>6, <1>7 DEF found, n

(* A command begins to enqueue what it has found.                          *)
AddsUp(found, requested, skipped) ==
  requested = Len(found.destinations) + found.duplicates + skipped

LEMMA BeginStep ==
  ASSUME CallersOK, NEW c \in Caller, command[c].pc \in {"new", "reading"},
         UNCHANGED <<directoryVars, rows>>,
         NEW found, NEW requested \in Count, NEW skipped \in Count,
         found.destinations \in Seq(Group), IsInjective(found.destinations),
         found.duplicates \in Count,
         AddsUp(found, requested, skipped), Begin(c, found, requested, skipped)
  PROVE  CallersOK'
<1> DEFINE b == command[c]
           d == command'[c]
<1>1. /\ UNCHANGED <<sets, lastId, rows>>
      /\ CallerOK(b, rows[c]) /\ b \in Batch /\ rows[c] \in SUBSET Group
  BY CallerType DEF directoryVars
<1>2. /\ command' \in [Caller -> Batch]
      /\ \A a \in Caller : a # c => command'[a] = command[a]
  <2> DEFINE r == [b EXCEPT !.pc = "enqueuing", !.left = found.destinations,
                            !.requested = requested, !.duplicateTargets = found.duplicates,
                            !.skipped = skipped]
  <2>1. r \in Batch
    BY <1>1 DEF Batch
  <2>2. command' = [command EXCEPT ![c] = r]
    BY DEF Begin
  <2> HIDE DEF r
  <2> QED BY <2>1, <2>2 DEF CallersOK
<1>3. /\ d.pc = "enqueuing" /\ d.left = found.destinations /\ d.requested = requested
      /\ d.duplicateTargets = found.duplicates /\ d.skipped = skipped
      /\ d.queued = b.queued /\ d.duplicateJobs = b.duplicateJobs /\ d.failed = b.failed
  BY DEF CallersOK, Batch, Begin
<1>4. b.queued = 0 /\ b.duplicateJobs = 0 /\ b.failed = 0
  BY <1>1 DEF CallerOK
<1>5. Balanced(d)
  <2> DEFINE size == Len(found.destinations)
             again == found.duplicates
  <2>1. size \in Nat /\ again \in Nat /\ skipped \in Nat /\ requested = size + again + skipped
    BY GroupsFinite DEF Count, AddsUp
  <2>2. requested = size + 0 + 0 + again + 0 + skipped
    <3> HIDE DEF size, again
    <3> QED BY <2>1
  <2> QED BY <1>3, <1>4, <2>2 DEF Balanced
<1>6. rows[c] = {}
  BY <1>1, <1>4, GroupsFinite, FS_EmptySet DEF CallerOK
<1>7. Alone(c)
  BY <1>1, <1>2 DEF Alone, CallersOK
<1>8. CallerOK(d, rows'[c]) /\ ReadingOK(d)
  BY <1>1, <1>3, <1>4, <1>5, <1>6, FS_EmptySet DEF CallerOK, ReadingOK
<1> QED BY <1>7, <1>8, OneCaller
LEMMA SendMultiStep ==
  ASSUME GroupsType, SetsType, CallersOK, NEW c \in Caller, SendMulti(c)
  PROVE  CallersOK'
<1>1. UNCHANGED <<directoryVars, rows>> /\ command[c].pc = "new"
  BY DEF SendMulti, Give
<1>2. PICK inputs \in Inputs :
        LET found == ResolveTargets(inputs) IN
        IF Valid(found) THEN Begin(c, found, Len(inputs), 0) ELSE Abort(c)
  BY DEF SendMulti
<1> DEFINE found == ResolveTargets(inputs)
           n == Len(inputs)
           size == Len(found.destinations)
           issues == found.issues
           duplicates == found.duplicates
<1>3. n \in 0 .. MaxInputs
  BY DirectoryAssumption DEF Inputs, SeqOf
<1>4. /\ found.destinations \in Seq(Group) /\ IsInjective(found.destinations)
      /\ issues \in Nat /\ duplicates \in Nat /\ n = size + duplicates + issues
  BY <1>3, ResolvedType
<1>5. CASE Valid(found) /\ Begin(c, found, n, 0)
  <2>1. issues = 0 /\ size \in Nat
    BY <1>4, <1>5 DEF Valid
  <2>2. /\ n = size + duplicates + 0 /\ duplicates \in Count
        /\ n \in Count /\ 0 \in Count
    <3> HIDE DEF n, size, issues, duplicates
    <3> QED BY <1>3, <1>4, <2>1, GroupsFinite DEF Count
  <2>3. AddsUp(found, n, 0)
    BY <2>2 DEF AddsUp
  <2> HIDE DEF found, n
  <2> QED BY <1>1, <1>4, <1>5, <2>2, <2>3, BeginStep
<1>6. CASE Abort(c)
  BY <1>1, <1>6, PcStep
<1> QED BY <1>2, <1>5, <1>6

(* A list of a set holds each of its members once.                         *)
LEMMA ListType ==
  ASSUME NEW S \in SUBSET Group, NEW list \in SetToSeqs(S)
  PROVE  /\ list \in Seq(S) /\ IsInjective(list) /\ Len(list) = Cardinality(S)
         /\ Len(list) \in Nat /\ \A i \in 1 .. Len(list) : list[i] \in S
<1>1. Cardinality(S) \in Nat
  BY GroupsFinite
<1>2. list \in [1 .. Cardinality(S) -> S]
  BY DEF SetToSeqs
<1> QED BY <1>1, <1>2 DEF SetToSeqs, IsInjective

LEMMA SendAllStep ==
  ASSUME GroupsType, SetsType, CallersOK, NEW c \in Caller, SendAll(c)
  PROVE  CallersOK'
<1>1. UNCHANGED <<directoryVars, rows>> /\ command[c].pc = "new"
  BY DEF SendAll, Give
<1>2. ASSUME NEW list \in SetToSeqs(allowed),
             Begin(c, [Nothing EXCEPT !.destinations = list],
                   Cardinality(Group), Cardinality(Group \ allowed))
      PROVE  CallersOK'
  <2> DEFINE found == [Nothing EXCEPT !.destinations = list]
             all == Cardinality(Group)
             size == Cardinality(allowed)
             others == Cardinality(Group \ allowed)
  <2>1. list \in Seq(Group) /\ IsInjective(list) /\ Len(list) = size
    BY ListType DEF GroupsType
  <2>2. found.destinations = list /\ found.duplicates = 0
    BY DEF Nothing
  <2>3. all \in Nat /\ size \in Nat /\ others \in Nat /\ others <= all
    BY GroupsFinite DEF GroupsType
  <2>4. others = all - size
    <3>1. IsFiniteSet(Group) /\ Group \cap allowed = allowed
      BY DirectoryAssumption DEF GroupsType
    <3> QED BY <3>1, FS_Difference
  <2>5. all = size + 0 + others /\ all \in Count /\ others \in Count /\ 0 \in Count
    <3> HIDE DEF all, size, others
    <3> QED BY <2>3, <2>4, GroupsFinite DEF Count, all
  <2>6. AddsUp(found, all, others)
    BY <2>1, <2>2, <2>5 DEF AddsUp
  <2>7. Begin(c, found, all, others)
    BY <1>2
  <2> HIDE DEF found, all, others
  <2> QED BY <1>1, <2>1, <2>2, <2>5, <2>6, <2>7, BeginStep
<1>3. CASE Abort(c)
  BY <1>1, <1>3, PcStep
<1> QED BY <1>2, <1>3 DEF SendAll

LEMMA SendSetStep ==
  ASSUME GroupsType, SetsType, CallersOK, NEW c \in Caller, SendSet(c)
  PROVE  CallersOK'
<1> DEFINE S == members[command[c].id]
<1>1. /\ UNCHANGED <<directoryVars, rows>> /\ command[c].pc = "reading"
      /\ S \in SUBSET Group
  <2>1. command[c].id \in 1 .. MaxSets
    BY CallerType, DirectoryAssumption DEF SendSet, ReadingOK, SetsType
  <2> QED BY <2>1 DEF SendSet, SetsType
<1>2. PICK list \in SetToSeqs(S) :
        LET found == ResolveTargets(list) IN
        IF found.destinations = <<>> THEN Abort(c)
        ELSE Begin(c, found, Len(list), found.issues)
  BY DEF SendSet
<1> DEFINE found == ResolveTargets(list)
           n == Len(list)
           size == Len(found.destinations)
           issues == found.issues
           duplicates == found.duplicates
<1>3. n \in Nat /\ n <= Cardinality(Group)
  <2> HIDE DEF S
  <2> QED BY <1>1, <1>2, ListType, GroupsFinite
<1>4. /\ found.destinations \in Seq(Group) /\ IsInjective(found.destinations)
      /\ issues \in Nat /\ duplicates \in Nat /\ n = size + duplicates + issues
  BY <1>3, ResolvedType
<1>5. CASE Begin(c, found, n, issues)
  <2>1. size \in Nat
    BY <1>4
  <2>2. /\ n = size + duplicates + issues /\ duplicates \in Count
        /\ n \in Count /\ issues \in Count
    <3> HIDE DEF n, size, issues, duplicates
    <3> QED BY <1>3, <1>4, <2>1, GroupsFinite DEF Count
  <2>3. AddsUp(found, n, issues)
    BY <2>2 DEF AddsUp
  <2> HIDE DEF found, n
  <2> QED BY <1>1, <1>4, <1>5, <2>2, <2>3, BeginStep
<1>6. CASE Abort(c)
  BY <1>1, <1>6, PcStep
<1> QED BY <1>2, <1>5, <1>6
(* A step of one command, and a step of the directory between its steps.   *)
LEMMA CommandStep ==
  ASSUME BulkInv, NEW c \in Caller,
         \/ SendMulti(c) \/ SendAll(c) \/ FindSet(c) \/ SendSet(c) \/ Refuse(c)
         \/ Queue(c) \/ Duplicate(c) \/ Fail(c) \/ Finish(c) \/ Crash(c)
  PROVE  BulkInv'
<1>1. GroupsType /\ AliasType /\ SetsType /\ EditsOK /\ CallersOK
  BY DEF BulkInv, DirectoryInv
<1>2. CallersOK'
  <2>1. CASE SendMulti(c)
    BY <1>1, <2>1, SendMultiStep
  <2>2. CASE SendAll(c)
    BY <1>1, <2>2, SendAllStep
  <2>3. CASE SendSet(c)
    BY <1>1, <2>3, SendSetStep
  <2>4. CASE Queue(c) \/ Duplicate(c) \/ Fail(c)
    BY <1>1, <2>4, CountStep
  <2>5. CASE FindSet(c) \/ Refuse(c) \/ Finish(c) \/ Crash(c)
    BY <1>1, <2>5, PcStep DEF FindSet, Refuse, Finish, Crash, Give
  <2> QED BY <2>1, <2>2, <2>3, <2>4, <2>5
<1>3. GroupsType' /\ UNCHANGED <<alias, sets, lastId, members, edit>>
  <2>1. CASE Queue(c)
    <3>1. Head(command[c].left) \in Group
      BY <1>1, <2>1, CallerType DEF Queue, Enqueuing
    <3> QED BY <1>1, <2>1, <3>1 DEF Queue, GroupsType
  <2>2. CASE UNCHANGED directoryVars
    BY <1>1, <2>2 DEF directoryVars, GroupsType
  <2> QED BY <2>1, <2>2 DEF SendMulti, SendAll, FindSet, SendSet, Refuse, Duplicate, Fail,
                            Finish, Crash, Give
<1>4. DirectoryInv'
  BY <1>1, <1>3 DEF DirectoryInv, AliasType, SetsType, EditsOK, WorkOK
<1> QED BY <1>2, <1>4 DEF BulkInv

LEMMA BetweenSteps ==
  ASSUME BulkInv, DirectoryNext, UNCHANGED <<command, rows>>
  PROVE  BulkInv'
<1>1. DirectoryInv'
  BY DirectoryStep DEF BulkInv
<1>2. ASSUME NEW c \in Caller PROVE ReadingOK(command[c])'
  <2>1. ReadingOK(command[c]) /\ SetsType
    BY CallerType DEF BulkInv, DirectoryInv
  <2>2. /\ lastId' \in Nat /\ lastId <= lastId' /\ lastId \in Nat
        /\ \A s \in SetName : sets'[s] \in {sets[s], 0} \/ sets'[s] > lastId
    BY <2>1, IdsAreNew DEF SetsType
  <2> QED BY <2>1, <2>2 DEF ReadingOK
<1>3. CallersOK'
  BY <1>2 DEF BulkInv, CallersOK, CallerOK, Balanced
<1> QED BY <1>1, <1>3 DEF BulkInv

LEMMA BulkStep == BulkInv /\ [Next]_vars => BulkInv'
<1> SUFFICES ASSUME BulkInv, [Next]_vars PROVE BulkInv'
  OBVIOUS
<1>1. CASE Next
  BY <1>1, CommandStep, BetweenSteps DEF Next
<1>2. CASE UNCHANGED vars
  BY <1>2 DEF vars, directoryVars, BulkInv, DirectoryInv, GroupsType, AliasType, SetsType,
              EditsOK, WorkOK, CallersOK, CallerOK, ReadingOK, Balanced
<1> QED BY <1>1, <1>2

LEMMA BulkInvariant == Spec => []BulkInv
BY BulkBegins, BulkStep, PTL DEF Spec

(* The types, the directory's uniqueness constraints among them: an alias  *)
(* names one group and a set's name has rows of its own.                   *)
THEOREM TypeCorrect == Spec => []TypeOK
<1>1. BulkInv => TypeOK
  BY DirectoryTyped DEF BulkInv, CallersOK, CallerOK, TypeOK
<1> QED BY <1>1, BulkInvariant, PTL

(* Every target is still to come or reported once.                         *)
THEOREM EveryTargetAccounted == Spec => []Accounted
<1>1. BulkInv => Accounted
  BY DEF BulkInv, CallersOK, CallerOK, Balanced, Accounted
<1> QED BY <1>1, BulkInvariant, PTL

(* A batch has at most one job for a group.                                *)
THEOREM SendsOncePerGroup == Spec => []OncePerGroup
<1>1. BulkInv => OncePerGroup
  BY DEF BulkInv, CallersOK, CallerOK, OncePerGroup
<1> QED BY <1>1, BulkInvariant, PTL

(* Who changes the members of a set: its deletion, or one whole change.    *)
WholeChange ==
  \A i \in 1 .. MaxSets : members'[i] # members[i] =>
    \/ \E s \in SetName : sets[s] = i /\ sets'[s] = 0
    \/ \E e \in Editor :
         LET jids == ToSet(edit[e].found) IN
         /\ edit[e].asked = Len(edit[e].found) + edit[e].duplicates
         /\ members'[i] = IF edit[e].op = "add" THEN members[i] \cup jids
                          ELSE members[i] \ jids

LEMMA WritesWhole ==
  ASSUME BulkInv, NEW e \in Editor, WriteMembers(e)
  PROVE  WholeChange
<1> DEFINE w == edit[e]
           id == sets[w.set]
           jids == ToSet(w.found)
<1>1. WorkOK(w) /\ members \in [1 .. MaxSets -> SUBSET Group]
  BY DEF BulkInv, DirectoryInv, EditsOK, SetsType
<1>2. w.op \in {"add", "remove"} /\ w.todo = <<>>
  BY DEF WriteMembers
<1>3. \/ members' = members
      \/ w.op = "add" /\ members' = [members EXCEPT ![id] = @ \cup jids]
      \/ w.op = "remove" /\ members' = [members EXCEPT ![id] = @ \ jids]
  BY DEF WriteMembers
<1>4. w.asked = Len(w.found) + w.duplicates
  <2> DEFINE found == Len(w.found)
             again == w.duplicates
             asked == w.asked
             todo == Len(w.todo)
  <2>1. found \in Nat /\ again \in Nat /\ todo = 0
    BY <1>1, <1>2, DirectoryAssumption DEF WorkOK, Work
  <2>2. asked = todo + found + again
    BY <1>1, <1>2 DEF WorkOK
  <2>3. asked = found + again
    <3> HIDE DEF found, again, asked, todo
    <3> QED BY <2>1, <2>2
  <2> QED BY <2>3
<1>5. ASSUME NEW i \in 1 .. MaxSets, members'[i] # members[i]
      PROVE  members'[i] = IF w.op = "add" THEN members[i] \cup jids ELSE members[i] \ jids
  <2> HIDE DEF id, jids
  <2> QED BY <1>1, <1>3, <1>5
<1> QED BY <1>4, <1>5 DEF WholeChange

(* A set's members change with its deletion, or by every target of one     *)
(* change at once.                                                         *)
THEOREM ChangesAreWhole == Spec => ChangeIsWhole
<1>1. ASSUME BulkInv, [Next]_vars PROVE WholeChange
  <2>1. CASE UNCHANGED members
    BY <2>1 DEF WholeChange
  <2>2. ASSUME NEW s \in SetName, Delete(s) PROVE WholeChange
    BY <1>1, <2>2 DEF Delete, Cascade, BulkInv, DirectoryInv, SetsType, WholeChange
  <2>3. ASSUME NEW e \in Editor, WriteMembers(e) PROVE WholeChange
    BY <1>1, <2>3, WritesWhole
  <2>4. ASSUME NEW c \in Caller,
               \/ SendMulti(c) \/ SendAll(c) \/ FindSet(c) \/ SendSet(c) \/ Refuse(c)
               \/ Queue(c) \/ Duplicate(c) \/ Fail(c) \/ Finish(c) \/ Crash(c)
        PROVE  UNCHANGED members
    BY <2>4 DEF SendMulti, SendAll, FindSet, SendSet, Refuse, Queue, Duplicate, Fail, Finish,
                Crash, Give, directoryVars
  <2>5. ASSUME NEW e \in Editor,
               \/ AskEnabled(e) \/ WriteEnabled(e) \/ AskAlias(e) \/ WriteAlias(e)
               \/ ImportLocal(e) \/ AskChange(e) \/ LookUpNext(e) \/ EditorCrash(e)
        PROVE  UNCHANGED members
    BY <2>5 DEF AskEnabled, WriteEnabled, AskAlias, WriteAlias, ImportLocal, AskChange,
                LookUpNext, EditorCrash
  <2>6. ASSUME NEW g \in Group, Allow(g) \/ Deny(g) \/ Rename(g) \/ Enter(g) \/ Leave(g)
        PROVE  UNCHANGED members
    BY <2>6 DEF Allow, Deny, Rename, Enter, Leave
  <2>7. CASE Refresh
    BY <2>1, <2>7 DEF Refresh
  <2>8. ASSUME NEW s \in SetName, Create(s) PROVE UNCHANGED members
    BY <2>8 DEF Create
  <2>9. CASE UNCHANGED vars
    BY <2>1, <2>9 DEF vars, directoryVars
  <2> QED BY <1>1, <2>1, <2>2, <2>3, <2>4, <2>5, <2>6, <2>7, <2>8, <2>9 DEF Next, DirectoryNext
<1>2. BulkInv /\ [Next]_vars => [WholeChange]_directoryVars
  BY <1>1
<1> QED BY <1>2, BulkInvariant, PTL DEF Spec, ChangeIsWhole, WholeChange

(* What a command that read its set's rows enqueues: members of the set    *)
(* that still has the name.                                                *)
ToItsMembers ==
  \A c \in Caller : command[c].pc = "reading" /\ command'[c].pc = "enqueuing" =>
    LET s == command[c].set IN
    sets[s] # 0 /\ ToSet(command'[c].left) \subseteq members[sets[s]]

LEMMA SendsMembers ==
  ASSUME BulkInv, NEW c \in Caller, SendSet(c), command'[c].pc = "enqueuing"
  PROVE  LET s == command[c].set IN
         sets[s] # 0 /\ ToSet(command'[c].left) \subseteq members[sets[s]]
<1> DEFINE id == command[c].id
           S == members[id]
           s == command[c].set
<1>1. CallersOK /\ SetsType /\ GroupsType
  BY DEF BulkInv, DirectoryInv
<1>2. /\ s \in SetName /\ id \in 1 .. MaxSets /\ S \in SUBSET Group
      /\ \A t \in SetName : sets[t] = id => t = s
  BY <1>1, CallerType, DirectoryAssumption DEF SendSet, ReadingOK, SetsType
<1>3. PICK list \in SetToSeqs(S) :
        LET found == ResolveTargets(list) IN
        IF found.destinations = <<>> THEN Abort(c)
        ELSE Begin(c, found, Len(list), found.issues)
  BY DEF SendSet
<1> DEFINE found == ResolveTargets(list)
           n == Len(list)
<1>4. found.destinations # <<>> /\ command'[c].left = found.destinations
  BY <1>1, <1>3 DEF CallersOK, Batch, Abort, Begin
<1>5. n \in Nat /\ \A i \in 1 .. n : list[i] \in S
  <2> HIDE DEF S
  <2> QED BY <1>2, <1>3, ListType
<1>6. /\ found.destinations \in Seq(Group)
      /\ ToSet(found.destinations) \subseteq {Lookup(list[i]) : i \in 1 .. n}
  BY <1>1, <1>5, ResolvedType
<1>7. {Lookup(list[i]) : i \in 1 .. n} \subseteq S
  <2>1. \A i \in 1 .. n : Lookup(list[i]) = list[i] /\ list[i] \in S
    BY <1>2, <1>5, LookupType
  <2> HIDE DEF S, n
  <2> QED BY <2>1
<1>8. S # {}
  <2>1. found.destinations[1] \in ToSet(found.destinations)
    <3> HIDE DEF found
    <3> QED BY <1>4, <1>6 DEF ToSet
  <2> HIDE DEF S, n, found
  <2> QED BY <1>6, <1>7, <2>1
<1>9. sets[s] = id
  BY <1>1, <1>2, <1>8 DEF SetsType
<1> HIDE DEF found
<1> QED BY <1>2, <1>4, <1>6, <1>7, <1>9

(* sendset sends to members of the set it was asked for.                   *)
THEOREM SetSentToMembers == Spec => SendsToItsMembers
<1>1. ASSUME BulkInv, [Next]_vars PROVE ToItsMembers
  <2> SUFFICES ASSUME NEW c \in Caller, command[c].pc = "reading", command'[c].pc = "enqueuing"
               PROVE  LET s == command[c].set IN
                      sets[s] # 0 /\ ToSet(command'[c].left) \subseteq members[sets[s]]
    BY DEF ToItsMembers
  <2>1. CASE SendSet(c)
    BY <1>1, <2>1, SendsMembers
  <2>2. command[c].pc # command'[c].pc /\ command \in [Caller -> Batch]
    BY <1>1 DEF BulkInv, CallersOK
  <2>3. ASSUME NEW d \in Caller, d # c,
               \/ SendMulti(d) \/ SendAll(d) \/ FindSet(d) \/ SendSet(d) \/ Refuse(d)
               \/ Queue(d) \/ Duplicate(d) \/ Fail(d) \/ Finish(d) \/ Crash(d)
        PROVE  command'[c] = command[c]
    BY <2>2, <2>3 DEF SendMulti, SendAll, FindSet, SendSet, Refuse, Queue, Duplicate, Fail,
                      Finish, Crash, Abort, Begin, Counted
  <2>4. CASE \/ SendMulti(c) \/ SendAll(c) \/ FindSet(c) \/ Refuse(c)
             \/ Queue(c) \/ Duplicate(c) \/ Fail(c) \/ Finish(c) \/ Crash(c)
    BY <2>4 DEF SendMulti, SendAll, FindSet, Refuse, Give, Queue, Duplicate, Fail, Enqueuing,
                Finish, Crash
  <2>5. CASE UNCHANGED <<command, rows>>
    BY <2>2, <2>5
  <2> QED BY <1>1, <2>1, <2>2, <2>3, <2>4, <2>5 DEF Next, vars
<1>2. BulkInv /\ [Next]_vars => [ToItsMembers]_vars
  BY <1>1
<1> QED BY <1>2, BulkInvariant, PTL DEF Spec, SendsToItsMembers, ToItsMembers
=============================================================================
