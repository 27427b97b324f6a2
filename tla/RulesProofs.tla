----------------------------- MODULE RulesProofs -----------------------------
(***************************************************************************)
(* Proofs about the rules engine, for any rules, tokens and variables.     *)
(*                                                                         *)
(* The plan is a record that operators hand on to each other, some of them *)
(* in folds.  What they keep is stated of a record and of the set of       *)
(* tokens M that are being cancelled, whose rules are not yet uninstalled. *)
(* The second half proves what the plan is when propagation is over.       *)
(***************************************************************************)
EXTENDS RulesProperties, SequenceTheorems, FiniteSetTheorems, TLAPS

Constraint == {"guard", "rule"} \X Context

(* Clients specify decisions alone.                                        *)
Specified ==
  {s \in [Variable -> Value \cup {NoValue}] : \A v \in Variable : v \in Decision \/ s[v] = NoValue}

Plan ==
  [tokens : SUBSET Token, active : SUBSET Token, spec : Specified, dom : [Variable -> SUBSET Value],
   alive : SUBSET Context, executed : SUBSET Context, held : [Context -> SUBSET Token],
   network : Seq(Constraint), agenda : SUBSET Constraint]

(* Only what exists is active, in force or waiting.                        *)
Typed(p) ==
  /\ p \in Plan
  /\ p.active \subseteq p.tokens /\ p.executed \subseteq p.alive
  /\ p.agenda \subseteq ToSet(p.network)

(* An instance is of an active token, and in a body that is in force.      *)
Placed(p, M) ==
  \A c \in p.alive :
    /\ Rule[c].master \in p.active \cup M
    /\ Rule[c].parent > 0 => Rule[c].parent \in p.executed

(* A slave is there because of a body that is in force.                    *)
Founded(p) == \A t \in p.tokens : t \in Given \/ \E c \in p.executed : Rule[c].slave = t

(* Who listens exists.                                                     *)
Listening(p) == \A k \in ToSet(p.network) : k[1] = "guard" => k[2] \in p.alive

Good(p, M) == Typed(p) /\ Placed(p, M) /\ Founded(p) /\ Listening(p)

(* Rules wait to be executed only during propagation, and exist meanwhile. *)
Waiting ==
  /\ phase \in {"idle", "propagating", "rules"} /\ changed \in BOOLEAN
  /\ toExecute \in Seq(plan.alive) /\ toUndo \in Seq(Context)
  /\ phase = "idle" => toExecute = << >> /\ toUndo = << >>

Inv == Good(plan, {}) /\ Waiting

(* The loops of the code.                                                  *)
Highest(S)            == Max(S)
KeepOne(k, i, n)      == IF k.from[i] \in k.out THEN n ELSE Append(n, k.from[i])
CreateOne(k, c, p)    == Created(p, c)
InstallOne(k, c, p)   == Installed(p, c)
UninstallOne(k, c, p) == Uninstalled(p, c)

(* What they keep, when they are through with the positions or contexts S. *)
KeptOnly(k, S, n) ==
  /\ n \in Seq(Constraint)
  /\ \A x : x \in ToSet(n) <=> x \notin k.out /\ \E i \in S : x = k.from[i]

CreatedKept(k, S, p) ==
  Good(p, {}) /\ p.active = k.active /\ p.executed = k.executed /\ k.alive \subseteq p.alive

InstalledKept(k, S, p) == Good(p, {}) /\ p.active = k.active

UninstalledKept(k, S, p) ==
  /\ Good(p, {k.master}) /\ p.active \subseteq k.active
  /\ \A c \in S : c \notin p.alive

KeepLoop      == INSTANCE FoldInduction WITH Op <- KeepOne, Pick <- Highest, I <- KeptOnly
CreateLoop    == INSTANCE FoldInduction WITH Op <- CreateOne, Pick <- Highest, I <- CreatedKept
InstallLoop   == INSTANCE FoldInduction WITH Op <- InstallOne, Pick <- Highest, I <- InstalledKept
UninstallLoop == INSTANCE FoldInduction WITH Op <- UninstallOne, Pick <- Highest, I <- UninstalledKept
-----------------------------------------------------------------------------
(* Contexts.                                                               *)

LEMMA Contexts ==
  /\ Context = 1 .. Len(Rule) /\ Len(Rule) \in Nat /\ IsFiniteSet(Context)
  /\ \A c \in Context :
       /\ Rule[c].parent \in Nat /\ Rule[c].master \in Token
       /\ Rule[c].slave \in (Token \ Given) \cup {NoToken}
       /\ Rule[c].restricts \in Variable \cup {NoVariable} /\ Rule[c].onMaster \in BOOLEAN
       /\ Rule[c].parent < c
       /\ Rule[c].parent > 0 => Rule[c].parent \in Context
<1> DEFINE R == [parent : Nat, master : Token, guard : Variable \cup {NoVariable},
                 positive : BOOLEAN, values : SUBSET Value, settled : SUBSET Variable,
                 slave : (Token \ Given) \cup {NoToken}, restricts : Variable \cup {NoVariable},
                 to : SUBSET Value, onMaster : BOOLEAN]
<1>1. Rule \in Seq(R)
  BY RuleAssumption
<1>2. Context = 1 .. Len(Rule) /\ Len(Rule) \in Nat
  <2> HIDE DEF R
  <2>1. QED
    BY <1>1 DEF Context
<1>3. IsFiniteSet(Context)
  BY <1>2, FS_Interval
<1>4. ASSUME NEW c \in Context
      PROVE  /\ Rule[c].parent \in Nat /\ Rule[c].master \in Token
             /\ Rule[c].slave \in (Token \ Given) \cup {NoToken}
             /\ Rule[c].restricts \in Variable \cup {NoVariable} /\ Rule[c].onMaster \in BOOLEAN
  <2>1. Rule[c] \in R
    <3> HIDE DEF R
    <3>1. QED
      BY <1>1, <1>2
  <2>2. QED
    BY <2>1
<1>5. ASSUME NEW c \in Context PROVE Rule[c].parent < c
  BY <1>5, RuleAssumption
<1>6. ASSUME NEW c \in Context, Rule[c].parent > 0 PROVE Rule[c].parent \in Context
  BY <1>2, <1>4, <1>5, <1>6
<1> HIDE DEF R
<1>7. QED
  BY <1>2, <1>3, <1>4, <1>5, <1>6

LEMMA Families ==
  /\ \A c \in Context : Rule[c].parent > 0 => Rule[Rule[c].parent].master = Rule[c].master
  /\ Given \subseteq Token /\ Owner \in [Variable -> Token]
  /\ NoToken \notin Token /\ NoVariable \notin Variable /\ NoValue \notin Value
  BY RuleAssumption

(* What is above a context is what each closed set with its causes has.    *)
LEMMA AboveIs ==
  ASSUME NEW c \in Context
  PROVE  /\ Above[c] \subseteq Context
         /\ \A d \in Context :
              d \in Above[c] <=> \A S \in SUBSET Context : CausesOf(c) \subseteq S /\ Closed(S) => d \in S
  BY DEF Above

LEMMA CausesInContext ==
  ASSUME NEW c \in Context
  PROVE  CausesOf(c) \subseteq Context
  BY Contexts DEF CausesOf

LEMMA CausesAbove ==
  ASSUME NEW c \in Context
  PROVE  CausesOf(c) \subseteq Above[c]
  BY AboveIs, CausesInContext

(* What is above something above a context is above that context.          *)
LEMMA AboveTransitive ==
  ASSUME NEW c \in Context, NEW d \in Above[c]
  PROVE  d \in Context /\ Above[d] \subseteq Above[c]
<1>1. d \in Context
  BY AboveIs
<1>2. ASSUME NEW e \in Above[d], NEW S \in SUBSET Context, CausesOf(c) \subseteq S, Closed(S)
      PROVE  e \in S
  <2>1. d \in S
    BY <1>1, <1>2, AboveIs
  <2>2. CausesOf(d) \subseteq S
    BY <1>2, <2>1 DEF Closed
  <2>3. QED
    BY <1>1, <1>2, <2>2, AboveIs
<1>3. Above[d] \subseteq Context
  BY <1>1, AboveIs
<1>4. QED
  BY <1>1, <1>2, <1>3, AboveIs

LEMMA Extremes ==
  ASSUME NEW n, NEW X, n \in Nat, X \subseteq 1 .. n, X # {}
  PROVE  /\ \E c \in X : \A d \in X : c <= d
         /\ Highest(X) \in X /\ \A d \in X : d <= Highest(X)
<1>1. /\ \E c \in X : \A d \in X : c <= d
      /\ \E c \in X : \A d \in X : c >= d
  BY KeepLoop!Extremes
<1>2. Highest(X) \in X /\ \A d \in X : Highest(X) >= d
  BY <1>1 DEF Highest, Max
<1>3. QED
  BY <1>1, <1>2

(* The body that created a token is above every context of it.             *)
LEMMA CreatorAbove ==
  ASSUME NEW d \in Context, NEW e \in Context, Rule[e].slave = Rule[d].master
  PROVE  e \in Above[d]
<1> DEFINE X == {c \in Context : Rule[c].master = Rule[d].master /\ e \notin Above[c]}
<1>1. SUFFICES ASSUME X # {} PROVE FALSE
  BY DEF X
<1>2. X \subseteq Context
  OBVIOUS
<1>3. PICK c \in X : \A b \in X : c <= b
  <2> HIDE DEF X
  <2>1. QED
    BY <1>1, <1>2, Contexts, Extremes
<1>4. c \in Context /\ Rule[c].master = Rule[d].master /\ e \notin Above[c]
  BY <1>3
<1>5. Rule[c].parent \in Nat /\ Rule[c].parent < c /\ c \in Nat
  BY <1>4, Contexts
<1>6. CASE Rule[c].parent > 0
  <2> DEFINE b == Rule[c].parent
  <2>1. b \in CausesOf(c) /\ b \in Context /\ Rule[b].master = Rule[d].master
    BY <1>4, <1>6, Contexts, Families DEF CausesOf
  <2>2. b \in Above[c]
    BY <1>4, <2>1, CausesAbove
  <2>3. e \notin Above[b]
    BY <1>4, <2>2, AboveTransitive
  <2>4. b \in X
    BY <2>1, <2>3
  <2>5. QED
    BY <1>3, <1>5, <2>4
<1>7. CASE ~(Rule[c].parent > 0)
  <2>1. e \in CausesOf(c)
    BY <1>4, <1>7 DEF CausesOf
  <2>2. QED
    BY <1>4, <2>1, CausesAbove
<1>8. QED
  BY <1>6, <1>7
-----------------------------------------------------------------------------
(* Sequences of constraints.                                               *)

LEMMA Elements ==
  /\ ToSet(<< >>) = {}
  /\ \A n \in Seq(Constraint) :
       /\ \A x : x \in ToSet(n) <=> \E i \in 1 .. Len(n) : x = n[i]
       /\ ToSet(n) \subseteq Constraint
       /\ \A k \in Constraint :
            /\ Append(n, k) \in Seq(Constraint)
            /\ \A x : x \in ToSet(Append(n, k)) <=> x \in ToSet(n) \/ x = k
<1>1. ToSet(<< >>) = {}
  BY DEF ToSet
<1>2. ASSUME NEW n \in Seq(Constraint)
      PROVE  /\ \A x : x \in ToSet(n) <=> \E i \in 1 .. Len(n) : x = n[i]
             /\ ToSet(n) \subseteq Constraint
  BY DEF ToSet
<1>3. ASSUME NEW n \in Seq(Constraint), NEW k \in Constraint, NEW x
      PROVE  /\ Append(n, k) \in Seq(Constraint)
             /\ x \in ToSet(Append(n, k)) <=> x \in ToSet(n) \/ x = k
  <2> DEFINE m == Append(n, k)
  <2>1. /\ m \in Seq(Constraint) /\ Len(m) = Len(n) + 1 /\ Len(n) \in Nat
        /\ m[Len(n) + 1] = k /\ \A i \in 1 .. Len(n) : m[i] = n[i]
    OBVIOUS
  <2> HIDE DEF m
  <2>2. x \in ToSet(m) <=> \E i \in 1 .. Len(n) + 1 : x = m[i]
    BY <1>2, <2>1
  <2>3. (\E i \in 1 .. Len(n) + 1 : x = m[i]) <=> x = k \/ \E i \in 1 .. Len(n) : x = n[i]
    <3>1. \A i \in 1 .. Len(n) + 1 : i = Len(n) + 1 \/ i \in 1 .. Len(n)
      BY <2>1
    <3>2. Len(n) + 1 \in 1 .. Len(n) + 1 /\ \A i \in 1 .. Len(n) : i \in 1 .. Len(n) + 1
      BY <2>1
    <3>3. QED
      BY <2>1, <3>1, <3>2
  <2>4. QED
    BY <1>2, <2>1, <2>2, <2>3 DEF m
<1>4. QED
  BY <1>1, <1>2, <1>3

(* What Without leaves of the network.                                     *)
Remaining(n, out) == FoldLeft(LAMBDA m, k : IF k \in out THEN m ELSE Append(m, k), << >>, n)

LEMMA Remains ==
  ASSUME NEW n, NEW out, n \in Seq(Constraint)
  PROVE  /\ Remaining(n, out) \in Seq(Constraint)
         /\ \A x : x \in ToSet(Remaining(n, out)) <=> x \in ToSet(n) /\ x \notin out
<1> DEFINE k == [from |-> n, out |-> out]
           S == DOMAIN n
           e == << >>
           r == Remaining(n, out)
<1>1. r = KeepLoop!Fold(k, e, S)
  BY DEF Remaining, FoldLeft, KeepLoop!Fold, KeepLoop!MapThenFoldSet, MapThenFoldSet, KeepOne, Highest
<1>2. k.from = n /\ k.out = out
  OBVIOUS
<1>3. S = 1 .. Len(n) /\ Len(n) \in Nat /\ \A i \in S : n[i] \in Constraint
  OBVIOUS
<1>4. KeepLoop!IsFiniteSet(S)
  <2>1. IsFiniteSet(S)
    BY <1>3, FS_Interval
  <2>2. QED
    BY <2>1, Zenon DEF KeepLoop!IsFiniteSet, IsFiniteSet
<1>5. \A T \in SUBSET S : T # {} => Highest(T) \in T
  BY <1>3, Extremes
<1>6. e \in Seq(Constraint) /\ ToSet(e) = {}
  BY Elements
<1> HIDE DEF k, S, e, r
<1>7. KeepLoop!Picks(S)
  BY <1>5 DEF KeepLoop!Picks
<1>8. KeptOnly(k, {}, e)
  BY <1>2, <1>6 DEF KeptOnly
<1>9. ASSUME NEW T \in SUBSET S, NEW m, T # {}, KeptOnly(k, T \ {Highest(T)}, m)
      PROVE  KeptOnly(k, T, KeepOne(k, Highest(T), m))
  <2> DEFINE i == Highest(T)
  <2>1. i \in T /\ i \in S /\ n[i] \in Constraint
    BY <1>3, <1>5, <1>9
  <2>2. /\ m \in Seq(Constraint)
        /\ \A x : x \in ToSet(m) <=> x \notin out /\ \E j \in T \ {i} : x = n[j]
    BY <1>2, <1>9 DEF KeptOnly
  <2> HIDE DEF i
  <2>3. /\ n[i] \in out => KeepOne(k, i, m) = m
        /\ n[i] \notin out => KeepOne(k, i, m) = Append(m, n[i])
    BY <1>2 DEF KeepOne
  <2>4. \A x : (\E j \in T : x = n[j]) <=> x = n[i] \/ \E j \in T \ {i} : x = n[j]
    BY <2>1
  <2>5. CASE n[i] \in out
    BY <1>2, <2>2, <2>3, <2>4, <2>5 DEF KeptOnly, i
  <2>6. CASE n[i] \notin out
    <3> DEFINE q == Append(m, n[i])
    <3>1. q \in Seq(Constraint) /\ \A x : x \in ToSet(q) <=> x \in ToSet(m) \/ x = n[i]
      BY <2>1, <2>2, Elements
    <3> HIDE DEF q
    <3>2. KeptOnly(k, T, q)
      BY <1>2, <2>2, <2>4, <2>6, <3>1 DEF KeptOnly
    <3>3. QED
      BY <2>3, <2>6, <3>2 DEF q, i
  <2>7. QED
    BY <2>5, <2>6
<1>10. KeptOnly(k, S, KeepLoop!Fold(k, e, S))
  BY ONLY <1>4, <1>7, <1>8, <1>9, KeepLoop!FoldKeeps
<1>11. \A x : x \in ToSet(n) <=> \E i \in S : x = n[i]
  BY <1>3, Elements
<1>12. r \in Seq(Constraint) /\ \A x : x \in ToSet(r) <=> x \notin out /\ \E i \in S : x = n[i]
  BY <1>1, <1>2, <1>10 DEF KeptOnly
<1>13. QED
  BY <1>11, <1>12 DEF r
-----------------------------------------------------------------------------
(* Single changes of the plan.                                             *)

LEMMA Fields ==
  ASSUME NEW p, p \in Plan
  PROVE  /\ p.tokens \in SUBSET Token /\ p.active \in SUBSET Token
         /\ p.spec \in Specified /\ p.spec \in [Variable -> Value \cup {NoValue}]
         /\ p.dom \in [Variable -> SUBSET Value]
         /\ p.alive \in SUBSET Context /\ p.executed \in SUBSET Context
         /\ p.held \in [Context -> SUBSET Token]
         /\ p.network \in Seq(Constraint) /\ p.agenda \in SUBSET Constraint
         /\ ToSet(p.network) \subseteq Constraint
<1>1. p.spec \in Specified
  BY DEF Plan
<1>2. p.spec \in [Variable -> Value \cup {NoValue}]
  BY <1>1 DEF Specified
<1>3. QED
  BY <1>1, <1>2, Elements DEF Plan

(* The parts of a plan that say why things are in force.                   *)
Same(p, q) ==
  q.tokens = p.tokens /\ q.active = p.active /\ q.alive = p.alive /\ q.executed = p.executed

LEMMA PostedKeeps ==
  ASSUME NEW p, NEW M, NEW k, Good(p, M), k \in Constraint,
         k[1] = "guard" => k[2] \in p.alive
  PROVE  Good(Posted(p, k), M) /\ Same(p, Posted(p, k))
<1> DEFINE n == IF k \in ToSet(p.network) THEN p.network ELSE Append(p.network, k)
           a == p.agenda \cup {k}
           q == Posted(p, k)
<1>1. p \in Plan
  BY DEF Good, Typed
<1>2. n \in Seq(Constraint) /\ \A x : x \in ToSet(n) <=> x \in ToSet(p.network) \/ x = k
  <2>1. p.network \in Seq(Constraint)
    BY <1>1, Fields
  <2>2. CASE k \in ToSet(p.network)
    BY <2>1, <2>2
  <2>3. CASE k \notin ToSet(p.network)
    <3> DEFINE m == Append(p.network, k)
    <3>1. m \in Seq(Constraint) /\ \A x : x \in ToSet(m) <=> x \in ToSet(p.network) \/ x = k
      BY <2>1, Elements
    <3>2. n = m
      BY <2>3
    <3> HIDE DEF m, n
    <3>3. QED
      BY <3>1, <3>2
  <2>4. QED
    BY <2>2, <2>3
<1>3. a \in SUBSET Constraint /\ \A x : x \in a <=> x \in p.agenda \/ x = k
  BY <1>1, Fields
<1>4. q = [p EXCEPT !.network = n, !.agenda = a]
  BY DEF Posted
<1> HIDE DEF n, a, q
<1>5. q \in Plan
  BY <1>1, <1>2, <1>3, <1>4 DEF Plan
<1>6. q.network = n /\ q.agenda = a /\ Same(p, q)
  BY <1>1, <1>4 DEF Plan, Same
<1>7. Typed(q)
  BY <1>2, <1>3, <1>5, <1>6 DEF Good, Typed, Same
<1>8. Placed(q, M) /\ Founded(q)
  BY <1>6 DEF Good, Placed, Founded, Same
<1>9. Listening(q)
  BY <1>2, <1>6 DEF Good, Listening, Same
<1>10. QED
  BY <1>6, <1>7, <1>8, <1>9 DEF Good, q

(* An instance with its listener, of an active token and in a body that is *)
(* in force.                                                               *)
LEMMA CreatedKeeps ==
  ASSUME NEW p, NEW M, NEW c, Good(p, M), c \in Context, Rule[c].master \in p.active \cup M,
         Rule[c].parent > 0 => Rule[c].parent \in p.executed
  PROVE  LET q == Created(p, c)
         IN  /\ Good(q, M) /\ q.alive = p.alive \cup {c}
             /\ q.tokens = p.tokens /\ q.active = p.active /\ q.executed = p.executed
<1> DEFINE a == p.alive \cup {c}
           q == [p EXCEPT !.alive = a]
           k == <<"guard", c>>
<1>1. p \in Plan
  BY DEF Good, Typed
<1>2. a \in SUBSET Context /\ \A d : d \in a <=> d \in p.alive \/ d = c
  BY <1>1, Fields
<1>3. k \in Constraint /\ k[1] = "guard" /\ k[2] = c
  BY DEF Constraint
<1>4. /\ Guarded(c) => Created(p, c) = Posted(q, k)
      /\ ~Guarded(c) => Created(p, c) = q
  BY DEF Created
<1> HIDE DEF a
<1>5. /\ q \in Plan /\ q.alive = a
      /\ q.tokens = p.tokens /\ q.active = p.active /\ q.executed = p.executed
      /\ q.network = p.network /\ q.agenda = p.agenda
  BY <1>1, <1>2 DEF Plan
<1> HIDE DEF q, k
<1>6. Good(q, M)
  <2>1. Typed(q)
    BY <1>2, <1>5 DEF Good, Typed
  <2>2. Placed(q, M)
    BY <1>2, <1>5 DEF Good, Placed
  <2>3. Founded(q) /\ Listening(q)
    BY <1>2, <1>5 DEF Good, Founded, Listening
  <2>4. QED
    BY <2>1, <2>2, <2>3 DEF Good
<1>7. CASE Guarded(c)
  <2>1. k[1] = "guard" => k[2] \in q.alive
    BY <1>2, <1>3, <1>5
  <2>2. Good(Posted(q, k), M) /\ Same(q, Posted(q, k))
    BY <1>3, <1>6, <2>1, PostedKeeps
  <2>3. QED
    BY <1>4, <1>5, <1>7, <2>2 DEF Same, a
<1>8. CASE ~Guarded(c)
  BY <1>4, <1>5, <1>6, <1>8 DEF a
<1>9. QED
  BY <1>7, <1>8
-----------------------------------------------------------------------------
(* What goes, and what goes with it.                                       *)

LEMMA OnNetwork ==
  ASSUME NEW p, NEW vs
  PROVE  On(p, vs) \subseteq ToSet(p.network)
  BY DEF On

LEMMA RelaxedKeeps ==
  ASSUME NEW p, NEW vs, p \in Plan, p.agenda \subseteq ToSet(p.network)
  PROVE  LET q == Relaxed(p, vs)
         IN  /\ q \in Plan /\ Same(p, q) /\ q.network = p.network
             /\ q.held = p.held /\ q.agenda \subseteq ToSet(q.network)
<1> DEFINE d == [v \in Variable |-> IF v \in vs THEN Unfiltered(p, v) ELSE p.dom[v]]
           a == p.agenda \cup On(p, vs)
           q == Relaxed(p, vs)
<1>1. d \in [Variable -> SUBSET Value]
  <2>1. ASSUME NEW v \in Variable PROVE Unfiltered(p, v) \in SUBSET Value
    <3>1. p.spec[v] \in Value \cup {NoValue}
      BY Fields
    <3>2. QED
      BY <3>1 DEF Unfiltered
  <2>2. \A v \in Variable : p.dom[v] \in SUBSET Value
    BY Fields
  <2>3. QED
    BY <2>1, <2>2
<1>2. a \in SUBSET Constraint /\ a \subseteq ToSet(p.network)
  BY OnNetwork, Fields
<1>3. q = [p EXCEPT !.dom = d, !.agenda = a]
  BY DEF Relaxed
<1> HIDE DEF d, a, q
<1>4. q \in Plan /\ Same(p, q) /\ q.network = p.network /\ q.held = p.held /\ q.agenda = a
  BY <1>1, <1>2, <1>3 DEF Plan, Same
<1>5. QED
  BY <1>2, <1>4 DEF q

(* Tokens go with what is on their variables, and constraints.             *)
LEMMA WithoutKeeps ==
  ASSUME NEW p, NEW ts, NEW ks, Typed(p)
  PROVE  LET q == Without(p, ts, ks)
         IN  /\ Typed(q) /\ q.alive = p.alive /\ q.executed = p.executed
             /\ \A t : t \in q.tokens <=> t \in p.tokens /\ t \notin ts
             /\ \A t : t \in q.active <=> t \in p.active /\ t \notin ts
             /\ \A k \in ToSet(q.network) : k \in ToSet(p.network) /\ k \notin ks
<1> DEFINE vs == {v \in Variable : Owner[v] \in ts}
           out == ks \cup On(p, vs)
           n == Remaining(p.network, out)
           a == p.agenda \ out
           left == p.tokens \ ts
           act == p.active \ ts
           sp == [v \in Variable |-> IF v \in vs THEN NoValue ELSE p.spec[v]]
           loose == vs \cup {Rule[k[2]].restricts : k \in {k \in out : k[1] = "rule"}}
           r == [p EXCEPT !.network = n, !.agenda = a, !.tokens = left, !.active = act, !.spec = sp]
           q == Without(p, ts, ks)
<1>1. p \in Plan /\ p.active \subseteq p.tokens /\ p.executed \subseteq p.alive
      /\ p.agenda \subseteq ToSet(p.network)
  BY DEF Typed
<1>2. /\ left \in SUBSET Token /\ act \in SUBSET Token /\ act \subseteq left
      /\ \A t : t \in left <=> t \in p.tokens /\ t \notin ts
      /\ \A t : t \in act <=> t \in p.active /\ t \notin ts
  BY <1>1, Fields
<1>3. sp \in Specified
  <2>1. p.spec \in Specified /\ p.spec \in [Variable -> Value \cup {NoValue}]
    BY <1>1, Fields
  <2>2. QED
    BY <2>1 DEF Specified
<1>4. \A k \in ks : k \in out
  OBVIOUS
<1>5. n \in Seq(Constraint) /\ \A x : x \in ToSet(n) <=> x \in ToSet(p.network) /\ x \notin out
  <2>1. p.network \in Seq(Constraint)
    BY <1>1, Fields
  <2> HIDE DEF out
  <2>2. QED
    BY <2>1, Remains
<1>6. a \in SUBSET Constraint /\ \A k \in a : k \in p.agenda /\ k \notin out
  BY <1>1, Fields
<1>7. q = Relaxed(r, loose)
  BY DEF Without, Remaining
<1> HIDE DEF vs, out, n, a, left, act, sp, loose
<1>8. /\ r \in Plan /\ r.network = n /\ r.agenda = a /\ r.tokens = left /\ r.active = act
      /\ r.alive = p.alive /\ r.executed = p.executed
  BY <1>1, <1>2, <1>3, <1>5, <1>6 DEF Plan
<1> HIDE DEF r, q
<1>9. r.agenda \subseteq ToSet(r.network)
  BY <1>1, <1>5, <1>6, <1>8
<1>10. /\ q \in Plan /\ Same(r, q) /\ q.network = r.network /\ q.agenda \subseteq ToSet(q.network)
  BY <1>7, <1>8, <1>9, RelaxedKeeps
<1>11. Typed(q)
  BY <1>1, <1>2, <1>8, <1>10 DEF Typed, Same
<1>12. \A k \in ToSet(q.network) : k \in ToSet(p.network) /\ k \notin ks
  BY <1>4, <1>5, <1>8, <1>10
<1>13. QED
  BY <1>2, <1>8, <1>10, <1>11, <1>12 DEF Same, q

(* A body is undone with all that is there because of it, and with nothing *)
(* that the rest depends on.                                               *)
LEMMA UndoneKeeps ==
  ASSUME NEW p, NEW M, NEW c, Good(p, M), c \in Context
  PROVE  LET q == Undone(p, c)
         IN  /\ Good(q, M) /\ c \notin q.executed
             /\ q.alive \subseteq p.alive /\ q.active \subseteq p.active
<1> DEFINE gone == {d \in p.alive : c \in Above[d]}
           bodies == gone \cup {c}
           lost == {t \in p.tokens : \E d \in bodies : Rule[d].slave = t}
           removed == {k \in ToSet(p.network) :
                         \/ k[1] = "guard" /\ k[2] \in gone
                         \/ k[1] = "rule" /\ k[2] \in bodies /\ Rule[k[2]].onMaster}
           al == p.alive \ gone
           ex == p.executed \ bodies
           r == Without(p, lost, removed)
           h == [d \in Context |-> IF d \in bodies THEN {} ELSE r.held[d]]
           q == Undone(p, c)
<1>1. Typed(p) /\ p \in Plan /\ p.executed \subseteq p.alive /\ p.alive \subseteq Context
  BY Fields DEF Good, Typed
<1>2. /\ \A d : d \in gone <=> d \in p.alive /\ c \in Above[d]
      /\ \A d : d \in bodies <=> d \in gone \/ d = c
      /\ \A t : t \in lost <=> t \in p.tokens /\ \E d \in bodies : Rule[d].slave = t
      /\ \A d : d \in al <=> d \in p.alive /\ d \notin gone
      /\ \A d : d \in ex <=> d \in p.executed /\ d \notin bodies
      /\ \A k \in ToSet(p.network) : k[1] = "guard" /\ k[2] \in gone => k \in removed
  OBVIOUS
<1>3. q = [r EXCEPT !.alive = al, !.executed = ex, !.held = h]
  <2>1. r.alive = p.alive /\ r.executed = p.executed
    BY <1>1, WithoutKeeps
  <2>2. q = [r EXCEPT !.alive = r.alive \ gone, !.executed = r.executed \ bodies, !.held = h]
    BY Zenon DEF Undone
  <2>3. QED
    BY <2>1, <2>2
<1> HIDE DEF gone, bodies, lost, removed, al, ex, q
<1>4. /\ Typed(r) /\ r.alive = p.alive /\ r.executed = p.executed
      /\ \A t : t \in r.tokens <=> t \in p.tokens /\ t \notin lost
      /\ \A t : t \in r.active <=> t \in p.active /\ t \notin lost
      /\ \A k \in ToSet(r.network) : k \in ToSet(p.network) /\ k \notin removed
  BY <1>1, WithoutKeeps
<1> HIDE DEF r
<1>5. h \in [Context -> SUBSET Token]
  <2>1. r.held \in [Context -> SUBSET Token]
    BY <1>4, Fields DEF Typed
  <2>2. QED
    BY <2>1
<1> HIDE DEF h
<1>6. /\ q \in Plan /\ q.alive = al /\ q.executed = ex
      /\ q.tokens = r.tokens /\ q.active = r.active /\ q.network = r.network /\ q.agenda = r.agenda
  BY <1>1, <1>2, <1>3, <1>4, <1>5 DEF Plan, Typed
<1>7. Typed(q)
  BY <1>1, <1>2, <1>4, <1>6 DEF Typed
<1>8. ASSUME NEW d \in q.alive
      PROVE  /\ Rule[d].master \in q.active \cup M
             /\ Rule[d].parent > 0 => Rule[d].parent \in q.executed
  <2>1. d \in p.alive /\ d \in Context /\ c \notin Above[d]
    BY <1>1, <1>2, <1>6
  <2>2. \A e \in bodies : e \in Context /\ e \notin Above[d]
    <3>1. ASSUME NEW e \in gone PROVE e \in Context /\ e \notin Above[d]
      BY <1>1, <1>2, <2>1, AboveTransitive
    <3>2. QED
      BY <1>2, <2>1, <3>1
  <2>3. Rule[d].master \notin lost
    BY <1>2, <2>1, <2>2, CreatorAbove
  <2>4. Rule[d].master \in p.active \cup M
    BY <2>1 DEF Good, Placed
  <2>5. ASSUME Rule[d].parent > 0 PROVE Rule[d].parent \in q.executed
    <3>1. Rule[d].parent \in p.executed
      BY <2>1, <2>5 DEF Good, Placed
    <3>2. Rule[d].parent \in Above[d]
      BY <2>1, <2>5, CausesAbove DEF CausesOf
    <3>3. QED
      BY <1>2, <1>6, <2>2, <3>1, <3>2
  <2>6. QED
    BY <1>4, <1>6, <2>3, <2>4, <2>5
<1>9. ASSUME NEW t \in q.tokens, t \notin Given
      PROVE  \E e \in q.executed : Rule[e].slave = t
  <2>1. t \in p.tokens /\ t \notin lost
    BY <1>4, <1>6, <1>9
  <2>2. PICK e \in p.executed : Rule[e].slave = t
    BY <1>9, <2>1 DEF Good, Founded
  <2>3. QED
    BY <1>2, <1>6, <2>1, <2>2
<1>10. ASSUME NEW k \in ToSet(q.network), k[1] = "guard" PROVE k[2] \in q.alive
  <2>1. k \in ToSet(p.network) /\ k \notin removed
    BY <1>4, <1>6
  <2>2. k[2] \in p.alive
    BY <1>10, <2>1 DEF Good, Listening
  <2>3. QED
    BY <1>2, <1>6, <1>10, <2>1, <2>2
<1>11. Good(q, M)
  BY <1>7, <1>8, <1>9, <1>10 DEF Good, Placed, Founded, Listening
<1>12. c \notin q.executed /\ q.alive \subseteq p.alive /\ q.active \subseteq p.active
  BY <1>2, <1>4, <1>6
<1>13. QED
  BY <1>11, <1>12 DEF q
-----------------------------------------------------------------------------
(* Loops over contexts.                                                    *)

LEMMA SomeContexts ==
  ASSUME NEW C, C \subseteq Context
  PROVE  IsFiniteSet(C) /\ \A T \in SUBSET C : T # {} => Highest(T) \in T
<1>1. IsFiniteSet(C)
  BY Contexts, FS_Subset
<1>2. ASSUME NEW T \in SUBSET C, T # {} PROVE Highest(T) \in T
  BY <1>2, Contexts, Extremes
<1>3. QED
  BY <1>1, <1>2

LEMMA ConditionalsKeep ==
  ASSUME NEW p, NEW C, Good(p, {}), C \subseteq Context,
         \A c \in C : Rule[c].master \in p.active /\ Rule[c].parent \in p.executed
  PROVE  LET q == InOrder(Created, p, C)
         IN  /\ Good(q, {}) /\ q.active = p.active
             /\ q.executed = p.executed /\ p.alive \subseteq q.alive
<1>1. InOrder(Created, p, C) = CreateLoop!Fold(p, p, C)
  BY DEF InOrder, CreateLoop!Fold, CreateLoop!MapThenFoldSet, MapThenFoldSet, CreateOne, Highest
<1>2. CreateLoop!IsFiniteSet(C) /\ CreateLoop!Picks(C)
  <2>1. IsFiniteSet(C)
    BY SomeContexts
  <2>2. CreateLoop!IsFiniteSet(C)
    BY <2>1, Zenon DEF CreateLoop!IsFiniteSet, IsFiniteSet
  <2>3. QED
    BY <2>2, SomeContexts DEF CreateLoop!Picks
<1>3. CreatedKept(p, {}, p)
  BY DEF CreatedKept
<1>4. ASSUME NEW T \in SUBSET C, NEW q, T # {}, CreatedKept(p, T \ {Highest(T)}, q)
      PROVE  CreatedKept(p, T, CreateOne(p, Highest(T), q))
  <2> DEFINE c == Highest(T)
             r == Created(q, c)
  <2>1. c \in C /\ c \in Context
    BY <1>4, SomeContexts
  <2>2. Good(q, {}) /\ q.active = p.active /\ q.executed = p.executed /\ p.alive \subseteq q.alive
    BY <1>4 DEF CreatedKept
  <2> HIDE DEF c
  <2>3. Rule[c].master \in q.active \cup {} /\ Rule[c].parent \in q.executed
    BY <2>1, <2>2
  <2>4. /\ Good(r, {}) /\ r.alive = q.alive \cup {c}
        /\ r.active = q.active /\ r.executed = q.executed
    BY <2>1, <2>2, <2>3, CreatedKeeps
  <2> HIDE DEF r
  <2>5. CreatedKept(p, T, r)
    BY <2>2, <2>4 DEF CreatedKept
  <2>6. QED
    BY <2>5 DEF CreateOne, r, c
<1>5. CreatedKept(p, C, CreateLoop!Fold(p, p, C))
  BY ONLY <1>2, <1>3, <1>4, CreateLoop!FoldKeeps
<1>6. QED
  BY <1>1, <1>5 DEF CreatedKept

(* A body is executed: slave, constraint and conditionals.                 *)
LEMMA ExecutedKeeps ==
  ASSUME NEW p, NEW c, Good(p, {}), c \in p.alive
  PROVE  LET q == Executed(p, c)
         IN  Good(q, {}) /\ q.active = p.active /\ p.alive \subseteq q.alive
<1> DEFINE new == {Rule[c].slave} \ {NoToken}
           ex == p.executed \cup {c}
           h == [p.held EXCEPT ![c] = new]
           ts == p.tokens \cup new
           r == [p EXCEPT !.executed = ex, !.held = h, !.tokens = ts]
           k == <<"rule", c>>
           s == IF Rule[c].restricts = NoVariable THEN r ELSE Posted(r, k)
           C == {d \in Context : Rule[d].parent = c}
           q == Executed(p, c)
<1>1. /\ p \in Plan /\ p.active \subseteq p.tokens /\ p.executed \subseteq p.alive
      /\ p.agenda \subseteq ToSet(p.network) /\ c \in Context
  BY Fields DEF Good, Typed
<1>2. /\ new \in SUBSET Token /\ \A t \in new : t = Rule[c].slave
  BY <1>1, Contexts
<1>3. /\ ex \in SUBSET Context /\ ex \subseteq p.alive /\ c \in ex /\ p.executed \subseteq ex
  BY <1>1, Fields
<1> HIDE DEF new, ex
<1>4. /\ ts \in SUBSET Token /\ \A t : t \in ts <=> t \in p.tokens \/ t \in new
  BY <1>1, <1>2, Fields
<1>5. h \in [Context -> SUBSET Token]
  <2>1. p.held \in [Context -> SUBSET Token]
    BY <1>1, Fields
  <2>2. QED
    BY <1>2, <2>1
<1>6. q = InOrder(Created, s, C)
  BY DEF Executed, new, ex
<1> HIDE DEF ts, h
<1>7. /\ r \in Plan /\ r.executed = ex /\ r.tokens = ts
      /\ r.active = p.active /\ r.alive = p.alive /\ r.network = p.network /\ r.agenda = p.agenda
  BY <1>1, <1>3, <1>4, <1>5 DEF Plan
<1> HIDE DEF r
<1>8. Good(r, {})
  <2>1. Typed(r)
    BY <1>1, <1>3, <1>4, <1>7 DEF Typed
  <2>2. Placed(r, {})
    BY <1>3, <1>7 DEF Good, Placed
  <2>3. Founded(r)
    BY <1>2, <1>3, <1>4, <1>7 DEF Good, Founded
  <2>4. Listening(r)
    BY <1>7 DEF Good, Listening
  <2>5. QED
    BY <2>1, <2>2, <2>3, <2>4 DEF Good
<1>9. k \in Constraint /\ k[1] # "guard"
  BY <1>1 DEF Constraint
<1> HIDE DEF k
<1>10. Good(s, {}) /\ Same(r, s)
  <2>1. Good(Posted(r, k), {}) /\ Same(r, Posted(r, k))
    BY <1>8, <1>9, PostedKeeps
  <2>2. Same(r, r)
    BY DEF Same
  <2>3. QED
    BY <1>8, <2>1, <2>2
<1> HIDE DEF s
<1>11. ASSUME NEW d \in C PROVE Rule[d].master \in s.active /\ Rule[d].parent \in s.executed
  <2>1. d \in Context /\ Rule[d].parent = c /\ c \in 1 .. Len(Rule) /\ Len(Rule) \in Nat
    BY <1>1, Contexts
  <2>2. Rule[d].master = Rule[c].master
    <3>1. Rule[d].parent > 0
      BY <2>1
    <3>2. QED
      BY <2>1, <3>1, Families
  <2>3. Rule[c].master \in p.active
    BY DEF Good, Placed
  <2>4. QED
    BY <1>3, <1>7, <1>10, <2>1, <2>2, <2>3 DEF Same
<1>12. C \subseteq Context
  OBVIOUS
<1> HIDE DEF C
<1>13. LET x == InOrder(Created, s, C)
       IN  Good(x, {}) /\ x.active = s.active /\ s.alive \subseteq x.alive
  BY <1>10, <1>11, <1>12, ConditionalsKeep
<1>14. Good(q, {}) /\ q.active = s.active /\ s.alive \subseteq q.alive
  BY <1>6, <1>13
<1> HIDE DEF q
<1>15. QED
  BY <1>7, <1>10, <1>14 DEF Same, q

(* The rules of a token that is activated.                                 *)
LEMMA InstalledKeeps ==
  ASSUME NEW p, NEW t, Good(p, {}), t \in p.active
  PROVE  Good(InOrder(Installed, p, RootsOf(t)), {})
<1> DEFINE C == RootsOf(t)
<1>1. \A c \in C : c \in Context /\ Rule[c].parent = 0 /\ Rule[c].master = t
  BY DEF RootsOf, Roots
<1>2. InOrder(Installed, p, C) = InstallLoop!Fold(p, p, C)
  BY DEF InOrder, InstallLoop!Fold, InstallLoop!MapThenFoldSet, MapThenFoldSet, InstallOne, Highest
<1> HIDE DEF C
<1>3. InstallLoop!IsFiniteSet(C) /\ InstallLoop!Picks(C)
  <2>1. IsFiniteSet(C)
    BY <1>1, SomeContexts
  <2>2. InstallLoop!IsFiniteSet(C)
    BY <2>1, Zenon DEF InstallLoop!IsFiniteSet, IsFiniteSet
  <2>3. QED
    BY <1>1, <2>2, SomeContexts DEF InstallLoop!Picks
<1>4. InstalledKept(p, {}, p)
  BY DEF InstalledKept
<1>5. ASSUME NEW T \in SUBSET C, NEW q, T # {}, InstalledKept(p, T \ {Highest(T)}, q)
      PROVE  InstalledKept(p, T, InstallOne(p, Highest(T), q))
  <2> DEFINE c == Highest(T)
             r == Created(q, c)
             s == Executed(r, c)
  <2>1. c \in C /\ c \in Context
    BY <1>1, <1>5, SomeContexts
  <2>2. Good(q, {}) /\ q.active = p.active
    BY <1>5 DEF InstalledKept
  <2> HIDE DEF c
  <2>3. /\ Rule[c].master \in q.active \cup {}
        /\ Rule[c].parent > 0 => Rule[c].parent \in q.executed
    BY <1>1, <2>1, <2>2
  <2>4. Good(r, {}) /\ r.alive = q.alive \cup {c} /\ r.active = q.active
    BY ONLY <2>1, <2>2, <2>3, CreatedKeeps
  <2> HIDE DEF r
  <2>5. c \in r.alive
    BY <2>4
  <2>6. Good(s, {}) /\ s.active = r.active
    BY <2>4, <2>5, ExecutedKeeps
  <2> HIDE DEF s
  <2>7. InstalledKept(p, T, r) /\ InstalledKept(p, T, s)
    BY <2>2, <2>4, <2>6 DEF InstalledKept
  <2>8. InstallOne(p, c, q) = r \/ InstallOne(p, c, q) = s
    BY DEF InstallOne, Installed, r, s
  <2>9. QED
    BY <2>7, <2>8 DEF c
<1>6. InstalledKept(p, C, InstallLoop!Fold(p, p, C))
  BY ONLY <1>3, <1>4, <1>5, InstallLoop!FoldKeeps
<1>7. QED
  BY <1>2, <1>6 DEF InstalledKept, C

(* An instance goes, with its body.                                        *)
LEMMA UninstalledKeeps ==
  ASSUME NEW p, NEW M, NEW c, Good(p, M), c \in Context
  PROVE  LET q == Uninstalled(p, c)
         IN  Good(q, M) /\ q.active \subseteq p.active /\ q.alive \subseteq p.alive /\ c \notin q.alive
<1> DEFINE u == IF c \in p.executed THEN Undone(p, c) ELSE p
           none == {}
           ks == {<<"guard", c>>}
           r == Without(u, none, ks)
           al == u.alive \ {c}
           q == Uninstalled(p, c)
<1>1. Good(u, M) /\ c \notin u.executed /\ u.alive \subseteq p.alive /\ u.active \subseteq p.active
  BY UndoneKeeps
<1>2. al \subseteq u.alive /\ (\A d : d \in al <=> d \in u.alive /\ d # c) /\ <<"guard", c>> \in ks
  OBVIOUS
<1>3. \A t : t \notin none
  OBVIOUS
<1>4. q = [r EXCEPT !.alive = r.alive \ {c}]
  BY DEF Uninstalled
<1> HIDE DEF u, none, ks, q
<1>5. /\ Typed(r) /\ r.alive = u.alive /\ r.executed = u.executed
      /\ \A t : t \in r.tokens <=> t \in u.tokens /\ t \notin none
      /\ \A t : t \in r.active <=> t \in u.active /\ t \notin none
      /\ \A k \in ToSet(r.network) : k \in ToSet(u.network) /\ k \notin ks
  BY <1>1, WithoutKeeps DEF Good
<1> HIDE DEF r
<1>6. q = [r EXCEPT !.alive = al]
  BY <1>4, <1>5
<1>7. al \in SUBSET Context
  BY <1>1, <1>2, Fields DEF Good, Typed
<1> HIDE DEF al
<1>8. /\ q \in Plan /\ q.alive = al /\ q.executed = u.executed
      /\ q.tokens = r.tokens /\ q.active = r.active /\ q.network = r.network /\ q.agenda = r.agenda
  BY <1>5, <1>6, <1>7 DEF Typed, Plan
<1>9. Typed(q)
  BY <1>1, <1>2, <1>5, <1>8 DEF Good, Typed
<1>10. Placed(q, M)
  BY <1>1, <1>2, <1>3, <1>5, <1>8 DEF Good, Placed
<1>11. Founded(q)
  BY <1>1, <1>5, <1>8 DEF Good, Founded
<1>12. ASSUME NEW k \in ToSet(q.network), k[1] = "guard" PROVE k[2] \in q.alive
  <2>1. k \in ToSet(u.network) /\ k \notin ks
    BY <1>5, <1>8
  <2>2. k \in Constraint /\ k[2] \in u.alive
    BY <1>1, <1>12, <2>1, Fields DEF Good, Typed, Listening
  <2>3. k[2] # c
    BY <1>2, <1>12, <2>1, <2>2 DEF Constraint
  <2>4. QED
    BY <1>2, <1>8, <2>2, <2>3
<1>13. QED
  BY <1>1, <1>2, <1>3, <1>5, <1>8, <1>9, <1>10, <1>11, <1>12 DEF Good, Listening, q

(* The rules of a token that is cancelled: its conditionals go with them,  *)
(* since each is in a body of a rule of the token.                         *)
LEMMA AllUninstalled ==
  ASSUME NEW p, NEW t, Good(p, {t})
  PROVE  LET q == InOrder(Uninstalled, p, RootsOf(t))
         IN  Good(q, {t}) /\ q.active \subseteq p.active /\ \A c \in RootsOf(t) : c \notin q.alive
<1> DEFINE C == RootsOf(t)
           k == [master |-> t, active |-> p.active]
<1>1. C \subseteq Context
  BY DEF RootsOf, Roots
<1>2. InOrder(Uninstalled, p, C) = UninstallLoop!Fold(k, p, C)
  BY DEF InOrder, UninstallLoop!Fold, UninstallLoop!MapThenFoldSet, MapThenFoldSet, UninstallOne,
         Highest
<1>3. k.master = t /\ k.active = p.active
  OBVIOUS
<1> HIDE DEF C, k
<1>4. UninstallLoop!IsFiniteSet(C) /\ UninstallLoop!Picks(C)
  <2>1. IsFiniteSet(C)
    BY <1>1, SomeContexts
  <2>2. UninstallLoop!IsFiniteSet(C)
    BY <2>1, Zenon DEF UninstallLoop!IsFiniteSet, IsFiniteSet
  <2>3. QED
    BY <1>1, <2>2, SomeContexts DEF UninstallLoop!Picks
<1>5. UninstalledKept(k, {}, p)
  BY <1>3 DEF UninstalledKept
<1>6. ASSUME NEW T \in SUBSET C, NEW q, T # {}, UninstalledKept(k, T \ {Highest(T)}, q)
      PROVE  UninstalledKept(k, T, UninstallOne(k, Highest(T), q))
  <2> DEFINE c == Highest(T)
             r == Uninstalled(q, c)
  <2>1. c \in T /\ c \in Context
    BY <1>1, <1>6, SomeContexts
  <2>2. Good(q, {t}) /\ q.active \subseteq p.active /\ \A d \in T \ {c} : d \notin q.alive
    BY <1>3, <1>6 DEF UninstalledKept
  <2> HIDE DEF c
  <2>3. /\ Good(r, {t}) /\ r.active \subseteq q.active /\ r.alive \subseteq q.alive
        /\ c \notin r.alive
    BY <2>1, <2>2, UninstalledKeeps
  <2> HIDE DEF r
  <2>4. \A d \in T : d \notin r.alive
    BY <2>2, <2>3
  <2>5. UninstalledKept(k, T, r)
    BY <1>3, <2>2, <2>3, <2>4 DEF UninstalledKept
  <2>6. QED
    BY <2>5 DEF UninstallOne, r, c
<1>7. UninstalledKept(k, C, UninstallLoop!Fold(k, p, C))
  BY ONLY <1>4, <1>5, <1>6, UninstallLoop!FoldKeeps
<1>8. QED
  BY <1>2, <1>3, <1>7 DEF UninstalledKept, C

LEMMA NoneLeft ==
  ASSUME NEW q, NEW t, Good(q, {t}), \A c \in RootsOf(t) : c \notin q.alive
  PROVE  Good(q, {})
<1> DEFINE X == {c \in q.alive : Rule[c].master = t}
<1>1. q.alive \subseteq Context /\ q.executed \subseteq q.alive
  BY Fields DEF Good, Typed
<1>2. X = {}
  <2> SUFFICES ASSUME X # {} PROVE FALSE
    OBVIOUS
  <2>1. X \subseteq 1 .. Len(Rule) /\ Len(Rule) \in Nat
    BY <1>1, Contexts
  <2>2. PICK c \in X : \A d \in X : c <= d
    <3> HIDE DEF X
    <3>1. QED
      BY <2>1, Extremes
  <2>3. c \in q.alive /\ c \in Context /\ Rule[c].master = t
    BY <1>1, <2>2
  <2>4. Rule[c].parent \in Nat /\ Rule[c].parent < c /\ c \in Nat
    BY <2>3, Contexts
  <2>5. CASE Rule[c].parent > 0
    <3> DEFINE b == Rule[c].parent
    <3>1. b \in q.executed /\ Rule[b].master = t
      BY <2>3, <2>5, Families DEF Good, Placed
    <3>2. b \in X
      BY <1>1, <3>1
    <3>3. QED
      BY <2>2, <2>4, <3>2
  <2>6. CASE ~(Rule[c].parent > 0)
    <3>1. c \in RootsOf(t)
      BY <2>3, <2>4, <2>6 DEF RootsOf, Roots
    <3>2. QED
      BY <2>3, <3>1
  <2>7. QED
    BY <2>5, <2>6
<1>3. Placed(q, {})
  BY <1>2 DEF Good, Placed
<1>4. QED
  BY <1>3 DEF Good
-----------------------------------------------------------------------------
(* Steps.                                                                  *)

LEMMA NextInNetwork ==
  ASSUME Good(plan, {}), plan.agenda # {}
  PROVE  NextConstraint \in ToSet(plan.network) /\ NextConstraint \in Constraint
<1> DEFINE n == plan.network
           X == {i \in 1 .. Len(n) : n[i] \in Foremost}
<1>1. /\ n \in Seq(Constraint) /\ Len(n) \in Nat /\ plan.agenda \subseteq ToSet(n)
      /\ ToSet(n) \subseteq Constraint
  <2>1. plan \in Plan /\ plan.agenda \subseteq ToSet(n)
    BY DEF Good, Typed
  <2>2. n \in Seq(Constraint) /\ ToSet(n) \subseteq Constraint
    BY <2>1, Fields
  <2>3. QED
    BY <2>1, <2>2
<1>2. X # {}
  <2>0. Foremost \subseteq plan.agenda /\ Foremost # {}
    BY DEF Foremost
  <2>1. PICK k \in Foremost : k \in plan.agenda
    BY <2>0
  <2>2. PICK i \in 1 .. Len(n) : k = n[i]
    BY <1>1, <2>1, Elements
  <2>3. QED
    BY <2>2
<1>3. NextConstraint = n[IF X # {} THEN Min(X) ELSE 0]
  BY DEF NextConstraint, SelectInSeq
<1>4. X \subseteq 1 .. Len(n)
  OBVIOUS
<1> HIDE DEF X
<1>5. Min(X) \in X
  <2>1. \E i \in X : \A j \in X : i <= j
    BY <1>1, <1>2, <1>4, Extremes
  <2>2. QED
    BY <2>1 DEF Min
<1>6. NextConstraint = n[Min(X)] /\ Min(X) \in 1 .. Len(n)
  BY <1>2, <1>3, <1>4, <1>5
<1>7. QED
  BY <1>1, <1>6, Elements

LEMMA NarrowedKeeps ==
  ASSUME NEW p, NEW k, Good(p, {}), k \in Constraint
  PROVE  Good(Narrowed(p, k), {}) /\ Same(p, Narrowed(p, k))
<1> DEFINE v == Rule[k[2]].restricts
           d == [p.dom EXCEPT ![v] = @ \cap Rule[k[2]].to]
           a == p.agenda \ {k}
           b == a \cup (On(p, {v}) \ {k})
           r == [p EXCEPT !.dom = d, !.agenda = a]
           s == [r EXCEPT !.agenda = b]
<1>1. /\ p \in Plan /\ p.agenda \subseteq ToSet(p.network) /\ p.agenda \in SUBSET Constraint
      /\ p.dom \in [Variable -> SUBSET Value] /\ ToSet(p.network) \subseteq Constraint
  BY Fields DEF Good, Typed
<1>2. d \in [Variable -> SUBSET Value]
  BY <1>1
<1>3. On(p, {v}) \subseteq ToSet(p.network)
  BY OnNetwork
<1>4. /\ a \in SUBSET Constraint /\ a \subseteq ToSet(p.network)
      /\ b \in SUBSET Constraint /\ b \subseteq ToSet(p.network)
  BY <1>1, <1>3
<1>5. Narrowed(p, k) = IF r.dom[v] = p.dom[v] THEN r ELSE [r EXCEPT !.agenda = r.agenda \cup (On(p, {v}) \ {k})]
  BY DEF Narrowed
<1> HIDE DEF v, d, a
<1>6. r \in Plan /\ Same(p, r) /\ r.network = p.network /\ r.agenda = a
  BY <1>1, <1>2, <1>4 DEF Plan, Same
<1>7. Narrowed(p, k) = r \/ Narrowed(p, k) = s
  BY <1>5, <1>6
<1> HIDE DEF b, r
<1>8. s \in Plan /\ Same(p, s) /\ s.network = p.network /\ s.agenda = b
  BY <1>4, <1>6 DEF Plan, Same
<1> HIDE DEF s
<1>9. ASSUME NEW q, q \in Plan, Same(p, q), q.network = p.network, q.agenda \subseteq ToSet(p.network)
      PROVE  Good(q, {})
  <2>1. Typed(q)
    BY <1>9 DEF Good, Typed, Same
  <2>2. Placed(q, {}) /\ Founded(q) /\ Listening(q)
    BY <1>9 DEF Good, Placed, Founded, Listening, Same
  <2>3. QED
    BY <2>1, <2>2 DEF Good
<1>10. QED
  BY <1>4, <1>6, <1>7, <1>8, <1>9

LEMMA InitGood == Init => Inv
<1> SUFFICES ASSUME Init PROVE Inv
  OBVIOUS
<1>1. plan \in Plan
  <2>1. << >> \in Seq(Constraint)
    OBVIOUS
  <2>2. [v \in Variable |-> NoValue] \in Specified
    BY DEF Specified
  <2>3. QED
    BY <2>1, <2>2, Families DEF Init, Plan
<1>2. /\ plan.active = {} /\ plan.alive = {} /\ plan.executed = {} /\ plan.agenda = {}
      /\ plan.tokens = Given /\ plan.network = << >>
  BY DEF Init
<1>3. Good(plan, {})
  BY <1>1, <1>2, Elements DEF Good, Typed, Placed, Founded, Listening
<1>4. Waiting
  <2>1. phase = "idle" /\ toExecute = << >> /\ toUndo = << >> /\ changed = FALSE
    BY DEF Init
  <2>2. \A S : << >> \in Seq(S)
    OBVIOUS
  <2>3. QED
    BY <2>1, <2>2 DEF Waiting
<1>5. QED
  BY <1>3, <1>4 DEF Inv

(* What clients do between propagations.                                   *)
LEMMA ClientKeeps ==
  ASSUME NEW p, Inv, Client(p), Good(p, {})
  PROVE  Inv'
<1>1. plan' = p /\ phase' = "idle" /\ toExecute' = << >> /\ toUndo' = << >> /\ changed' = changed
  BY DEF Inv, Waiting, Client
<1>2. Good(plan', {})
  BY <1>1
<1>3. Waiting'
  BY <1>1 DEF Inv, Waiting
<1>4. QED
  BY <1>2, <1>3 DEF Inv, Good, Typed, Placed, Founded, Listening

LEMMA ActivateKeeps ==
  ASSUME Inv, NEW t \in Token, Activate(t)
  PROVE  Inv'
<1> DEFINE a == plan.active \cup {t}
           p == [plan EXCEPT !.active = a]
           q == InOrder(Installed, p, RootsOf(t))
<1>1. Good(plan, {}) /\ plan \in Plan /\ t \in plan.tokens
  BY DEF Inv, Good, Typed, Activate
<1>2. a \in SUBSET Token /\ a \subseteq plan.tokens /\ t \in a /\ plan.active \subseteq a
  BY <1>1, Fields DEF Good, Typed
<1>3. Client(q)
  BY DEF Activate
<1> HIDE DEF a
<1>4. /\ p \in Plan /\ p.active = a /\ p.tokens = plan.tokens /\ p.alive = plan.alive
      /\ p.executed = plan.executed /\ p.network = plan.network /\ p.agenda = plan.agenda
  BY <1>1, <1>2 DEF Plan
<1> HIDE DEF p
<1>5. Good(p, {})
  <2>1. Typed(p)
    BY <1>1, <1>2, <1>4 DEF Good, Typed
  <2>2. Placed(p, {}) /\ Founded(p) /\ Listening(p)
    BY <1>1, <1>2, <1>4 DEF Good, Placed, Founded, Listening
  <2>3. QED
    BY <2>1, <2>2 DEF Good
<1>6. Good(q, {})
  BY <1>2, <1>4, <1>5, InstalledKeeps
<1> HIDE DEF q
<1>7. QED
  BY <1>3, <1>6, ClientKeeps

LEMMA CancelKeeps ==
  ASSUME Inv, NEW t \in Token, Cancel(t)
  PROVE  Inv'
<1> DEFINE a == plan.active \ {t}
           p == [plan EXCEPT !.active = a]
           q == InOrder(Uninstalled, p, RootsOf(t))
<1>1. Good(plan, {}) /\ plan \in Plan
  BY DEF Inv, Good, Typed
<1>2. a \in SUBSET Token /\ a \subseteq plan.active /\ \A u \in plan.active : u \in a \/ u = t
  BY <1>1, Fields
<1>3. Client(q)
  BY DEF Cancel
<1> HIDE DEF a
<1>4. /\ p \in Plan /\ p.active = a /\ p.tokens = plan.tokens /\ p.alive = plan.alive
      /\ p.executed = plan.executed /\ p.network = plan.network /\ p.agenda = plan.agenda
  BY <1>1, <1>2 DEF Plan
<1> HIDE DEF p
<1>5. Good(p, {t})
  <2>1. Typed(p)
    BY <1>1, <1>2, <1>4 DEF Good, Typed
  <2>2. Placed(p, {t}) /\ Founded(p) /\ Listening(p)
    BY <1>1, <1>2, <1>4 DEF Good, Placed, Founded, Listening
  <2>3. QED
    BY <2>1, <2>2 DEF Good
<1>6. Good(q, {t}) /\ \A c \in RootsOf(t) : c \notin q.alive
  BY <1>5, AllUninstalled
<1> HIDE DEF q
<1>7. Good(q, {})
  BY <1>6, NoneLeft
<1>8. QED
  BY <1>3, <1>7, ClientKeeps

LEMMA SpecifyKeeps ==
  ASSUME Inv, NEW v \in Variable, v \in Decision, NEW x \in Value, Specify(v, x)
  PROVE  Inv'
<1> DEFINE s == [plan.spec EXCEPT ![v] = x]
           d == [plan.dom EXCEPT ![v] = {x}]
           a == plan.agenda \cup On(plan, {v})
           p == [plan EXCEPT !.spec = s, !.dom = d, !.agenda = a]
<1>1. /\ Good(plan, {}) /\ plan \in Plan /\ plan.agenda \subseteq ToSet(plan.network)
      /\ ToSet(plan.network) \subseteq Constraint
  BY Fields DEF Inv, Good, Typed
<1>2. s \in Specified /\ d \in [Variable -> SUBSET Value]
  <2>1. plan.spec \in Specified /\ plan.dom \in [Variable -> SUBSET Value]
    BY <1>1, Fields
  <2>2. QED
    BY <2>1 DEF Specified
<1>3. a \in SUBSET Constraint /\ a \subseteq ToSet(plan.network)
  BY <1>1, OnNetwork
<1>4. Client(p)
  BY DEF Specify
<1> HIDE DEF s, d, a
<1>5. p \in Plan /\ Same(plan, p) /\ p.network = plan.network /\ p.agenda = a
  BY <1>1, <1>2, <1>3 DEF Plan, Same
<1> HIDE DEF p
<1>6. Good(p, {})
  BY <1>1, <1>3, <1>5 DEF Good, Typed, Placed, Founded, Listening, Same
<1>7. QED
  BY <1>4, <1>6, ClientKeeps

LEMMA ResetKeeps ==
  ASSUME Inv, NEW v \in Variable, Reset(v)
  PROVE  Inv'
<1> DEFINE s == [plan.spec EXCEPT ![v] = NoValue]
           p == [plan EXCEPT !.spec = s]
           q == Relaxed(p, {v})
<1>1. Good(plan, {}) /\ plan \in Plan /\ plan.agenda \subseteq ToSet(plan.network)
  BY DEF Inv, Good, Typed
<1>2. s \in Specified
  <2>1. plan.spec \in Specified
    BY <1>1, Fields
  <2>2. QED
    BY <2>1 DEF Specified
<1>3. Client(q)
  BY DEF Reset
<1> HIDE DEF s
<1>4. p \in Plan /\ Same(plan, p) /\ p.network = plan.network /\ p.agenda = plan.agenda
  BY <1>1, <1>2 DEF Plan, Same
<1> HIDE DEF p
<1>5. /\ q \in Plan /\ Same(p, q) /\ q.network = p.network
      /\ q.agenda \subseteq ToSet(q.network)
  BY <1>1, <1>4, RelaxedKeeps
<1> HIDE DEF q
<1>6. Good(q, {})
  BY <1>1, <1>4, <1>5 DEF Good, Typed, Placed, Founded, Listening, Same
<1>7. QED
  BY <1>3, <1>6, ClientKeeps

(* An inactive slave has no instances, so nothing loses its token.         *)
LEMMA DeleteTokenKeeps ==
  ASSUME Inv, NEW t \in Token, DeleteToken(t)
  PROVE  Inv'
<1> DEFINE none == {}
           r == Without(plan, {t}, none)
           h == [c \in Context |-> IF c \in Roots THEN r.held[c] \ {t} ELSE r.held[c]]
           q == [r EXCEPT !.held = h]
<1>1. Good(plan, {}) /\ Typed(plan) /\ t \notin plan.active
  BY DEF Inv, Good, DeleteToken
<1>2. Client(q)
  BY DEF DeleteToken
<1> HIDE DEF none
<1>3. /\ Typed(r) /\ r.alive = plan.alive /\ r.executed = plan.executed
      /\ \A u : u \in r.tokens <=> u \in plan.tokens /\ u \notin {t}
      /\ \A u : u \in r.active <=> u \in plan.active /\ u \notin {t}
      /\ \A k \in ToSet(r.network) : k \in ToSet(plan.network) /\ k \notin none
  BY <1>1, WithoutKeeps
<1> HIDE DEF r
<1>4. h \in [Context -> SUBSET Token]
  <2>1. r.held \in [Context -> SUBSET Token]
    BY <1>3, Fields DEF Typed
  <2>2. QED
    BY <2>1
<1> HIDE DEF h
<1>5. q \in Plan /\ Same(r, q) /\ q.network = r.network /\ q.agenda = r.agenda
  BY <1>3, <1>4 DEF Typed, Plan, Same
<1> HIDE DEF q
<1>6. Typed(q)
  BY <1>3, <1>5 DEF Typed, Same
<1>7. Placed(q, {})
  BY <1>1, <1>3, <1>5 DEF Good, Placed, Same
<1>8. Founded(q) /\ Listening(q)
  BY <1>1, <1>3, <1>5 DEF Good, Founded, Listening, Same
<1>9. QED
  BY <1>2, <1>6, <1>7, <1>8, ClientKeeps DEF Good

LEMMA ExecuteListenerKeeps ==
  ASSUME Inv, ExecuteListener
  PROVE  Inv'
<1> DEFINE k == NextConstraint
           c == NextConstraint[2]
           a == plan.agenda \ {k}
           p == [plan EXCEPT !.agenda = a]
<1>1. Good(plan, {}) /\ plan \in Plan /\ plan.agenda # {} /\ k[1] = "guard" /\ phase = "propagating"
  BY DEF Inv, Good, Typed, ExecuteListener
<1>2. k \in ToSet(plan.network) /\ k \in Constraint
  BY <1>1, NextInNetwork
<1>3. c \in plan.alive /\ c \in Context
  BY <1>1, <1>2, Fields DEF Good, Listening
<1>4. a \in SUBSET Constraint /\ a \subseteq ToSet(plan.network)
  BY <1>1, Fields DEF Good, Typed
<1>5. /\ plan' = p /\ phase' = phase /\ changed' = changed
      /\ \/ toUndo' = Append(toUndo, c) /\ toExecute' = toExecute
         \/ toExecute' = Append(toExecute, c) /\ toUndo' = toUndo
  BY DEF ExecuteListener
<1> HIDE DEF k, c, a
<1>6. p \in Plan /\ Same(plan, p) /\ p.network = plan.network /\ p.agenda = a
  BY <1>1, <1>4 DEF Plan, Same
<1> HIDE DEF p
<1>7. Good(p, {})
  BY <1>1, <1>4, <1>6 DEF Good, Typed, Placed, Founded, Listening, Same
<1>8. Good(plan, {})'
  BY <1>5, <1>7 DEF Good, Typed, Placed, Founded, Listening
<1>9. Waiting'
  <2>1. plan'.alive = plan.alive
    BY <1>5, <1>6 DEF Same
  <2>2. toExecute \in Seq(plan.alive) /\ toUndo \in Seq(Context) /\ changed \in BOOLEAN
    BY DEF Inv, Waiting
  <2>3. toExecute' \in Seq(plan.alive) /\ toUndo' \in Seq(Context)
    <3>1. Append(toExecute, c) \in Seq(plan.alive) /\ Append(toUndo, c) \in Seq(Context)
      BY <1>3, <2>2, AppendProperties
    <3>2. QED
      BY <1>5, <2>2, <3>1
  <2>4. QED
    BY <1>1, <1>5, <2>1, <2>2, <2>3 DEF Waiting
<1>10. QED
  BY <1>8, <1>9 DEF Inv

LEMMA ExecuteConstraintKeeps ==
  ASSUME Inv, ExecuteConstraint
  PROVE  Inv'
<1> DEFINE p == Narrowed(plan, NextConstraint)
<1>1. Good(plan, {}) /\ plan.agenda # {}
  BY DEF Inv, ExecuteConstraint
<1>2. NextConstraint \in Constraint
  BY <1>1, NextInNetwork
<1>3. Good(p, {}) /\ Same(plan, p)
  BY <1>1, <1>2, NarrowedKeeps
<1>4. plan' = p /\ phase' = phase /\ toExecute' = toExecute /\ toUndo' = toUndo /\ changed' = changed
  BY DEF ExecuteConstraint
<1> HIDE DEF p
<1>5. Good(plan, {})'
  BY <1>3, <1>4 DEF Good, Typed, Placed, Founded, Listening
<1>6. Waiting'
  BY <1>3, <1>4 DEF Inv, Waiting, Same
<1>7. QED
  BY <1>5, <1>6 DEF Inv

LEMMA ExecuteRuleKeeps ==
  ASSUME Inv, ExecuteRule
  PROVE  Inv'
<1> DEFINE c == Head(toExecute)
           p == Executed(plan, c)
<1>1. /\ Good(plan, {}) /\ toExecute \in Seq(plan.alive) /\ toExecute # << >> /\ toUndo \in Seq(Context)
      /\ phase = "rules" /\ changed \in BOOLEAN
  BY DEF Inv, Waiting, ExecuteRule
<1>2. c \in plan.alive /\ Tail(toExecute) \in Seq(plan.alive)
  BY <1>1
<1>3. /\ plan' = p \/ plan' = plan
      /\ toExecute' = Tail(toExecute) /\ phase' = phase /\ toUndo' = toUndo /\ changed' \in BOOLEAN
  BY <1>1 DEF ExecuteRule
<1> HIDE DEF c
<1>4. Good(p, {}) /\ plan.alive \subseteq p.alive
  BY <1>1, <1>2, ExecutedKeeps
<1> HIDE DEF p
<1>5. plan' \in {p, plan} /\ Good(plan, {})'
  BY <1>1, <1>3, <1>4 DEF Good, Typed, Placed, Founded, Listening
<1>6. Tail(toExecute) \in Seq(plan'.alive)
  <2>1. plan.alive \subseteq plan'.alive
    BY <1>4, <1>5
  <2> DEFINE s == Tail(toExecute)
  <2>2. s \in Seq(plan.alive)
    BY <1>2
  <2> HIDE DEF s
  <2>3. s \in Seq(plan'.alive)
    BY <2>1, <2>2
  <2>4. QED
    BY <2>3 DEF s
<1>7. Waiting'
  BY <1>1, <1>3, <1>6 DEF Waiting
<1>8. QED
  BY <1>5, <1>7 DEF Inv

LEMMA UndoRuleKeeps ==
  ASSUME Inv, UndoRule
  PROVE  Inv'
<1> DEFINE c == Head(toUndo)
           p == Undone(plan, c)
<1>1. /\ Good(plan, {}) /\ toExecute = << >> /\ toUndo # << >> /\ toUndo \in Seq(Context)
      /\ phase = "rules" /\ changed \in BOOLEAN
  BY DEF Inv, Waiting, UndoRule
<1>2. c \in Context /\ Tail(toUndo) \in Seq(Context)
  BY <1>1
<1>3. /\ plan' = p \/ plan' = plan
      /\ toExecute' = << >> /\ phase' = phase /\ toUndo' = Tail(toUndo) /\ changed' \in BOOLEAN
  BY <1>1 DEF UndoRule
<1> HIDE DEF c
<1>4. Good(p, {})
  BY <1>1, <1>2, UndoneKeeps
<1> HIDE DEF p
<1>5. Good(plan, {})'
  BY <1>1, <1>3, <1>4 DEF Good, Typed, Placed, Founded, Listening
<1>6. << >> \in Seq(plan'.alive)
  OBVIOUS
<1>7. Waiting'
  BY <1>1, <1>2, <1>3, <1>6 DEF Waiting
<1>8. QED
  BY <1>5, <1>7 DEF Inv

(* The steps of the loop that only change its phase.                       *)
LEMMA PhaseKeeps ==
  ASSUME Inv, Propagate \/ Callback \/ EndRules \/ UNCHANGED vars
  PROVE  Inv'
<1>1. /\ plan' = plan /\ toExecute' = toExecute /\ toUndo' = toUndo
      /\ phase' \in {"idle", "propagating", "rules"} /\ changed' \in BOOLEAN
      /\ phase' = "idle" => toExecute = << >> /\ toUndo = << >>
  <2>1. CASE Propagate
    BY <2>1 DEF Inv, Waiting, Propagate
  <2>2. CASE Callback
    BY <2>2 DEF Inv, Waiting, Callback
  <2>3. CASE EndRules
    BY <2>3 DEF Inv, Waiting, EndRules
  <2>4. CASE UNCHANGED vars
    BY <2>4 DEF Inv, Waiting, vars
  <2>5. QED
    BY <2>1, <2>2, <2>3, <2>4
<1>2. Good(plan, {})'
  BY <1>1 DEF Inv, Good, Typed, Placed, Founded, Listening
<1>3. Waiting'
  BY <1>1 DEF Inv, Waiting
<1>4. QED
  BY <1>2, <1>3 DEF Inv

LEMMA Inductive == Inv /\ [Next]_vars => Inv'
<1> SUFFICES ASSUME Inv, [Next]_vars PROVE Inv'
  OBVIOUS
<1>1. ASSUME NEW t \in Token, Activate(t) \/ Cancel(t) \/ DeleteToken(t) PROVE Inv'
  BY <1>1, ActivateKeeps, CancelKeeps, DeleteTokenKeeps
<1>2. ASSUME NEW v \in Decision, Reset(v) \/ \E x \in Value : Specify(v, x) PROVE Inv'
  <2>1. v \in Variable
    BY RuleAssumption
  <2>2. QED
    BY <1>2, <2>1, ResetKeeps, SpecifyKeeps
<1>3. CASE Propagation
  BY <1>3, ExecuteListenerKeeps, ExecuteConstraintKeeps, ExecuteRuleKeeps, UndoRuleKeeps, PhaseKeeps
     DEF Propagation
<1>4. CASE Propagate \/ UNCHANGED vars
  BY <1>4, PhaseKeeps
<1>5. QED
  BY <1>1, <1>2, <1>3, <1>4 DEF Next

LEMMA InvHolds == Spec => []Inv
<1>1. QED
  BY InitGood, Inductive, PTL DEF Spec
-----------------------------------------------------------------------------
(* The types hold for all rules: no instance is executed that does not     *)
(* exist, and no constraint waits that was deleted (RulesEngine::doRules). *)
THEOREM TypeCorrect == Spec => []TypeOK
<1>1. Inv => TypeOK
  <2> SUFFICES ASSUME Inv PROVE TypeOK
    OBVIOUS
  <2>1. plan \in Plan /\ Typed(plan)
    BY DEF Inv, Good, Typed
  <2>2. ToSet(toExecute) \cup ToSet(toUndo) \subseteq Context
    <3>1. toExecute \in Seq(plan.alive) /\ toUndo \in Seq(Context) /\ plan.alive \subseteq Context
      BY <2>1, Fields DEF Inv, Waiting
    <3>2. QED
      BY <3>1 DEF ToSet
  <2>3. QED
    BY <2>1, <2>2, Fields DEF TypeOK, Typed, Inv, Waiting, Constraint
<1>2. QED
  BY <1>1, InvHolds, PTL

(* No slave and nothing below it outlives the body that created it or the  *)
(* token above, for all rules and in every order of decisions, executions  *)
(* and undoing (RuleInstance::undo, RulesEngine::notifyDeactivated).       *)
THEOREM ReasonsAreInForce == Spec => []SlavesHaveReasons
<1>1. Inv => SlavesHaveReasons
  <2> SUFFICES ASSUME Inv, NEW t \in plan.tokens, t \notin Given
               PROVE  \E c \in plan.executed : Rule[c].slave = t /\ Rule[c].master \in plan.active
    BY DEF SlavesHaveReasons
  <2>1. PICK c \in plan.executed : Rule[c].slave = t
    BY DEF Inv, Good, Founded
  <2>2. c \in plan.alive
    BY DEF Inv, Good, Typed
  <2>3. Rule[c].master \in plan.active
    BY <2>2 DEF Inv, Good, Placed
  <2>4. QED
    BY <2>1, <2>3
<1>2. QED
  BY <1>1, InvHolds, PTL
-----------------------------------------------------------------------------
(***************************************************************************)
(* The plan that follows from the decisions.                               *)
(*                                                                         *)
(* X are the contexts whose instances are being created or deleted; those  *)
(* of toExecute and of toUndo, E and U, are about to be tested.            *)
(***************************************************************************)
GuardOf(c) == <<"guard", c>>
RuleOf(c) == <<"rule", c>>
Restricts(c) == Rule[c].restricts # NoVariable
Net(p) == ToSet(p.network)

(* What is due has an instance, and what it has no guard for is in force.  *)
Whole(p, X) ==
  /\ Given \subseteq p.tokens
  /\ \A c \in Due(p.executed, p.active) : c \in p.alive \/ c \in X
  /\ \A c \in p.alive : Guarded(c) \/ c \in p.executed \/ c \in X
  /\ \A c \in p.executed : Rule[c].slave \notin Deletable \cup {NoToken} => Rule[c].slave \in p.tokens

(* The constraints of the network are those of instances and of bodies.    *)
Linked(p) ==
  /\ \A c \in p.alive : Guarded(c) => GuardOf(c) \in Net(p)
  /\ \A c \in p.executed :
       Restricts(c) /\ Owner[Rule[c].restricts] \in p.tokens => RuleOf(c) \in Net(p)
  /\ \A c \in Context : GuardOf(c) \in Net(p) => Guarded(c)
  /\ \A c \in Context : RuleOf(c) \in Net(p) =>
       /\ c \in p.executed /\ Restricts(c)
       /\ Rule[c].onMaster \/ Owner[Rule[c].restricts] \in p.tokens

Ruling(p, v) == {c \in Context : RuleOf(c) \in Net(p) /\ Rule[c].restricts = v}

(* A domain is what the constraints on it leave, but for those that wait.  *)
FitsAt(p, v) ==
  /\ p.dom[v] \subseteq Unfiltered(p, v)
  /\ \A c \in Ruling(p, v) : RuleOf(c) \in p.agenda \/ p.dom[v] \subseteq Rule[c].to
  /\ \A x \in Unfiltered(p, v) : (\A c \in Ruling(p, v) : x \in Rule[c].to) => x \in p.dom[v]

Fits(p) == \A v \in Variable : FitsAt(p, v)

(* A body is in force exactly if its guard passes, or that will be seen.   *)
Watch(p, c, E, U) ==
  \/ GuardOf(c) \in p.agenda
  \/ c \in p.executed /\ (Test(p, c) \/ HasEmptyGuard(p, c) \/ c \in U)
  \/ c \notin p.executed /\ (~Test(p, c) \/ c \in E)

Watched(p, X, E, U) == \A c \in p.alive : c \in X \/ Watch(p, c, E, U)

Extra(p, X, E, U) == Whole(p, X) /\ Linked(p) /\ Fits(p) /\ Watched(p, X, E, U)

LEMMA Pairs ==
  /\ \A c, d : GuardOf(c) = GuardOf(d) => c = d
  /\ \A c, d : RuleOf(c) = RuleOf(d) => c = d
  /\ \A c, d : GuardOf(c) # RuleOf(d)
  /\ \A c \in Context : GuardOf(c) \in Constraint /\ RuleOf(c) \in Constraint
  /\ \A k \in Constraint : k[2] \in Context /\ (k = GuardOf(k[2]) \/ k = RuleOf(k[2]))
  /\ \A c : GuardOf(c)[1] = "guard" /\ GuardOf(c)[2] = c /\ RuleOf(c)[1] = "rule" /\ RuleOf(c)[2] = c
  /\ \A c : ScopeOf(GuardOf(c)) = Scope(c) /\ ScopeOf(RuleOf(c)) = {Rule[c].restricts}
<1>1. \A k \in Constraint : k[2] \in Context /\ (k = GuardOf(k[2]) \/ k = RuleOf(k[2]))
  BY DEF Constraint, GuardOf, RuleOf
<1>2. QED
  BY <1>1 DEF Constraint, GuardOf, RuleOf, ScopeOf

LEMMA ScopeVariables ==
  ASSUME NEW c \in Context
  PROVE  Scope(c) \subseteq Variable
<1> DEFINE R == [parent : Nat, master : Token, guard : Variable \cup {NoVariable},
                 positive : BOOLEAN, values : SUBSET Value, settled : SUBSET Variable,
                 slave : (Token \ Given) \cup {NoToken}, restricts : Variable \cup {NoVariable},
                 to : SUBSET Value, onMaster : BOOLEAN]
<1>1. Rule \in Seq(R)
  BY RuleAssumption
<1> HIDE DEF R
<1>2. Rule[c] \in R
  BY <1>1, Contexts
<1>3. Rule[c].settled \in SUBSET Variable /\ Rule[c].guard \in Variable \cup {NoVariable}
  BY <1>2 DEF R
<1>4. QED
  BY <1>3 DEF Scope

(* A guard reads nothing but its scope.                                    *)
LEMMA TestReads ==
  ASSUME NEW p, NEW q, NEW c \in Context,
         \A v \in Scope(c) : p.dom[v] = q.dom[v] /\ p.spec[v] = q.spec[v]
  PROVE  (Test(p, c) <=> Test(q, c)) /\ (HasEmptyGuard(p, c) <=> HasEmptyGuard(q, c))
<1>1. \A v \in Rule[c].settled : v \in Scope(c)
  BY DEF Scope
<1>2. Rule[c].guard # NoVariable => Rule[c].guard \in Scope(c)
  BY DEF Scope
<1>3. (\A v \in Rule[c].settled : Settled(p, v)) <=> (\A v \in Rule[c].settled : Settled(q, v))
  BY <1>1 DEF Settled
<1>4. Rule[c].guard # NoVariable => p.dom[Rule[c].guard] = q.dom[Rule[c].guard]
  BY <1>2
<1>5. Test(p, c) <=> Test(q, c)
  BY <1>3, <1>4 DEF Test
<1>6. QED
  BY <1>5 DEF HasEmptyGuard

LEMMA UnguardedPasses ==
  ASSUME NEW p, NEW c \in Context, ~Guarded(c)
  PROVE  Test(p, c)
<1>1. Rule[c].settled = {} /\ ~(Rule[c].guard # NoVariable)
  BY DEF Guarded, Scope
<1>2. QED
  BY <1>1 DEF Test

LEMMA WatchMoves ==
  ASSUME NEW p, NEW q, NEW c \in Context, NEW E, NEW U, Watch(p, c, E, U),
         c \in p.executed <=> c \in q.executed,
         GuardOf(c) \in p.agenda => GuardOf(c) \in q.agenda,
         \/ GuardOf(c) \in q.agenda
         \/ \A v \in Scope(c) : p.dom[v] = q.dom[v] /\ p.spec[v] = q.spec[v]
  PROVE  Watch(q, c, E, U)
<1>1. CASE GuardOf(c) \in q.agenda
  BY <1>1 DEF Watch
<1>2. CASE \A v \in Scope(c) : p.dom[v] = q.dom[v] /\ p.spec[v] = q.spec[v]
  BY <1>2, TestReads DEF Watch
<1>3. QED
  BY <1>1, <1>2

LEMMA MoreExempt ==
  ASSUME NEW p, NEW X, NEW Y, NEW E, NEW U, Extra(p, X, E, U), X \subseteq Y
  PROVE  Extra(p, Y, E, U)
BY DEF Extra, Whole, Watched
-----------------------------------------------------------------------------
(* What is above an instance is in force.                                  *)

LEMMA AboveInverse ==
  ASSUME NEW c \in Context, NEW d \in Above[c]
  PROVE  d \in CausesOf(c) \/ \E e \in CausesOf(c) : d \in Above[e]
<1> DEFINE S == {e \in Context : e \in CausesOf(c) \/ \E f \in CausesOf(c) : e \in Above[f]}
<1>1. CausesOf(c) \subseteq S
  BY CausesInContext
<1>2. ASSUME NEW e \in S PROVE CausesOf(e) \subseteq S
  <2>1. e \in Context /\ CausesOf(e) \subseteq Context /\ CausesOf(c) \subseteq Context
    BY CausesInContext
  <2>2. CASE e \in CausesOf(c)
    BY <2>1, <2>2, CausesAbove
  <2>3. ASSUME NEW f \in CausesOf(c), e \in Above[f] PROVE CausesOf(e) \subseteq S
    <3>1. CausesOf(e) \subseteq Above[f]
      BY <2>1, <2>3, CausesAbove, AboveTransitive
    <3>2. QED
      BY <2>1, <3>1
  <2>4. QED
    BY <2>2, <2>3
<1>3. S \in SUBSET Context /\ Closed(S)
  BY <1>2 DEF Closed
<1> HIDE DEF S
<1>4. d \in S
  BY <1>1, <1>3, AboveIs
<1>5. QED
  BY <1>4 DEF S

LEMMA OwnSlave ==
  ASSUME Orderly, NEW c \in Context, NEW d \in Context,
         Rule[c].slave = Rule[d].slave, Rule[c].slave \in Token
  PROVE  c = d
BY Families DEF Orderly

(* The contexts that cause an instance are in force.                       *)
LEMMA CausesExecuted ==
  ASSUME Orderly, NEW p, NEW M, Good(p, M), NEW c \in p.alive, Rule[c].master \in p.active
  PROVE  CausesOf(c) \subseteq p.executed
<1>1. c \in Context /\ p.executed \subseteq Context /\ p.active \subseteq p.tokens /\ p.tokens \subseteq Token
  BY Fields DEF Good, Typed
<1>2. CASE Rule[c].parent > 0
  BY <1>2 DEF CausesOf, Good, Placed
<1>3. ASSUME ~(Rule[c].parent > 0), NEW d \in CausesOf(c) PROVE d \in p.executed
  <2>1. d \in Context /\ Rule[d].slave = Rule[c].master
    BY <1>3 DEF CausesOf
  <2>2. Rule[c].master \in p.tokens /\ Rule[c].master \in Token /\ Rule[c].master \notin Given
    BY <1>1, <2>1, Contexts, Families
  <2>3. PICK e \in p.executed : Rule[e].slave = Rule[c].master
    BY <2>2 DEF Good, Founded
  <2>4. e = d
    BY <1>1, <2>1, <2>2, <2>3, OwnSlave
  <2>5. QED
    BY <2>3, <2>4
<1>4. QED
  BY <1>2, <1>3

LEMMA AboveExecuted ==
  ASSUME Orderly, NEW p, Good(p, {}), NEW c \in p.alive
  PROVE  Above[c] \subseteq p.executed
<1>1. /\ p.executed \subseteq p.alive /\ p.alive \subseteq Context
      /\ \A d \in p.alive : Rule[d].master \in p.active
  BY Fields DEF Good, Typed, Placed
<1>2. \A d \in p.alive : CausesOf(d) \subseteq p.executed
  BY <1>1, CausesExecuted
<1>3. Closed(p.executed) /\ p.executed \in SUBSET Context
  BY <1>1, <1>2 DEF Closed
<1>4. c \in Context
  BY <1>1
<1>5. QED
  BY <1>2, <1>3, <1>4, AboveIs
-----------------------------------------------------------------------------
(* What goes with tokens and constraints.                                  *)
VarsOf(ts) == {v \in Variable : Owner[v] \in ts}
Out(p, ts, ks) == ks \cup On(p, VarsOf(ts))
Freed(p, ts, ks) ==
  VarsOf(ts) \cup {Rule[k[2]].restricts : k \in {k \in Out(p, ts, ks) : k[1] = "rule"}}

Dropped(p, q, ts, ks) ==
  /\ \A k : k \in Net(q) <=> k \in Net(p) /\ k \notin Out(p, ts, ks)
  /\ \A k : k \in q.agenda <=> \/ k \in p.agenda /\ k \notin Out(p, ts, ks)
                               \/ k \in On(q, Freed(p, ts, ks))
  /\ \A v \in Variable : q.spec[v] = IF v \in VarsOf(ts) THEN NoValue ELSE p.spec[v]
  /\ \A v \in Variable :
       q.dom[v] = IF v \in Freed(p, ts, ks) THEN Unfiltered(q, v) ELSE p.dom[v]
  /\ \A t : t \in q.tokens <=> t \in p.tokens /\ t \notin ts
  /\ \A t : t \in q.active <=> t \in p.active /\ t \notin ts

LEMMA WithoutDrops ==
  ASSUME NEW p, NEW ts, NEW ks, Typed(p)
  PROVE  Dropped(p, Without(p, ts, ks), ts, ks)
<1> DEFINE vs == VarsOf(ts)
           out == Out(p, ts, ks)
           n == Remaining(p.network, out)
           a == p.agenda \ out
           left == p.tokens \ ts
           act == p.active \ ts
           sp == [v \in Variable |-> IF v \in vs THEN NoValue ELSE p.spec[v]]
           loose == Freed(p, ts, ks)
           r == [p EXCEPT !.network = n, !.agenda = a, !.tokens = left, !.active = act, !.spec = sp]
           d == [v \in Variable |-> IF v \in loose THEN Unfiltered(r, v) ELSE r.dom[v]]
           b == a \cup On(r, loose)
           q == Without(p, ts, ks)
<1>1. p \in Plan
  BY DEF Typed
<1>2. q = Relaxed(r, loose)
  BY DEF Without, Remaining, VarsOf, Out, Freed
<1>3. \A x : x \in ToSet(n) <=> x \in Net(p) /\ x \notin out
  <2>1. p.network \in Seq(Constraint)
    BY <1>1, Fields
  <2> HIDE DEF out
  <2>2. QED
    BY <2>1, Remains DEF Net
<1>4. /\ \A v \in Variable : sp[v] = IF v \in vs THEN NoValue ELSE p.spec[v]
      /\ \A t : t \in left <=> t \in p.tokens /\ t \notin ts
      /\ \A t : t \in act <=> t \in p.active /\ t \notin ts
      /\ \A k : k \in a <=> k \in p.agenda /\ k \notin out
  OBVIOUS
<1> HIDE DEF vs, out, n, a, left, act, sp, loose
<1>5. /\ r.network = n /\ r.agenda = a /\ r.tokens = left /\ r.active = act /\ r.spec = sp /\ r.dom = p.dom
      /\ DOMAIN r = DOMAIN p
  BY <1>1 DEF Plan
<1> HIDE DEF r
<1>6. q = [r EXCEPT !.dom = d, !.agenda = b]
  BY <1>2, <1>5 DEF Relaxed
<1>7. /\ \A v \in Variable : d[v] = IF v \in loose THEN Unfiltered(r, v) ELSE p.dom[v]
      /\ \A k : k \in b <=> k \in a \/ k \in On(r, loose)
  BY <1>5
<1> HIDE DEF d, b
<1>8. /\ q.network = n /\ q.agenda = b /\ q.tokens = left /\ q.active = act
      /\ q.spec = sp /\ q.dom = d
  BY <1>1, <1>5, <1>6 DEF Plan
<1> HIDE DEF q
<1>9. On(q, loose) = On(r, loose) /\ \A v : Unfiltered(q, v) = Unfiltered(r, v)
  BY <1>5, <1>8 DEF On, Unfiltered
<1>10. Net(q) = ToSet(n)
  BY <1>8 DEF Net
<1>11. QED
  BY <1>3, <1>4, <1>7, <1>8, <1>9, <1>10 DEF Dropped, q, vs, out, loose

(* The constraints that stay keep their variables, and hear of changes.    *)
LEMMA DroppedFits ==
  ASSUME NEW p, NEW q, NEW ts, NEW ks, Dropped(p, q, ts, ks), Linked(p), Fits(p), Typed(p)
  PROVE  Fits(q)
<1> DEFINE out == Out(p, ts, ks)
           loose == Freed(p, ts, ks)
<1> SUFFICES ASSUME NEW v \in Variable PROVE FitsAt(q, v)
  BY DEF Fits
<1>1. FitsAt(p, v) /\ Net(p) \subseteq Constraint
  BY Fields DEF Fits, Typed, Net
<1>2. \A c \in Ruling(q, v) : c \in Ruling(p, v)
  BY DEF Ruling, Dropped
<1>3. CASE v \in loose
  <2>1. q.dom[v] = Unfiltered(q, v)
    BY <1>3 DEF Dropped
  <2>2. ASSUME NEW c \in Ruling(q, v) PROVE RuleOf(c) \in q.agenda
    <3>1. RuleOf(c) \in Net(q) /\ Rule[c].restricts = v /\ ScopeOf(RuleOf(c)) = {Rule[c].restricts}
      BY Pairs DEF Ruling
    <3>2. RuleOf(c) \in On(q, loose)
      BY <1>3, <3>1 DEF On, Net
    <3>3. QED
      BY <3>2 DEF Dropped
  <2>3. QED
    BY <2>1, <2>2 DEF FitsAt
<1>4. CASE v \notin loose
  <2>1. v \notin VarsOf(ts) /\ q.dom[v] = p.dom[v] /\ q.spec[v] = p.spec[v]
    BY <1>4 DEF Dropped, Freed
  <2>2. Unfiltered(q, v) = Unfiltered(p, v)
    BY <2>1 DEF Unfiltered
  <2>3. \A c \in Ruling(p, v) : c \in Ruling(q, v)
    <3> SUFFICES ASSUME NEW c \in Ruling(p, v) PROVE c \in Ruling(q, v)
      OBVIOUS
    <3>1. c \in Context /\ RuleOf(c) \in Net(p) /\ Rule[c].restricts = v
      BY DEF Ruling
    <3>2. RuleOf(c) \notin out
      BY <1>4, <3>1, Pairs DEF Freed
    <3>3. QED
      BY <3>1, <3>2 DEF Ruling, Dropped
  <2>4. \A c \in Ruling(q, v) : RuleOf(c) \in p.agenda => RuleOf(c) \in q.agenda
    BY DEF Ruling, Dropped
  <2>5. QED
    BY <1>1, <1>2, <2>1, <2>2, <2>3, <2>4 DEF FitsAt
<1>5. QED
  BY <1>3, <1>4

(* q is what is left of p without tokens and constraints, and without the  *)
(* instances and the bodies that these were of.                            *)
LEMMA DroppedLinks ==
  ASSUME NEW p, NEW q, NEW ts, NEW ks, Dropped(p, q, ts, ks), Linked(p), Typed(p),
         q.alive \subseteq p.alive, q.executed \subseteq p.executed,
         \A c \in q.alive : Guarded(c) => GuardOf(c) \notin ks /\ \A v \in Scope(c) : Owner[v] \notin ts,
         \A c \in q.executed : RuleOf(c) \notin ks,
         \A c \in p.executed \ q.executed :
           RuleOf(c) \in Net(p) => RuleOf(c) \in ks \/ Owner[Rule[c].restricts] \in ts
  PROVE  Linked(q)
<1>1. p.alive \subseteq Context /\ p.executed \subseteq Context /\ Net(p) \subseteq Constraint
  BY Fields DEF Typed, Net
<1>2. \A c \in Context : Restricts(c) => Rule[c].restricts \in Variable
  BY Contexts DEF Restricts
<1>3. ASSUME NEW c \in q.alive, Guarded(c) PROVE GuardOf(c) \in Net(q)
  <2>1. c \in Context /\ GuardOf(c) \in Net(p) /\ GuardOf(c) \notin ks /\ ScopeOf(GuardOf(c)) = Scope(c)
    BY <1>1, <1>3, Pairs DEF Linked
  <2>2. GuardOf(c) \notin On(p, VarsOf(ts))
    BY <1>3, <2>1 DEF On, VarsOf
  <2>3. QED
    BY <2>1, <2>2 DEF Dropped, Out
<1>4. ASSUME NEW c \in q.executed, Restricts(c), Owner[Rule[c].restricts] \in q.tokens
      PROVE  RuleOf(c) \in Net(q)
  <2>1. c \in Context /\ Owner[Rule[c].restricts] \in p.tokens /\ Owner[Rule[c].restricts] \notin ts
    BY <1>1, <1>4 DEF Dropped
  <2>2. RuleOf(c) \in Net(p) /\ RuleOf(c) \notin ks /\ ScopeOf(RuleOf(c)) = {Rule[c].restricts}
    BY <1>4, <2>1, Pairs DEF Linked
  <2>3. RuleOf(c) \notin On(p, VarsOf(ts))
    BY <2>1, <2>2 DEF On, VarsOf
  <2>4. QED
    BY <2>2, <2>3 DEF Dropped, Out
<1>5. ASSUME NEW c \in Context, RuleOf(c) \in Net(q)
      PROVE  /\ c \in q.executed /\ Restricts(c)
             /\ Rule[c].onMaster \/ Owner[Rule[c].restricts] \in q.tokens
  <2>1. RuleOf(c) \in Net(p) /\ RuleOf(c) \notin ks /\ RuleOf(c) \notin On(p, VarsOf(ts))
    BY <1>5 DEF Dropped, Out
  <2>2. /\ c \in p.executed /\ Restricts(c)
        /\ Rule[c].onMaster \/ Owner[Rule[c].restricts] \in p.tokens
    BY <2>1 DEF Linked
  <2>3. Owner[Rule[c].restricts] \notin ts
    BY <1>2, <2>1, <2>2, Pairs DEF On, VarsOf, Net
  <2>4. c \in q.executed
    BY <2>1, <2>2, <2>3
  <2>5. QED
    BY <2>2, <2>3, <2>4 DEF Dropped
<1>6. \A c \in Context : GuardOf(c) \in Net(q) => Guarded(c)
  BY DEF Linked, Dropped
<1>7. QED
  BY <1>3, <1>4, <1>5, <1>6 DEF Linked

LEMMA DroppedWatches ==
  ASSUME NEW p, NEW q, NEW ts, NEW ks, Dropped(p, q, ts, ks), Linked(p), Linked(q), Typed(p),
         q.alive \subseteq p.alive, NEW c \in q.alive
  PROVE  /\ GuardOf(c) \in p.agenda => GuardOf(c) \in q.agenda
         /\ \/ GuardOf(c) \in q.agenda
            \/ \A v \in Scope(c) : p.dom[v] = q.dom[v] /\ p.spec[v] = q.spec[v]
<1>1. c \in Context /\ p.agenda \subseteq Net(p)
  BY Fields DEF Typed, Net
<1>2. CASE ~Guarded(c)
  <2>1. Scope(c) = {} /\ GuardOf(c) \notin p.agenda
    BY <1>1, <1>2 DEF Guarded, Linked
  <2>2. QED
    BY <2>1
<1>3. CASE Guarded(c)
  <2>1. GuardOf(c) \in Net(q) /\ GuardOf(c) \notin Out(p, ts, ks)
    BY <1>3 DEF Linked, Dropped
  <2>2. GuardOf(c) \in p.agenda => GuardOf(c) \in q.agenda
    BY <2>1 DEF Dropped
  <2>3. CASE Scope(c) \cap Freed(p, ts, ks) # {}
    <3>1. GuardOf(c) \in On(q, Freed(p, ts, ks))
      BY <2>1, <2>3, Pairs DEF On, Net
    <3>2. QED
      BY <2>2, <3>1 DEF Dropped
  <2>4. CASE Scope(c) \cap Freed(p, ts, ks) = {}
    <3>1. \A v \in Scope(c) : v \in Variable
      BY <1>1, ScopeVariables
    <3>2. \A v \in Scope(c) : v \notin Freed(p, ts, ks) /\ v \notin VarsOf(ts)
      BY <2>4 DEF Freed
    <3>3. QED
      BY <2>2, <3>1, <3>2 DEF Dropped
  <2>5. QED
    BY <2>3, <2>4
<1>4. QED
  BY <1>2, <1>3
-----------------------------------------------------------------------------
(* A body is undone.                                                       *)
Gone(p, c) == {d \in p.alive : c \in Above[d]}
Bodies(p, c) == Gone(p, c) \cup {c}
Lost(p, c) == {t \in p.tokens : \E d \in Bodies(p, c) : Rule[d].slave = t}
Removed(p, c) ==
  {k \in ToSet(p.network) :
     \/ k[1] = "guard" /\ k[2] \in Gone(p, c)
     \/ k[1] = "rule" /\ k[2] \in Bodies(p, c) /\ Rule[k[2]].onMaster}

LEMMA SameDrops ==
  ASSUME NEW p, NEW q, NEW r, NEW ts, NEW ks, Dropped(p, r, ts, ks),
         q.network = r.network, q.agenda = r.agenda, q.spec = r.spec, q.dom = r.dom,
         q.tokens = r.tokens, q.active = r.active
  PROVE  Dropped(p, q, ts, ks)
<1>1. Net(q) = Net(r) /\ (\A vs : On(q, vs) = On(r, vs)) /\ \A v : Unfiltered(q, v) = Unfiltered(r, v)
  BY DEF Net, On, Unfiltered
<1>2. QED
  BY <1>1 DEF Dropped

LEMMA UndoneDrops ==
  ASSUME NEW p, NEW c \in Context, Typed(p)
  PROVE  LET q == Undone(p, c)
         IN  /\ Dropped(p, q, Lost(p, c), Removed(p, c))
             /\ q.alive = p.alive \ Gone(p, c) /\ q.executed = p.executed \ Bodies(p, c)
<1> DEFINE r == Without(p, Lost(p, c), Removed(p, c))
           h == [d \in Context |-> IF d \in Bodies(p, c) THEN {} ELSE r.held[d]]
           q == Undone(p, c)
<1>1. Dropped(p, r, Lost(p, c), Removed(p, c))
  BY WithoutDrops
<1>2. Typed(r) /\ r.alive = p.alive /\ r.executed = p.executed
  BY WithoutKeeps
<1>3. q = [r EXCEPT !.alive = @ \ Gone(p, c), !.executed = @ \ Bodies(p, c), !.held = h]
  BY DEF Undone, Gone, Bodies, Lost, Removed
<1> HIDE DEF r, h
<1>4. /\ q.network = r.network /\ q.agenda = r.agenda /\ q.spec = r.spec /\ q.dom = r.dom
      /\ q.tokens = r.tokens /\ q.active = r.active
      /\ q.alive = p.alive \ Gone(p, c) /\ q.executed = p.executed \ Bodies(p, c)
  BY <1>2, <1>3 DEF Typed, Plan
<1> HIDE DEF q
<1>5. Dropped(p, q, Lost(p, c), Removed(p, c))
  BY <1>1, <1>4, SameDrops
<1>6. QED
  BY <1>4, <1>5 DEF q

(* What stays alive depends on nothing that goes.                          *)
LEMMA StaysFree ==
  ASSUME Orderly, NEW p, NEW M, Good(p, M), NEW c \in Context, NEW d \in p.alive, d \notin Gone(p, c)
  PROVE  /\ \A e \in Bodies(p, c) : e \notin Above[d]
         /\ Rule[d].master \notin Lost(p, c)
         /\ \A v \in Scope(d) : Owner[v] \notin Lost(p, c)
<1>1. p.alive \subseteq Context /\ p.tokens \subseteq Token /\ d \in Context
  BY Fields DEF Good, Typed
<1>2. \A e \in Bodies(p, c) : e \in Context
  BY <1>1 DEF Bodies, Gone
<1>3. ASSUME NEW e \in Bodies(p, c) PROVE e \notin Above[d]
  <2>1. c \notin Above[d]
    BY DEF Gone
  <2>2. e = c \/ c \in Above[e]
    BY DEF Bodies, Gone
  <2>3. QED
    BY <1>1, <1>2, <2>1, <2>2, AboveTransitive
<1>4. \A t \in Lost(p, c) : /\ t \in Token /\ t \notin Given
                            /\ \E e \in Bodies(p, c) : Rule[e].slave = t
  BY <1>1, <1>2, Contexts, Families DEF Lost
<1>5. Rule[d].master \notin Lost(p, c)
  BY <1>1, <1>2, <1>3, <1>4, CreatorAbove
<1>6. ASSUME NEW v \in Scope(d), Owner[v] \in Lost(p, c) PROVE FALSE
  <2>1. PICK b \in Bodies(p, c) : Rule[b].slave = Owner[v]
    BY <1>4, <1>6
  <2>2. Owner[v] \in Token /\ Owner[v] \notin Given /\ Owner[v] # Rule[d].master
    BY <1>4, <1>5, <1>6
  <2>3. PICK e \in Above[d] : Owner[v] = Rule[e].slave
    BY <1>1, <2>2 DEF Orderly
  <2>4. e \in Context
    BY <1>1, AboveIs
  <2>5. e = b
    BY <1>2, <2>1, <2>2, <2>3, <2>4, OwnSlave
  <2>6. QED
    BY <1>3, <2>3, <2>5
<1>7. QED
  BY <1>3, <1>5, <1>6

LEMMA UndoneLinked ==
  ASSUME Orderly, NEW p, NEW M, Good(p, M), NEW c \in Context, Linked(p)
  PROVE  Linked(Undone(p, c))
<1> DEFINE q == Undone(p, c)
           ts == Lost(p, c)
           ks == Removed(p, c)
<1>1. /\ Typed(p) /\ p.alive \subseteq Context /\ p.executed \subseteq p.alive
      /\ p.tokens \subseteq Token
  BY Fields DEF Good, Typed
<1>2. /\ Dropped(p, q, ts, ks)
      /\ q.alive = p.alive \ Gone(p, c) /\ q.executed = p.executed \ Bodies(p, c)
  BY <1>1, UndoneDrops
<1>3. ASSUME NEW d \in q.alive, Guarded(d)
      PROVE  GuardOf(d) \notin ks /\ \A v \in Scope(d) : Owner[v] \notin ts
  <2>1. d \in p.alive /\ d \notin Gone(p, c)
    BY <1>2
  <2>2. GuardOf(d) \notin ks
    BY <2>1, Pairs DEF Removed
  <2>3. QED
    BY <2>1, <2>2, StaysFree
<1>4. ASSUME NEW d \in q.executed PROVE RuleOf(d) \notin ks
  BY <1>2, Pairs DEF Removed
<1>5. ASSUME NEW d \in p.executed \ q.executed, RuleOf(d) \in Net(p)
      PROVE  RuleOf(d) \in ks \/ Owner[Rule[d].restricts] \in ts
  <2>1. d \in Bodies(p, c) /\ d \in Context
    BY <1>1, <1>2
  <2>2. Restricts(d) /\ (Rule[d].onMaster \/ Owner[Rule[d].restricts] \in p.tokens)
    BY <1>5, <2>1 DEF Linked
  <2>3. CASE Rule[d].onMaster
    BY <1>5, <2>1, <2>3, Pairs DEF Removed, Net
  <2>4. CASE ~Rule[d].onMaster
    <3>1. Owner[Rule[d].restricts] = Rule[d].slave
      BY <2>1, <2>2, <2>4 DEF Orderly, Restricts
    <3>2. QED
      BY <2>1, <2>2, <2>4, <3>1 DEF Lost
  <2>5. QED
    BY <2>3, <2>4
<1> HIDE DEF q, ts, ks
<1>6. Linked(q)
  BY <1>1, <1>2, <1>3, <1>4, <1>5, DroppedLinks
<1>7. QED
  BY <1>6 DEF q

LEMMA UndoneWhole ==
  ASSUME Orderly, NEW p, NEW M, Good(p, M), NEW c \in Context, NEW X, Whole(p, X)
  PROVE  LET q == Undone(p, c)
         IN  /\ Whole(q, X \cup {c})
             /\ \A d \in Due(q.executed, q.active) : d \in q.alive \/ d \in X
<1> DEFINE q == Undone(p, c)
<1>1. /\ Typed(p) /\ p.alive \subseteq Context /\ p.executed \subseteq p.alive
      /\ p.tokens \subseteq Token /\ p.active \subseteq p.tokens
  BY Fields DEF Good, Typed
<1>2. /\ Dropped(p, q, Lost(p, c), Removed(p, c))
      /\ q.alive = p.alive \ Gone(p, c) /\ q.executed = p.executed \ Bodies(p, c)
  BY <1>1, UndoneDrops
<1> HIDE DEF q
<1>3. /\ \A t : t \in q.tokens <=> t \in p.tokens /\ t \notin Lost(p, c)
      /\ \A t : t \in q.active <=> t \in p.active /\ t \notin Lost(p, c)
  BY <1>2 DEF Dropped
<1>4. \A d \in Bodies(p, c) : d \in Context
  BY <1>1 DEF Bodies, Gone
<1>5. Given \subseteq q.tokens
  <2>1. \A t \in Lost(p, c) : t \notin Given
    BY <1>1, <1>4, Contexts, Families DEF Lost
  <2>2. QED
    BY <1>3, <2>1 DEF Whole
<1>6. ASSUME NEW d \in Due(q.executed, q.active), d \notin X PROVE d \in q.alive
  <2>1. d \in Context /\ IF Rule[d].parent > 0 THEN Rule[d].parent \in q.executed ELSE Rule[d].master \in q.active
    BY DEF Due
  <2>2. d \in p.alive
    <3>1. d \in Due(p.executed, p.active)
      BY <1>2, <1>3, <2>1 DEF Due
    <3>2. QED
      BY <1>6, <3>1 DEF Whole
  <2>3. ASSUME c \in Above[d] PROVE FALSE
    <3>1. c \in CausesOf(d) \/ \E e \in CausesOf(d) : c \in Above[e]
      BY <2>1, <2>3, AboveInverse
    <3>2. CASE Rule[d].parent > 0
      <4>1. CausesOf(d) = {Rule[d].parent} /\ Rule[d].parent \in p.alive /\ Rule[d].parent \notin Bodies(p, c)
        BY <1>1, <1>2, <2>1, <3>2 DEF CausesOf
      <4>2. QED
        BY <3>1, <4>1 DEF Bodies, Gone
    <3>3. CASE ~(Rule[d].parent > 0)
      <4>1. Rule[d].master \in p.active /\ Rule[d].master \in p.tokens /\ Rule[d].master \notin Lost(p, c)
        BY <1>1, <1>3, <2>1, <3>3
      <4>2. \A e \in CausesOf(d) : e \in p.alive /\ Rule[e].slave = Rule[d].master
        BY <1>1, <2>2, <3>3, <4>1, CausesExecuted DEF CausesOf
      <4>3. PICK e \in CausesOf(d) : e \in Bodies(p, c)
        BY <3>1, <4>2 DEF Bodies, Gone
      <4>4. QED
        BY <4>1, <4>2, <4>3 DEF Lost
    <3>4. QED
      BY <3>2, <3>3
  <2>4. QED
    BY <1>2, <2>2, <2>3 DEF Gone
<1>7. ASSUME NEW d \in q.alive, d \notin X, d # c PROVE Guarded(d) \/ d \in q.executed
  BY <1>2, <1>7 DEF Whole, Bodies
<1>8. ASSUME NEW d \in q.executed, Rule[d].slave \notin Deletable \cup {NoToken}
      PROVE  Rule[d].slave \in q.tokens
  <2>1. d \in p.executed /\ d \notin Bodies(p, c) /\ d \in Context
    BY <1>1, <1>2
  <2>2. Rule[d].slave \in p.tokens
    BY <1>8, <2>1 DEF Whole
  <2>3. Rule[d].slave \notin Lost(p, c)
    BY <1>1, <1>4, <2>1, <2>2, OwnSlave DEF Lost
  <2>4. QED
    BY <1>3, <2>2, <2>3
<1>9. QED
  BY <1>5, <1>6, <1>7, <1>8 DEF Whole, q

LEMMA UndoneExtra ==
  ASSUME Orderly, NEW p, NEW M, Good(p, M), NEW c \in Context,
         NEW X, NEW E, NEW U, Extra(p, X, E, U)
  PROVE  /\ Extra(Undone(p, c), X \cup {c}, E, U)
         /\ X = {} /\ ~Test(p, c) => Extra(Undone(p, c), X, E, U)
<1> DEFINE q == Undone(p, c)
           ts == Lost(p, c)
           ks == Removed(p, c)
<1>1. Typed(p) /\ p.alive \subseteq Context
  BY Fields DEF Good, Typed
<1>2. /\ Dropped(p, q, ts, ks)
      /\ q.alive = p.alive \ Gone(p, c) /\ q.executed = p.executed \ Bodies(p, c)
  BY <1>1, UndoneDrops
<1>3. /\ Linked(q) /\ Whole(q, X \cup {c})
      /\ \A d \in Due(q.executed, q.active) : d \in q.alive \/ d \in X
  BY UndoneLinked, UndoneWhole DEF Extra
<1> HIDE DEF q, ts, ks
<1>4. Fits(q)
  BY <1>1, <1>2, DroppedFits DEF Extra
<1>5. \A d \in q.alive :
         /\ GuardOf(d) \in p.agenda => GuardOf(d) \in q.agenda
         /\ \/ GuardOf(d) \in q.agenda
            \/ \A v \in Scope(d) : p.dom[v] = q.dom[v] /\ p.spec[v] = q.spec[v]
  <2>1. q.alive \subseteq p.alive
    BY <1>2
  <2>2. QED
    BY <1>1, <1>2, <1>3, <2>1, DroppedWatches DEF Extra
<1>6. ASSUME NEW d \in q.alive, d \notin X, d # c PROVE Watch(q, d, E, U)
  <2>1. d \in Context /\ d \in p.alive /\ Watch(p, d, E, U) /\ (d \in p.executed <=> d \in q.executed)
    BY <1>1, <1>2, <1>6 DEF Extra, Watched, Bodies
  <2>2. QED
    BY <1>5, <2>1, WatchMoves
<1>7. Watched(q, X \cup {c}, E, U)
  BY <1>6 DEF Watched
<1>8. ASSUME X = {}, ~Test(p, c) PROVE Whole(q, X) /\ Watched(q, X, E, U)
  <2>1. Guarded(c) /\ c \notin q.executed
    BY <1>2, <1>8, UnguardedPasses DEF Bodies
  <2>2. Whole(q, X)
    <3>1. \A d \in q.alive : Guarded(d) \/ d \in q.executed
      BY <1>3, <1>8, <2>1 DEF Whole
    <3>2. QED
      BY <1>3, <1>8, <3>1 DEF Whole
  <2>3. c \in q.alive => Watch(q, c, E, U)
    BY <1>5, <1>8, <2>1, TestReads DEF Watch
  <2>4. QED
    BY <1>6, <1>8, <2>2, <2>3 DEF Watched
<1>9. QED
  BY <1>3, <1>4, <1>7, <1>8 DEF Extra, q
-----------------------------------------------------------------------------
(* Changes that leave the network and its variables alone.                 *)
LEMMA Unmoved ==
  ASSUME NEW p, NEW q, NEW X, NEW E, NEW U, Linked(p), Fits(p), Watched(p, X, E, U),
         q.tokens = p.tokens, q.alive = p.alive, q.executed = p.executed, q.network = p.network,
         q.agenda = p.agenda, q.spec = p.spec, q.dom = p.dom
  PROVE  Linked(q) /\ Fits(q) /\ Watched(q, X, E, U)
<1>1. Net(q) = Net(p) /\ \A v : Unfiltered(q, v) = Unfiltered(p, v)
  BY DEF Net, Unfiltered
<1>2. Linked(q)
  BY <1>1 DEF Linked
<1>3. \A v : Ruling(q, v) = Ruling(p, v)
  BY <1>1 DEF Ruling
<1>4. Fits(q)
  BY <1>1, <1>3 DEF Fits, FitsAt
<1>5. \A c : (Test(q, c) <=> Test(p, c)) /\ (HasEmptyGuard(q, c) <=> HasEmptyGuard(p, c))
  BY DEF Test, Settled, HasEmptyGuard
<1>6. Watched(q, X, E, U)
  BY <1>5 DEF Watched, Watch
<1>7. QED
  BY <1>2, <1>4, <1>6

LEMMA UninstalledExtra ==
  ASSUME Orderly, NEW p, NEW M, Good(p, M), NEW c \in Roots,
         Rule[c].master \notin p.active, NEW X, NEW E, NEW U, Extra(p, X, E, U)
  PROVE  Extra(Uninstalled(p, c), X, E, U)
<1> DEFINE u == IF c \in p.executed THEN Undone(p, c) ELSE p
           none == {}
           ks == {GuardOf(c)}
           r == Without(u, none, ks)
           q == Uninstalled(p, c)
           Y == X \cup {c}
<1>1. c \in Context /\ Rule[c].parent = 0 /\ (\A t : t \notin none) /\ (\A k : k \in ks <=> k = GuardOf(c))
  BY DEF Roots
<1>2. Good(u, M) /\ c \notin u.executed /\ u.active \subseteq p.active
  BY <1>1, UndoneKeeps
<1>3. Extra(u, Y, E, U)
  <2>1. Extra(p, Y, E, U)
    BY MoreExempt
  <2>2. Extra(Undone(p, c), Y, E, U)
    BY <1>1, UndoneExtra
  <2>3. QED
    BY <2>1, <2>2
<1>4. q = [r EXCEPT !.alive = r.alive \ {c}]
  BY DEF Uninstalled, GuardOf
<1> HIDE DEF u, none, ks, q
<1>5. Typed(u) /\ u.alive \subseteq Context /\ u.executed \subseteq u.alive
  BY <1>2, Fields DEF Good, Typed
<1>6. Dropped(u, r, none, ks) /\ r.alive = u.alive /\ r.executed = u.executed /\ Typed(r)
  BY <1>5, WithoutDrops, WithoutKeeps
<1> HIDE DEF r
<1>7. /\ q.network = r.network /\ q.agenda = r.agenda /\ q.spec = r.spec /\ q.dom = r.dom
      /\ q.tokens = r.tokens /\ q.active = r.active
      /\ q.alive = u.alive \ {c} /\ q.executed = u.executed
  BY <1>4, <1>6 DEF Typed, Plan
<1>8. Dropped(u, q, none, ks)
  BY <1>6, <1>7, SameDrops
<1>9. Linked(u) /\ Fits(u) /\ Whole(u, Y) /\ Watched(u, Y, E, U)
  BY <1>3 DEF Extra
<1>10. Linked(q)
  <2>1. ASSUME NEW d \in q.alive, Guarded(d)
        PROVE  GuardOf(d) \notin ks /\ \A v \in Scope(d) : Owner[v] \notin none
    BY <1>1, <1>7, Pairs
  <2>2. \A d \in q.executed : RuleOf(d) \notin ks
    BY <1>1, Pairs
  <2>3. \A d : d \notin u.executed \ q.executed
    BY <1>7
  <2>4. q.alive \subseteq u.alive /\ q.executed \subseteq u.executed
    BY <1>7
  <2>5. QED
    BY <1>5, <1>8, <1>9, <2>1, <2>2, <2>3, <2>4, DroppedLinks
<1>11. Fits(q)
  BY <1>5, <1>8, <1>9, DroppedFits
<1>12. ASSUME NEW d \in q.alive, d \notin X PROVE Watch(q, d, E, U)
  <2>1. d \in u.alive /\ d # c /\ d \in Context /\ q.alive \subseteq u.alive
    BY <1>5, <1>7
  <2>2. Watch(u, d, E, U)
    BY <1>9, <1>12, <2>1 DEF Watched
  <2>3. /\ GuardOf(d) \in u.agenda => GuardOf(d) \in q.agenda
        /\ \/ GuardOf(d) \in q.agenda
           \/ \A v \in Scope(d) : u.dom[v] = q.dom[v] /\ u.spec[v] = q.spec[v]
    BY <1>5, <1>8, <1>9, <1>10, <2>1, DroppedWatches
  <2>4. QED
    BY <1>7, <2>1, <2>2, <2>3, WatchMoves
<1>13. Whole(q, X)
  <2>1. (\A t : t \in q.tokens <=> t \in u.tokens) /\ (\A t : t \in q.active <=> t \in u.active)
    BY <1>1, <1>8 DEF Dropped
  <2>2. ASSUME NEW d \in Due(q.executed, q.active) PROVE d \in q.alive \/ d \in X
    <3>1. d # c
      BY <1>1, <1>2, <2>1, <2>2 DEF Due
    <3>2. d \in Due(u.executed, u.active)
      BY <1>7, <2>1, <2>2 DEF Due
    <3>3. d \in u.alive \/ d \in Y
      BY <1>9, <3>2 DEF Whole
    <3>4. QED
      BY <1>7, <3>1, <3>3
  <2>3. \A d \in q.alive : Guarded(d) \/ d \in q.executed \/ d \in X
    BY <1>7, <1>9 DEF Whole
  <2>4. QED
    BY <1>7, <1>9, <2>1, <2>2, <2>3 DEF Whole
<1>14. QED
  BY <1>10, <1>11, <1>12, <1>13 DEF Extra, Watched, q

UninstalledExtraKept(k, S, p) == UninstalledKept(k, S, p) /\ Extra(p, {}, {}, {})

CancelLoop ==
  INSTANCE FoldInduction WITH Op <- UninstallOne, Pick <- Highest, I <- UninstalledExtraKept

LEMMA AllUninstalledExtra ==
  ASSUME Orderly, NEW p, NEW t, Good(p, {t}), t \notin p.active, Extra(p, {}, {}, {})
  PROVE  Extra(InOrder(Uninstalled, p, RootsOf(t)), {}, {}, {})
<1> DEFINE C == RootsOf(t)
           k == [master |-> t, active |-> p.active]
<1>1. C \subseteq Context /\ C \subseteq Roots /\ \A c \in C : Rule[c].master = t
  BY DEF RootsOf, Roots
<1>2. InOrder(Uninstalled, p, C) = CancelLoop!Fold(k, p, C)
  BY DEF InOrder, CancelLoop!Fold, CancelLoop!MapThenFoldSet, MapThenFoldSet, UninstallOne, Highest
<1>3. k.master = t /\ k.active = p.active
  OBVIOUS
<1> HIDE DEF C, k
<1>4. CancelLoop!IsFiniteSet(C) /\ CancelLoop!Picks(C)
  <2>1. IsFiniteSet(C)
    BY <1>1, SomeContexts
  <2>2. CancelLoop!IsFiniteSet(C)
    BY <2>1, Zenon DEF CancelLoop!IsFiniteSet, IsFiniteSet
  <2>3. QED
    BY <1>1, <2>2, SomeContexts DEF CancelLoop!Picks
<1>5. UninstalledExtraKept(k, {}, p)
  BY <1>3 DEF UninstalledExtraKept, UninstalledKept
<1>6. ASSUME NEW T \in SUBSET C, NEW q, T # {}, UninstalledExtraKept(k, T \ {Highest(T)}, q)
      PROVE  UninstalledExtraKept(k, T, UninstallOne(k, Highest(T), q))
  <2> DEFINE c == Highest(T)
             r == Uninstalled(q, c)
  <2>1. c \in T /\ c \in Context /\ c \in Roots /\ Rule[c].master = t
    BY <1>1, <1>6, SomeContexts
  <2>2. /\ Good(q, {t}) /\ q.active \subseteq p.active /\ \A d \in T \ {c} : d \notin q.alive
        /\ Extra(q, {}, {}, {})
    BY <1>3, <1>6 DEF UninstalledExtraKept, UninstalledKept
  <2> HIDE DEF c
  <2>3. /\ Good(r, {t}) /\ r.active \subseteq q.active /\ r.alive \subseteq q.alive
        /\ c \notin r.alive
    BY <2>1, <2>2, UninstalledKeeps
  <2>4. Extra(r, {}, {}, {})
    BY <2>1, <2>2, UninstalledExtra
  <2> HIDE DEF r
  <2>5. UninstalledExtraKept(k, T, r)
    BY <1>3, <2>1, <2>2, <2>3, <2>4 DEF UninstalledExtraKept, UninstalledKept
  <2>6. QED
    BY <2>5 DEF UninstallOne, r, c
<1>7. UninstalledExtraKept(k, C, CancelLoop!Fold(k, p, C))
  BY ONLY <1>4, <1>5, <1>6, CancelLoop!FoldKeeps
<1>8. QED
  BY <1>2, <1>7 DEF UninstalledExtraKept, C
-----------------------------------------------------------------------------
(* A body is executed.                                                     *)

(* q is p with the constraints ks, which wait to be executed.              *)
Told(p, q, ks) ==
  /\ \A k : k \in Net(q) <=> k \in Net(p) \/ k \in ks
  /\ \A k : k \in q.agenda <=> k \in p.agenda \/ k \in ks
  /\ q.spec = p.spec /\ q.dom = p.dom /\ q.active = p.active

LEMMA PostedTells ==
  ASSUME NEW p, NEW k, p \in Plan, k \in Constraint
  PROVE  Told(p, Posted(p, k), {k}) /\ Same(p, Posted(p, k))
<1> DEFINE n == IF k \in ToSet(p.network) THEN p.network ELSE Append(p.network, k)
           a == p.agenda \cup {k}
           q == Posted(p, k)
<1>1. \A x : x \in ToSet(n) <=> x \in ToSet(p.network) \/ x = k
  <2>1. p.network \in Seq(Constraint)
    BY Fields
  <2>2. CASE k \in ToSet(p.network)
    BY <2>2
  <2>3. CASE k \notin ToSet(p.network)
    <3> DEFINE m == Append(p.network, k)
    <3>1. \A x : x \in ToSet(m) <=> x \in ToSet(p.network) \/ x = k
      BY <2>1, Elements
    <3>2. n = m
      BY <2>3
    <3> HIDE DEF m, n
    <3>3. QED
      BY <3>1, <3>2
  <2>4. QED
    BY <2>2, <2>3
<1>2. \A x : x \in a <=> x \in p.agenda \/ x = k
  OBVIOUS
<1>3. q = [p EXCEPT !.network = n, !.agenda = a]
  BY DEF Posted
<1> HIDE DEF n, a, q
<1>4. /\ q.network = n /\ q.agenda = a /\ q.spec = p.spec /\ q.dom = p.dom
      /\ q.tokens = p.tokens /\ q.active = p.active /\ q.alive = p.alive /\ q.executed = p.executed
  BY <1>3 DEF Plan
<1>5. QED
  BY <1>1, <1>2, <1>4 DEF Told, Same, Net, q

Listeners(c) == IF Guarded(c) THEN {GuardOf(c)} ELSE {}

LEMMA CreatedTells ==
  ASSUME NEW p, NEW c \in Context, p \in Plan
  PROVE  LET q == Created(p, c)
         IN  /\ Told(p, q, Listeners(c))
             /\ q.alive = p.alive \cup {c} /\ q.executed = p.executed /\ q.tokens = p.tokens
<1> DEFINE a == p.alive \cup {c}
           r == [p EXCEPT !.alive = a]
           q == Created(p, c)
<1>1. a \in SUBSET Context
  BY Fields
<1>2. /\ Guarded(c) => q = Posted(r, GuardOf(c))
      /\ ~Guarded(c) => q = r
  BY DEF Created, GuardOf
<1> HIDE DEF a, q
<1>3. /\ r \in Plan /\ r.alive = a /\ r.executed = p.executed /\ r.tokens = p.tokens
      /\ r.active = p.active /\ r.spec = p.spec /\ r.dom = p.dom
      /\ r.network = p.network /\ r.agenda = p.agenda
  BY <1>1 DEF Plan
<1> HIDE DEF r
<1>4. CASE Guarded(c)
  <2>1. Told(r, q, {GuardOf(c)}) /\ Same(r, q)
    BY <1>2, <1>3, <1>4, Pairs, PostedTells
  <2>2. Listeners(c) = {GuardOf(c)} /\ Net(r) = Net(p)
    BY <1>3, <1>4 DEF Listeners, Net
  <2>3. QED
    BY <1>3, <2>1, <2>2 DEF Told, Same, q, a
<1>5. CASE ~Guarded(c)
  <2>1. Listeners(c) = {} /\ q = r /\ Net(r) = Net(p)
    BY <1>2, <1>3, <1>5 DEF Listeners, Net
  <2>2. QED
    BY <1>3, <2>1 DEF Told, q, a
<1>6. QED
  BY <1>4, <1>5

LEMMA CreatedExtra ==
  ASSUME NEW p, NEW c \in Context, p \in Plan, NEW X, NEW E, NEW U, Extra(p, X, E, U)
  PROVE  /\ Guarded(c) => Extra(Created(p, c), X \ {c}, E, U)
         /\ Extra(Created(p, c), X \cup {c}, E, U)
<1> DEFINE q == Created(p, c)
           Y == X \ {c}
<1>1. /\ Told(p, q, Listeners(c))
      /\ q.alive = p.alive \cup {c} /\ q.executed = p.executed /\ q.tokens = p.tokens
  BY CreatedTells
<1> HIDE DEF q
<1>2. \A k : k \in Listeners(c) <=> Guarded(c) /\ k = GuardOf(c)
  BY DEF Listeners
<1>3. /\ Whole(p, X) /\ Linked(p) /\ Fits(p) /\ Watched(p, X, E, U)
      /\ p.alive \subseteq Context /\ p.executed \subseteq Context
  BY Fields DEF Extra
<1>4. Linked(q)
  BY <1>1, <1>2, <1>3, Pairs DEF Linked, Told
<1>5. Fits(q)
  <2>1. (\A v : Unfiltered(q, v) = Unfiltered(p, v)) /\ \A v : Ruling(q, v) = Ruling(p, v)
    BY <1>1, <1>2, Pairs DEF Told, Unfiltered, Ruling
  <2>2. QED
    BY <1>1, <1>3, <2>1 DEF Fits, FitsAt, Told
<1>6. ASSUME NEW d \in p.alive, d \notin X PROVE Watch(q, d, E, U)
  <2>1. Watch(p, d, E, U) /\ d \in Context
    BY <1>3, <1>6 DEF Watched
  <2>2. QED
    BY <1>1, <2>1, WatchMoves DEF Told
<1>7. Guarded(c) => Watch(q, c, E, U)
  BY <1>1, <1>2 DEF Watch, Told
<1>8. /\ Guarded(c) => Watched(q, Y, E, U)
      /\ Watched(q, X \cup {c}, E, U)
  BY <1>1, <1>6, <1>7 DEF Watched
<1>9. q.active = p.active
  BY <1>1 DEF Told
<1>10. /\ Guarded(c) => Whole(q, Y)
       /\ Whole(q, X \cup {c})
  BY <1>1, <1>3, <1>9 DEF Whole
<1>11. QED
  BY <1>4, <1>5, <1>8, <1>10 DEF Extra, q

ConditionalsExtra(k, S, p) ==
  CreatedKept(k.plan, S, p) /\ Extra(p, k.exempt \cup (k.all \ S), k.toExecute, k.toUndo)

ConditionalLoop ==
  INSTANCE FoldInduction WITH Op <- CreateOne, Pick <- Highest, I <- ConditionalsExtra

LEMMA AllConditionals ==
  ASSUME NEW p, NEW C, Good(p, {}), C \subseteq Context, \A c \in C : Guarded(c),
         \A c \in C : Rule[c].master \in p.active /\ Rule[c].parent \in p.executed,
         NEW X, NEW E, NEW U, Extra(p, X \cup C, E, U)
  PROVE  Extra(InOrder(Created, p, C), X, E, U)
<1> DEFINE k == [plan |-> p, exempt |-> X, all |-> C, toExecute |-> E, toUndo |-> U]
<1>1. InOrder(Created, p, C) = ConditionalLoop!Fold(k, p, C)
  BY DEF InOrder, ConditionalLoop!Fold, ConditionalLoop!MapThenFoldSet, MapThenFoldSet, CreateOne,
         Highest
<1>2. k.plan = p /\ k.exempt = X /\ k.all = C /\ k.toExecute = E /\ k.toUndo = U
  OBVIOUS
<1> HIDE DEF k
<1>3. ConditionalLoop!IsFiniteSet(C) /\ ConditionalLoop!Picks(C)
  <2>1. IsFiniteSet(C)
    BY SomeContexts
  <2>2. ConditionalLoop!IsFiniteSet(C)
    BY <2>1, Zenon DEF ConditionalLoop!IsFiniteSet, IsFiniteSet
  <2>3. QED
    BY <2>2, SomeContexts DEF ConditionalLoop!Picks
<1>4. ConditionalsExtra(k, {}, p)
  <2>1. C \ {} = C
    OBVIOUS
  <2>2. QED
    BY <1>2, <2>1 DEF ConditionalsExtra, CreatedKept
<1>5. ASSUME NEW T \in SUBSET C, NEW q, T # {}, ConditionalsExtra(k, T \ {Highest(T)}, q)
      PROVE  ConditionalsExtra(k, T, CreateOne(k, Highest(T), q))
  <2> DEFINE c == Highest(T)
             r == Created(q, c)
             Y == X \cup (C \ (T \ {c}))
             Z == X \cup (C \ T)
  <2>1. c \in C /\ c \in Context /\ c \in T
    BY <1>5, SomeContexts
  <2>2. /\ Good(q, {}) /\ q.active = p.active /\ q.executed = p.executed /\ p.alive \subseteq q.alive
        /\ Extra(q, Y, E, U)
    BY <1>2, <1>5 DEF ConditionalsExtra, CreatedKept
  <2>3. Y \ {c} \subseteq Z
    BY <2>1
  <2> HIDE DEF c, Y, Z
  <2>4. Rule[c].master \in q.active \cup {} /\ Rule[c].parent \in q.executed
    BY <2>1, <2>2
  <2>5. /\ Good(r, {}) /\ r.alive = q.alive \cup {c}
        /\ r.active = q.active /\ r.executed = q.executed
    BY ONLY <2>1, <2>2, <2>4, CreatedKeeps
  <2>6. Extra(r, Z, E, U)
    <3>1. q \in Plan
      BY <2>2 DEF Good, Typed
    <3>2. Extra(r, Y \ {c}, E, U)
      BY <2>1, <2>2, <3>1, CreatedExtra
    <3> HIDE DEF r
    <3>3. QED
      BY <2>3, <3>2, MoreExempt
  <2> HIDE DEF r
  <2>7. CreatedKept(p, T, r)
    BY <2>2, <2>5 DEF CreatedKept
  <2>8. ConditionalsExtra(k, T, r)
    BY <1>2, <2>6, <2>7 DEF ConditionalsExtra, Z
  <2>9. QED
    BY <2>8 DEF CreateOne, r, c
<1>6. ConditionalsExtra(k, C, ConditionalLoop!Fold(k, p, C))
  BY ONLY <1>3, <1>4, <1>5, ConditionalLoop!FoldKeeps
<1>7. X \cup (C \ C) = X
  OBVIOUS
<1>8. QED
  BY <1>1, <1>2, <1>6, <1>7 DEF ConditionalsExtra
(* No body in force restricts a variable of a slave that is yet to come.   *)
LEMMA NoneRestricts ==
  ASSUME Orderly, NEW p, Good(p, {}), NEW c \in Context, c \notin p.executed,
         NEW d \in p.executed, Restricts(d), Owner[Rule[d].restricts] \notin p.tokens,
         Given \subseteq p.tokens
  PROVE  Owner[Rule[d].restricts] # Rule[c].slave
<1> SUFFICES ASSUME Owner[Rule[d].restricts] = Rule[c].slave PROVE FALSE
  OBVIOUS
<1>1. /\ d \in Context /\ d \in p.alive /\ p.active \subseteq p.tokens
      /\ Rule[d].restricts \in Variable /\ Rule[c].slave \in Token
  <2>1. d \in Context /\ d \in p.alive /\ p.active \subseteq p.tokens
    BY Fields DEF Good, Typed
  <2>2. Rule[d].restricts \in Variable
    BY <2>1, Contexts DEF Restricts
  <2>3. QED
    BY <2>1, <2>2, Families
<1>2. Rule[d].master \in p.tokens
  BY <1>1 DEF Good, Placed
<1>3. Owner[Rule[d].restricts] \in Given \cup {Rule[d].master} \cup {Rule[e].slave : e \in Above[d] \cup {d}}
  BY <1>1 DEF Orderly, Restricts
<1>4. PICK e \in Above[d] \cup {d} : Rule[e].slave = Rule[c].slave
  BY <1>2, <1>3
<1>5. Above[d] \subseteq p.executed /\ p.executed \subseteq Context
  BY <1>1, AboveExecuted, Fields DEF Good, Typed
<1>6. e = c
  BY <1>1, <1>4, <1>5, OwnSlave
<1>7. QED
  BY <1>4, <1>5, <1>6

(* The body without its conditionals.                                      *)
LEMMA BodyExtra ==
  ASSUME Orderly, NEW p, NEW q, NEW c \in p.alive, Good(p, {}), c \notin p.executed, Test(p, c),
         q.executed = p.executed \cup {c}, q.alive = p.alive,
         \A t : t \in q.tokens <=> t \in p.tokens \/ (t = Rule[c].slave /\ t # NoToken),
         Told(p, q, IF Restricts(c) THEN {RuleOf(c)} ELSE {}),
         NEW C, \A d \in Context : Rule[d].parent = c => d \in C,
         NEW X, NEW E, NEW U, Extra(p, X, E, U)
  PROVE  Extra(q, (X \ {c}) \cup C, E, U)
<1> DEFINE new == IF Restricts(c) THEN {RuleOf(c)} ELSE {}
           Y == (X \ {c}) \cup C
<1>1. /\ Whole(p, X) /\ Linked(p) /\ Fits(p) /\ Watched(p, X, E, U)
      /\ p.alive \subseteq Context /\ p.executed \subseteq p.alive /\ c \in Context
  BY Fields DEF Extra, Good, Typed
<1>2. Told(p, q, new) /\ \A k : k \in new <=> Restricts(c) /\ k = RuleOf(c)
  OBVIOUS
<1>3. \A d : d \in Y <=> (d \in X /\ d # c) \/ d \in C
  OBVIOUS
<1> HIDE DEF new, Y
<1>4. /\ \A k : k \in Net(q) <=> k \in Net(p) \/ k \in new
      /\ \A k : k \in q.agenda <=> k \in p.agenda \/ k \in new
      /\ q.spec = p.spec /\ q.dom = p.dom /\ q.active = p.active
  BY <1>2 DEF Told
<1>5. Whole(q, Y)
  <2>1. Given \subseteq q.tokens
    BY <1>1 DEF Whole
  <2>2. ASSUME NEW d \in Due(q.executed, q.active) PROVE d \in q.alive \/ d \in Y
    <3>1. d \in Due(p.executed, p.active) \/ d \in C
      BY <1>4, <2>2 DEF Due
    <3>2. d \in Due(p.executed, p.active) => d \in p.alive \/ d \in X
      BY <1>1 DEF Whole
    <3>3. QED
      BY <1>3, <3>1, <3>2
  <2>3. \A d \in q.alive : Guarded(d) \/ d \in q.executed \/ d \in Y
    BY <1>1, <1>3 DEF Whole
  <2>4. \A d \in q.executed : Rule[d].slave \notin Deletable \cup {NoToken} => Rule[d].slave \in q.tokens
    BY <1>1 DEF Whole
  <2>5. QED
    BY <2>1, <2>2, <2>3, <2>4 DEF Whole
<1>6. Linked(q)
  <2>1. \A d \in q.alive : Guarded(d) => GuardOf(d) \in Net(q)
    BY <1>1, <1>4 DEF Linked
  <2>2. ASSUME NEW d \in q.executed, Restricts(d), Owner[Rule[d].restricts] \in q.tokens
        PROVE  RuleOf(d) \in Net(q)
    <3>1. CASE d = c
      BY <1>2, <1>4, <2>2, <3>1
    <3>2. CASE d # c
      <4>1. d \in p.executed /\ Given \subseteq p.tokens
        BY <1>1, <3>2 DEF Whole
      <4>2. Owner[Rule[d].restricts] \in p.tokens
        BY <1>1, <2>2, <4>1, NoneRestricts
      <4>3. QED
        BY <1>1, <1>4, <2>2, <4>1, <4>2 DEF Linked
    <3>3. QED
      BY <3>1, <3>2
  <2>3. \A d \in Context : GuardOf(d) \in Net(q) => Guarded(d)
    BY <1>1, <1>2, <1>4, Pairs DEF Linked
  <2>4. ASSUME NEW d \in Context, RuleOf(d) \in Net(q)
        PROVE  /\ d \in q.executed /\ Restricts(d)
               /\ Rule[d].onMaster \/ Owner[Rule[d].restricts] \in q.tokens
    <3>1. CASE RuleOf(d) \in Net(p)
      BY <1>1, <2>4, <3>1 DEF Linked
    <3>2. CASE d = c /\ Restricts(c)
      <4>1. Rule[c].restricts \in Variable
        BY <1>1, <3>2, Contexts DEF Restricts
      <4>2. Owner[Rule[c].restricts] \in Token /\ NoToken \notin Token
        BY <4>1, Families
      <4>3. Rule[c].onMaster \/ Owner[Rule[c].restricts] = Rule[c].slave
        BY <1>1, <3>2 DEF Orderly, Restricts
      <4>4. QED
        BY <3>2, <4>2, <4>3
    <3>3. QED
      BY <1>2, <1>4, <2>4, <3>1, <3>2, Pairs
  <2>5. QED
    BY <2>1, <2>2, <2>3, <2>4 DEF Linked
<1>7. Fits(q)
  <2> SUFFICES ASSUME NEW v \in Variable PROVE FitsAt(q, v)
    BY DEF Fits
  <2>1. FitsAt(p, v) /\ Unfiltered(q, v) = Unfiltered(p, v)
    BY <1>1, <1>4 DEF Fits, Unfiltered
  <2>2. Ruling(p, v) \subseteq Ruling(q, v)
    BY <1>4 DEF Ruling
  <2>3. \A d \in Ruling(q, v) : d \in Ruling(p, v) \/ RuleOf(d) \in q.agenda
    BY <1>4 DEF Ruling
  <2>4. QED
    BY <1>4, <2>1, <2>2, <2>3 DEF FitsAt
<1>8. ASSUME NEW d \in q.alive, d \notin Y PROVE Watch(q, d, E, U)
  <2>1. d \in Context /\ (Test(q, d) <=> Test(p, d))
    BY <1>1, <1>4, TestReads
  <2>2. CASE d = c
    BY <2>1, <2>2 DEF Watch
  <2>3. CASE d # c
    <3>1. Watch(p, d, E, U)
      BY <1>1, <1>3, <1>8, <2>3 DEF Watched
    <3>2. QED
      BY <1>4, <2>1, <2>3, <3>1, WatchMoves
  <2>4. QED
    BY <2>2, <2>3
<1>9. QED
  BY <1>5, <1>6, <1>7, <1>8 DEF Extra, Watched, Y

LEMMA ExecutedExtra ==
  ASSUME Orderly, NEW p, NEW c \in p.alive, Good(p, {}), c \notin p.executed, Test(p, c),
         NEW X, NEW E, NEW U, Extra(p, X, E, U)
  PROVE  LET q == Executed(p, c)
         IN  Extra(q, X \ {c}, E, U) /\ q.executed = p.executed \cup {c}
<1> DEFINE new == {Rule[c].slave} \ {NoToken}
           ex == p.executed \cup {c}
           h == [p.held EXCEPT ![c] = new]
           ts == p.tokens \cup new
           r == [p EXCEPT !.executed = ex, !.held = h, !.tokens = ts]
           s == IF Restricts(c) THEN Posted(r, RuleOf(c)) ELSE r
           C == {d \in Context : Rule[d].parent = c}
           q == Executed(p, c)
           told == IF Restricts(c) THEN {RuleOf(c)} ELSE {}
           Y == X \ {c}
<1>1. /\ p \in Plan /\ p.active \subseteq p.tokens /\ p.executed \subseteq p.alive
      /\ p.agenda \subseteq ToSet(p.network) /\ c \in Context
  BY Fields DEF Good, Typed
<1>2. new \in SUBSET Token /\ \A t : t \in new <=> t = Rule[c].slave /\ t # NoToken
  BY <1>1, Contexts
<1>3. ex \in SUBSET Context /\ ex \subseteq p.alive /\ c \in ex /\ p.executed \subseteq ex
  BY <1>1, Fields
<1>4. q = InOrder(Created, s, C)
  BY DEF Executed, Restricts, RuleOf
<1>5. told = (IF Restricts(c) THEN {RuleOf(c)} ELSE {}) /\ Y \cup C = (X \ {c}) \cup C /\ ex = p.executed \cup {c}
  OBVIOUS
<1> HIDE DEF new, ex, q, told, Y
<1>6. ts \in SUBSET Token /\ \A t : t \in ts <=> t \in p.tokens \/ t \in new
  BY <1>1, <1>2, Fields
<1>7. h \in [Context -> SUBSET Token]
  <2>1. p.held \in [Context -> SUBSET Token]
    BY <1>1, Fields
  <2>2. QED
    BY <1>2, <2>1
<1> HIDE DEF ts, h
<1>8. /\ r \in Plan /\ r.executed = ex /\ r.tokens = ts
      /\ r.active = p.active /\ r.alive = p.alive /\ r.network = p.network /\ r.agenda = p.agenda
      /\ r.spec = p.spec /\ r.dom = p.dom
  BY <1>1, <1>3, <1>6, <1>7 DEF Plan
<1> HIDE DEF r
<1>9. Good(r, {})
  <2>1. Typed(r)
    BY <1>1, <1>3, <1>6, <1>8 DEF Typed
  <2>2. Placed(r, {})
    BY <1>3, <1>8 DEF Good, Placed
  <2>3. Founded(r)
    BY <1>2, <1>3, <1>6, <1>8 DEF Good, Founded
  <2>4. Listening(r)
    BY <1>8 DEF Good, Listening
  <2>5. QED
    BY <2>1, <2>2, <2>3, <2>4 DEF Good
<1>10. Good(s, {}) /\ Same(r, s) /\ Told(p, s, told)
  <2>1. RuleOf(c) \in Constraint /\ RuleOf(c)[1] # "guard" /\ Net(r) = Net(p)
    BY <1>1, <1>8, Pairs DEF Net
  <2>2. CASE Restricts(c)
    <3>1. s = Posted(r, RuleOf(c)) /\ told = {RuleOf(c)}
      BY <1>5, <2>2
    <3>2. Good(s, {}) /\ Same(r, s)
      BY <1>9, <2>1, <3>1, PostedKeeps
    <3>3. Told(r, s, told)
      BY <1>8, <2>1, <3>1, PostedTells
    <3>4. QED
      BY <1>8, <2>1, <3>2, <3>3 DEF Told
  <2>3. CASE ~Restricts(c)
    <3>1. s = r /\ told = {}
      BY <1>5, <2>3
    <3> HIDE DEF s
    <3>2. Same(r, s) /\ Told(p, s, told)
      BY <1>8, <2>1, <3>1 DEF Same, Told
    <3>3. QED
      BY <1>9, <3>1, <3>2
  <2>4. QED
    BY <2>2, <2>3
<1> HIDE DEF s
<1>11. C \subseteq Context /\ \A d \in Context : Rule[d].parent = c => d \in C
  OBVIOUS
<1>12. ASSUME NEW d \in C
       PROVE  Rule[d].master \in s.active /\ Rule[d].parent \in s.executed /\ Guarded(d)
  <2>1. d \in Context /\ Rule[d].parent = c /\ c \in 1 .. Len(Rule) /\ Len(Rule) \in Nat
    BY <1>1, Contexts
  <2>2. Rule[d].parent > 0
    BY <2>1
  <2>3. Rule[d].master = Rule[c].master /\ Guarded(d)
    BY <2>1, <2>2, RuleAssumption
  <2>4. Rule[c].master \in p.active
    BY DEF Good, Placed
  <2>5. QED
    BY <1>3, <1>8, <1>10, <2>1, <2>3, <2>4 DEF Same
<1> HIDE DEF C
<1>13. Extra(s, Y \cup C, E, U)
  <2>1. /\ s.executed = p.executed \cup {c} /\ s.alive = p.alive
        /\ \A t : t \in s.tokens <=> t \in p.tokens \/ (t = Rule[c].slave /\ t # NoToken)
    BY <1>2, <1>5, <1>6, <1>8, <1>10 DEF Same
  <2>2. Extra(s, (X \ {c}) \cup C, E, U)
    BY <1>5, <1>10, <1>11, <2>1, BodyExtra
  <2>3. QED
    BY <1>5, <2>2
<1>14. LET x == InOrder(Created, s, C) IN Extra(x, Y, E, U) /\ x.executed = s.executed
  BY <1>10, <1>11, <1>12, <1>13, AllConditionals, ConditionalsKeep
<1>15. QED
  BY <1>4, <1>5, <1>8, <1>10, <1>14 DEF Same, q, Y

InstalledExtra(k, S, p) ==
  /\ Good(p, {}) /\ p.active = k.active
  /\ Extra(p, k.all \ S, {}, {})
  /\ \A c \in k.all \ S : c \notin p.executed

ActivateLoop ==
  INSTANCE FoldInduction WITH Op <- InstallOne, Pick <- Highest, I <- InstalledExtra

LEMMA AllInstalledExtra ==
  ASSUME Orderly, NEW p, NEW t, Good(p, {}), t \in p.active,
         Extra(p, RootsOf(t), {}, {}), \A c \in RootsOf(t) : c \notin p.executed
  PROVE  Extra(InOrder(Installed, p, RootsOf(t)), {}, {}, {})
<1> DEFINE C == RootsOf(t)
           k == [all |-> C, active |-> p.active]
<1>1. \A c \in C : c \in Context /\ Rule[c].parent = 0 /\ Rule[c].master = t
  BY DEF RootsOf, Roots
<1>2. InOrder(Installed, p, C) = ActivateLoop!Fold(k, p, C)
  BY DEF InOrder, ActivateLoop!Fold, ActivateLoop!MapThenFoldSet, MapThenFoldSet, InstallOne, Highest
<1>3. k.all = C /\ k.active = p.active
  OBVIOUS
<1>4. Extra(p, C, {}, {}) /\ \A c \in C : c \notin p.executed
  OBVIOUS
<1> HIDE DEF C, k
<1>5. ActivateLoop!IsFiniteSet(C) /\ ActivateLoop!Picks(C)
  <2>1. IsFiniteSet(C)
    BY <1>1, SomeContexts
  <2>2. ActivateLoop!IsFiniteSet(C)
    BY <2>1, Zenon DEF ActivateLoop!IsFiniteSet, IsFiniteSet
  <2>3. QED
    BY <1>1, <2>2, SomeContexts DEF ActivateLoop!Picks
<1>6. InstalledExtra(k, {}, p)
  <2>1. C \ {} = C
    OBVIOUS
  <2>2. QED
    BY <1>3, <1>4, <2>1 DEF InstalledExtra
<1>7. ASSUME NEW T \in SUBSET C, NEW q, T # {}, InstalledExtra(k, T \ {Highest(T)}, q)
      PROVE  InstalledExtra(k, T, InstallOne(k, Highest(T), q))
  <2> DEFINE c == Highest(T)
             r == Created(q, c)
             s == Executed(r, c)
             Y == C \ (T \ {c})
             Z == C \ T
  <2>1. c \in C /\ c \in Context /\ c \in T
    BY <1>1, <1>7, SomeContexts
  <2>2. /\ Good(q, {}) /\ q.active = p.active /\ Extra(q, Y, {}, {})
        /\ \A d \in Y : d \notin q.executed
    BY <1>3, <1>7 DEF InstalledExtra
  <2>3. c \in Y /\ Y \ {c} = Z /\ (Y \cup {c}) \ {c} = Z /\ Z \subseteq Y /\ c \notin Z
    BY <2>1
  <2> HIDE DEF c, Y, Z
  <2>4. /\ Rule[c].master \in q.active \cup {}
        /\ Rule[c].parent > 0 => Rule[c].parent \in q.executed
        /\ q \in Plan
    BY <1>1, <2>1, <2>2 DEF Good, Typed
  <2>5. /\ Good(r, {}) /\ r.alive = q.alive \cup {c} /\ r.active = q.active
        /\ r.executed = q.executed
    BY ONLY <2>1, <2>2, <2>4, CreatedKeeps
  <2>6. /\ Guarded(c) => Extra(r, Y \ {c}, {}, {})
        /\ Extra(r, Y \cup {c}, {}, {})
    BY ONLY <2>1, <2>2, <2>4, CreatedExtra
  <2> HIDE DEF r
  <2>7. CASE Guarded(c)
    <3>1. InstallOne(k, c, q) = r
      BY <2>7 DEF InstallOne, Installed, r
    <3>2. InstalledExtra(k, T, r)
      BY <1>3, <2>2, <2>3, <2>5, <2>6, <2>7 DEF InstalledExtra, Z
    <3>3. QED
      BY <3>1, <3>2 DEF c
  <2>8. CASE ~Guarded(c)
    <3>1. InstallOne(k, c, q) = s
      BY <2>8 DEF InstallOne, Installed, r
    <3>2. Test(r, c) /\ c \in r.alive /\ c \notin r.executed
      BY <2>1, <2>2, <2>3, <2>5, <2>8, UnguardedPasses
    <3>3. Good(s, {}) /\ s.active = r.active
      BY <2>5, <3>2, ExecutedKeeps
    <3>4. Extra(s, (Y \cup {c}) \ {c}, {}, {}) /\ s.executed = r.executed \cup {c}
      BY <2>5, <2>6, <3>2, ExecutedExtra
    <3> HIDE DEF s
    <3>5. InstalledExtra(k, T, s)
      BY <1>3, <2>2, <2>3, <2>5, <3>3, <3>4 DEF InstalledExtra, Z
    <3>6. QED
      BY <3>1, <3>5 DEF c
  <2>9. QED
    BY <2>7, <2>8
<1>8. InstalledExtra(k, C, ActivateLoop!Fold(k, p, C))
  BY ONLY <1>5, <1>6, <1>7, ActivateLoop!FoldKeeps
<1>9. C \ C = {}
  OBVIOUS
<1>10. QED
  BY <1>2, <1>3, <1>8, <1>9 DEF InstalledExtra, C
-----------------------------------------------------------------------------
(* Single steps.                                                           *)
Following == Inv /\ Extra(plan, {}, ToSet(toExecute), ToSet(toUndo))

LEMMA Queues ==
  /\ ToSet(<< >>) = {}
  /\ \A S : \A s \in Seq(S) :
       /\ \A c \in S : ToSet(Append(s, c)) = ToSet(s) \cup {c}
       /\ s # << >> => ToSet(s) = ToSet(Tail(s)) \cup {Head(s)}
<1>1. ASSUME NEW S, NEW s \in Seq(S), NEW c \in S PROVE ToSet(Append(s, c)) = ToSet(s) \cup {c}
  <2> DEFINE m == Append(s, c)
  <2>1. /\ m \in Seq(S) /\ Len(m) = Len(s) + 1 /\ Len(s) \in Nat
        /\ m[Len(s) + 1] = c /\ \A i \in 1 .. Len(s) : m[i] = s[i]
    OBVIOUS
  <2>2. DOMAIN m = 1 .. Len(s) + 1 /\ DOMAIN s = 1 .. Len(s)
    BY <2>1
  <2> HIDE DEF m
  <2>3. ASSUME NEW x PROVE x \in ToSet(m) <=> x \in ToSet(s) \/ x = c
    <3>1. \A i \in 1 .. Len(s) + 1 : i = Len(s) + 1 \/ i \in 1 .. Len(s)
      BY <2>1
    <3>2. Len(s) + 1 \in 1 .. Len(s) + 1 /\ \A i \in 1 .. Len(s) : i \in 1 .. Len(s) + 1
      BY <2>1
    <3>3. QED
      BY <2>1, <2>2, <3>1, <3>2 DEF ToSet
  <2>4. QED
    BY <2>3 DEF m
<1>2. ASSUME NEW S, NEW s \in Seq(S), s # << >> PROVE ToSet(s) = ToSet(Tail(s)) \cup {Head(s)}
  <2> DEFINE m == Tail(s)
  <2>1. /\ Len(s) \in Nat /\ Len(s) > 0 /\ m \in Seq(S) /\ Len(m) = Len(s) - 1
        /\ Head(s) = s[1] /\ \A i \in 1 .. Len(s) - 1 : m[i] = s[i + 1]
    BY <1>2
  <2>2. DOMAIN m = 1 .. Len(s) - 1 /\ DOMAIN s = 1 .. Len(s)
    BY <2>1
  <2> HIDE DEF m
  <2>3. ASSUME NEW x \in ToSet(s) PROVE x \in ToSet(m) \/ x = Head(s)
    <3>1. PICK i \in 1 .. Len(s) : x = s[i]
      BY <2>2 DEF ToSet
    <3>2. CASE i = 1
      BY <2>1, <3>1, <3>2
    <3>3. CASE i # 1
      <4>1. i - 1 \in 1 .. Len(s) - 1 /\ (i - 1) + 1 = i
        BY <2>1, <3>1, <3>3
      <4>2. m[i - 1] = x
        BY <2>1, <3>1, <4>1
      <4>3. QED
        BY <2>2, <4>1, <4>2 DEF ToSet
    <3>4. QED
      BY <3>2, <3>3
  <2>4. ASSUME NEW x \in ToSet(m) PROVE x \in ToSet(s)
    <3>1. PICK i \in 1 .. Len(s) - 1 : x = m[i]
      BY <2>2 DEF ToSet
    <3>2. i + 1 \in 1 .. Len(s) /\ x = s[i + 1]
      BY <2>1, <3>1
    <3>3. QED
      BY <2>2, <3>2 DEF ToSet
  <2>5. Head(s) \in ToSet(s)
    <3>1. 1 \in 1 .. Len(s)
      BY <2>1
    <3>2. QED
      BY <2>1, <2>2, <3>1 DEF ToSet
  <2>6. QED
    BY <2>3, <2>4, <2>5 DEF m
<1>3. QED
  BY <1>1, <1>2, Elements

(* A variable is specified or reset, or a constraint narrows it: nothing   *)
(* but domains changes, and who reads the variable hears of it.            *)
LEMMA NetworkStays ==
  ASSUME NEW p, NEW q, Typed(p), NEW v, NEW E, NEW U, Extra(p, {}, E, U),
         Same(p, q), q.network = p.network,
         \A k \in Constraint : k[1] = "guard" /\ k \in p.agenda => k \in q.agenda,
         \/ \A k \in On(p, {v}) : k[1] = "guard" => k \in q.agenda
         \/ q.dom[v] = p.dom[v] /\ q.spec[v] = p.spec[v],
         \A w \in Variable : w # v => q.dom[w] = p.dom[w] /\ q.spec[w] = p.spec[w]
  PROVE  Whole(q, {}) /\ Linked(q) /\ Watched(q, {}, E, U)
<1>1. /\ Whole(p, {}) /\ Linked(p) /\ Watched(p, {}, E, U) /\ Net(q) = Net(p)
      /\ p.alive \subseteq Context /\ p.agenda \subseteq Net(p)
  BY Fields DEF Extra, Typed, Net
<1>2. Whole(q, {}) /\ Linked(q)
  BY <1>1 DEF Whole, Linked, Same
<1>3. ASSUME NEW c \in q.alive PROVE Watch(q, c, E, U)
  <2>1. c \in Context /\ Watch(p, c, E, U) /\ (c \in p.executed <=> c \in q.executed) /\ c \in p.alive
    BY <1>1, <1>3 DEF Watched, Same
  <2>2. GuardOf(c) \in p.agenda => GuardOf(c) \in q.agenda
    BY <2>1, Pairs
  <2>3. CASE v \in Scope(c)
    <3>1. GuardOf(c) \in Net(p)
      BY <1>1, <2>1, <2>3 DEF Linked, Guarded
    <3>2. GuardOf(c) \in On(p, {v}) /\ GuardOf(c)[1] = "guard"
      BY <2>3, <3>1, Pairs DEF On, Net
    <3>3. \/ GuardOf(c) \in q.agenda
          \/ \A w \in Scope(c) : p.dom[w] = q.dom[w] /\ p.spec[w] = q.spec[w]
      <4>1. \A w \in Scope(c) : w \in Variable
        BY <2>1, ScopeVariables
      <4>2. QED
        BY <3>2, <4>1
    <3>4. QED
      BY <2>1, <2>2, <3>3, WatchMoves
  <2>4. CASE v \notin Scope(c)
    <3>1. \A w \in Scope(c) : w \in Variable /\ w # v
      BY <2>1, <2>4, ScopeVariables
    <3>2. \A w \in Scope(c) : p.dom[w] = q.dom[w] /\ p.spec[w] = q.spec[w]
      BY <3>1
    <3>3. QED
      BY <2>1, <2>2, <3>2, WatchMoves
  <2>5. QED
    BY <2>3, <2>4
<1>4. QED
  BY <1>2, <1>3 DEF Watched

LEMMA RefreshedExtra ==
  ASSUME NEW p, NEW q, Typed(p), NEW v \in Variable, NEW E, NEW U, Extra(p, {}, E, U),
         Same(p, q), q.network = p.network,
         \A k : k \in q.agenda <=> k \in p.agenda \/ k \in On(p, {v}),
         q.dom[v] = Unfiltered(q, v),
         \A w \in Variable : w # v => q.dom[w] = p.dom[w] /\ q.spec[w] = p.spec[w]
  PROVE  Extra(q, {}, E, U)
<1>1. Whole(q, {}) /\ Linked(q) /\ Watched(q, {}, E, U)
  BY NetworkStays
<1>2. Net(q) = Net(p) /\ Fits(p) /\ \A w : Ruling(q, w) = Ruling(p, w)
  BY DEF Net, Extra, Ruling
<1>3. ASSUME NEW w \in Variable PROVE FitsAt(q, w)
  <2>1. CASE w = v
    <3>1. ASSUME NEW c \in Ruling(q, v) PROVE RuleOf(c) \in q.agenda
      <4>1. RuleOf(c) \in Net(p) /\ ScopeOf(RuleOf(c)) = {v}
        BY <1>2, Pairs DEF Ruling
      <4>2. RuleOf(c) \in On(p, {v})
        BY <4>1 DEF On, Net
      <4>3. QED
        BY <4>2
    <3>2. QED
      BY <2>1, <3>1 DEF FitsAt
  <2>2. CASE w # v
    <3>1. FitsAt(p, w) /\ q.dom[w] = p.dom[w] /\ Unfiltered(q, w) = Unfiltered(p, w)
      BY <1>2, <2>2 DEF Fits, Unfiltered
    <3>2. QED
      BY <1>2, <3>1 DEF FitsAt
  <2>3. QED
    BY <2>1, <2>2
<1>4. QED
  BY <1>1, <1>3 DEF Extra, Fits

LEMMA NarrowedExtra ==
  ASSUME NEW p, Typed(p), NEW c \in Context, RuleOf(c) \in Net(p), NEW E, NEW U, Extra(p, {}, E, U)
  PROVE  Extra(Narrowed(p, RuleOf(c)), {}, E, U)
<1> DEFINE k == RuleOf(c)
           v == Rule[c].restricts
           d == [p.dom EXCEPT ![v] = @ \cap Rule[c].to]
           a == p.agenda \ {k}
           b == a \cup (On(p, {v}) \ {k})
           r == [p EXCEPT !.dom = d, !.agenda = a]
           q == Narrowed(p, k)
<1>1. p \in Plan /\ Linked(p) /\ Fits(p) /\ k[2] = c /\ k[1] # "guard"
  BY Pairs DEF Typed, Extra
<1>2. v \in Variable
  <2>1. Restricts(c)
    BY <1>1 DEF Linked
  <2>2. QED
    BY <2>1, Contexts DEF Restricts
<1>3. /\ d[v] = p.dom[v] \cap Rule[c].to
      /\ \A w \in Variable : w # v => d[w] = p.dom[w]
      /\ d[v] \subseteq Rule[c].to /\ d[v] \subseteq p.dom[v]
      /\ \A x : x \in p.dom[v] /\ x \in Rule[c].to => x \in d[v]
  <2>1. p.dom \in [Variable -> SUBSET Value]
    BY <1>1, Fields
  <2>2. d[v] = p.dom[v] \cap Rule[c].to /\ \A w \in Variable : w # v => d[w] = p.dom[w]
    BY <1>2, <2>1
  <2> HIDE DEF d
  <2>3. QED
    BY <2>2
<1>4. /\ \A x : x \in a <=> x \in p.agenda /\ x # k
      /\ \A x : x \in b <=> (x \in p.agenda \/ x \in On(p, {v})) /\ x # k
  OBVIOUS
<1>5. q = IF r.dom[v] = p.dom[v] THEN r ELSE [r EXCEPT !.agenda = @ \cup (On(p, {v}) \ {k})]
  BY <1>1 DEF Narrowed
<1> HIDE DEF d, a, b, k, v
<1>6. /\ r.dom = d /\ r.agenda = a /\ Same(p, r) /\ r.network = p.network /\ r.spec = p.spec
      /\ DOMAIN r = DOMAIN p
  BY <1>1 DEF Plan, Same
<1> HIDE DEF r, q
<1>7. /\ q.dom = d /\ Same(p, q) /\ q.network = p.network /\ q.spec = p.spec
      /\ \A x : x \in p.agenda /\ x # k => x \in q.agenda
      /\ \/ d[v] = p.dom[v]
         \/ \A x : x \in On(p, {v}) /\ x # k => x \in q.agenda
  <2>1. CASE r.dom[v] = p.dom[v]
    <3>1. q = r
      BY <1>5, <2>1
    <3>2. QED
      BY <1>4, <1>6, <2>1, <3>1
  <2>2. CASE r.dom[v] # p.dom[v]
    <3>1. q = [r EXCEPT !.agenda = b]
      BY <1>5, <1>6, <2>2 DEF b
    <3>2. /\ q.dom = r.dom /\ q.network = r.network /\ q.spec = r.spec /\ q.tokens = r.tokens
          /\ q.active = r.active /\ q.alive = r.alive /\ q.executed = r.executed
      BY <3>1
    <3>3. q.agenda = b
      BY <1>1, <1>6, <3>1 DEF Plan
    <3>4. QED
      BY <1>4, <1>6, <3>2, <3>3 DEF Same
  <2>3. QED
    BY <2>1, <2>2
<1>8. Whole(q, {}) /\ Linked(q) /\ Watched(q, {}, E, U)
  <2>1. \A x \in Constraint : x[1] = "guard" /\ x \in p.agenda => x \in q.agenda
    BY <1>1, <1>7
  <2>2. \/ \A x \in On(p, {v}) : x[1] = "guard" => x \in q.agenda
        \/ q.dom[v] = p.dom[v] /\ q.spec[v] = p.spec[v]
    BY <1>1, <1>7
  <2>3. \A w \in Variable : w # v => q.dom[w] = p.dom[w] /\ q.spec[w] = p.spec[w]
    BY <1>3, <1>7
  <2>4. QED
    BY <1>7, <2>1, <2>2, <2>3, NetworkStays
<1>9. (\A w : Ruling(q, w) = Ruling(p, w)) /\ \A w : Unfiltered(q, w) = Unfiltered(p, w)
  BY <1>7 DEF Net, Ruling, Unfiltered
<1>10. \A e : RuleOf(e) = k => e = c
  BY Pairs DEF k
<1>11. ASSUME NEW w \in Variable PROVE FitsAt(q, w)
  <2>1. FitsAt(p, w)
    BY <1>1 DEF Fits
  <2>2. CASE w = v
    <3>1. q.dom[v] \subseteq p.dom[v] /\ q.dom[v] \subseteq Rule[c].to
      BY <1>3, <1>7
    <3>2. ASSUME NEW e \in Ruling(p, v) PROVE RuleOf(e) \in q.agenda \/ q.dom[v] \subseteq Rule[e].to
      <4>1. RuleOf(e) \in p.agenda \/ p.dom[v] \subseteq Rule[e].to
        BY <2>1, <2>2 DEF FitsAt
      <4>2. QED
        BY <1>7, <1>10, <3>1, <4>1
    <3>3. ASSUME NEW x \in Unfiltered(p, v), \A e \in Ruling(p, v) : x \in Rule[e].to PROVE x \in q.dom[v]
      <4>1. c \in Ruling(p, v)
        BY DEF Ruling, k, v
      <4>2. x \in p.dom[v]
        BY <2>1, <2>2, <3>3 DEF FitsAt
      <4>3. QED
        BY <1>3, <1>7, <3>3, <4>1, <4>2
    <3>4. q.dom[v] \subseteq Unfiltered(p, v)
      BY <2>1, <2>2, <3>1 DEF FitsAt
    <3>5. QED
      BY <1>9, <2>2, <3>2, <3>3, <3>4 DEF FitsAt
  <2>3. CASE w # v
    <3>1. q.dom[w] = p.dom[w]
      BY <1>3, <1>7, <2>3
    <3>2. \A e \in Ruling(p, w) : RuleOf(e) \in p.agenda => RuleOf(e) \in q.agenda
      <4>1. ASSUME NEW e \in Ruling(p, w) PROVE e # c
        BY <2>3 DEF Ruling, v
      <4>2. QED
        BY <1>7, <1>10, <4>1
    <3>3. QED
      BY <1>9, <2>1, <3>1, <3>2 DEF FitsAt
  <2>4. QED
    BY <2>2, <2>3
<1>12. Extra(q, {}, E, U)
  BY <1>8, <1>11 DEF Extra, Fits
<1>13. QED
  BY <1>12 DEF q, k
LEMMA DueIs ==
  ASSUME NEW F, NEW a, NEW c \in Context
  PROVE  /\ Rule[c].parent > 0 => (c \in Due(F, a) <=> Rule[c].parent \in F)
         /\ ~(Rule[c].parent > 0) => (c \in Due(F, a) <=> Rule[c].master \in a)
BY DEF Due

LEMMA Idle ==
  ASSUME Following, phase = "idle"
  PROVE  Good(plan, {}) /\ Extra(plan, {}, {}, {})
BY Queues DEF Following, Inv, Waiting

LEMMA ClientFollows ==
  ASSUME NEW p, Following, Client(p), Extra(p, {}, {}, {})
  PROVE  Extra(plan', {}, ToSet(toExecute'), ToSet(toUndo'))
BY Queues DEF Following, Inv, Waiting, Client

LEMMA ActivateFollows ==
  ASSUME Orderly, Following, NEW t \in Token, Activate(t)
  PROVE  Extra(plan', {}, ToSet(toExecute'), ToSet(toUndo'))
<1> DEFINE a == plan.active \cup {t}
           p == [plan EXCEPT !.active = a]
           C == RootsOf(t)
           q == InOrder(Installed, p, C)
<1>1. /\ Good(plan, {}) /\ plan \in Plan /\ t \in plan.tokens /\ t \notin plan.active
      /\ Extra(plan, {}, {}, {}) /\ plan.executed \subseteq plan.alive
  BY Idle DEF Good, Typed, Activate, Client
<1>2. /\ a \in SUBSET Token /\ a \subseteq plan.tokens /\ t \in a
      /\ \A u : u \in a <=> u \in plan.active \/ u = t
  BY <1>1, Fields DEF Good, Typed
<1>3. Client(q)
  BY DEF Activate
<1> HIDE DEF a
<1>4. /\ p \in Plan /\ p.active = a /\ p.tokens = plan.tokens /\ p.alive = plan.alive
      /\ p.executed = plan.executed /\ p.network = plan.network /\ p.agenda = plan.agenda
      /\ p.spec = plan.spec /\ p.dom = plan.dom
  BY <1>1, <1>2 DEF Plan
<1> HIDE DEF p
<1>5. Good(p, {})
  <2>1. Typed(p)
    BY <1>1, <1>2, <1>4 DEF Good, Typed
  <2>2. Placed(p, {}) /\ Founded(p) /\ Listening(p)
    BY <1>1, <1>2, <1>4 DEF Good, Placed, Founded, Listening
  <2>3. QED
    BY <2>1, <2>2 DEF Good
<1>6. \A c \in Context : c \in C <=> Rule[c].parent = 0 /\ Rule[c].master = t
  BY DEF RootsOf, Roots
<1>7. Extra(plan, C, {}, {}) /\ \A c \in C : c \in Context
  BY <1>1, MoreExempt DEF RootsOf, Roots
<1> HIDE DEF C
<1>8. Linked(p) /\ Fits(p) /\ Watched(p, C, {}, {})
  BY <1>4, <1>7, Unmoved DEF Extra
<1>9. Whole(p, C)
  <2>1. ASSUME NEW c \in Due(p.executed, p.active) PROVE c \in p.alive \/ c \in C
    <3>1. c \in Context
      BY <2>1 DEF Due
    <3>2. ~(Rule[c].parent > 0) => Rule[c].parent = 0
      BY <3>1, Contexts
    <3>3. c \in Due(plan.executed, plan.active) => c \in plan.alive
      BY <1>1 DEF Extra, Whole
    <3>4. CASE Rule[c].parent > 0
      BY <1>4, <2>1, <3>1, <3>3, <3>4, DueIs
    <3>5. CASE ~(Rule[c].parent > 0)
      <4>1. Rule[c].master \in a
        BY <1>4, <2>1, <3>1, <3>5, DueIs
      <4>2. Rule[c].master = t => c \in C
        BY <1>6, <3>1, <3>2, <3>5
      <4>3. Rule[c].master \in plan.active => c \in plan.alive
        BY <3>1, <3>3, <3>5, DueIs
      <4>4. QED
        BY <1>2, <1>4, <4>1, <4>2, <4>3
    <3>6. QED
      BY <3>4, <3>5
  <2>2. QED
    BY <1>4, <1>7, <2>1 DEF Extra, Whole
<1>10. \A c \in C : c \notin p.executed
  BY <1>1, <1>4, <1>6, <1>7 DEF Good, Placed
<1>11. Extra(q, {}, {}, {})
  <2>1. Extra(p, RootsOf(t), {}, {}) /\ \A c \in RootsOf(t) : c \notin p.executed
    BY <1>8, <1>9, <1>10 DEF Extra, C
  <2>2. QED
    BY <1>2, <1>4, <1>5, <2>1, AllInstalledExtra DEF C
<1> HIDE DEF q
<1>12. QED
  BY <1>3, <1>11, ClientFollows

LEMMA CancelFollows ==
  ASSUME Orderly, Following, NEW t \in Token, Cancel(t)
  PROVE  Extra(plan', {}, ToSet(toExecute'), ToSet(toUndo'))
<1> DEFINE a == plan.active \ {t}
           p == [plan EXCEPT !.active = a]
           q == InOrder(Uninstalled, p, RootsOf(t))
<1>1. Good(plan, {}) /\ plan \in Plan /\ Extra(plan, {}, {}, {})
  BY Idle DEF Good, Typed, Cancel, Client
<1>2. /\ a \in SUBSET Token /\ a \subseteq plan.active /\ t \notin a
      /\ \A u \in plan.active : u \in a \/ u = t
  BY <1>1, Fields
<1>3. Client(q)
  BY DEF Cancel
<1> HIDE DEF a
<1>4. /\ p \in Plan /\ p.active = a /\ p.tokens = plan.tokens /\ p.alive = plan.alive
      /\ p.executed = plan.executed /\ p.network = plan.network /\ p.agenda = plan.agenda
      /\ p.spec = plan.spec /\ p.dom = plan.dom
  BY <1>1, <1>2 DEF Plan
<1> HIDE DEF p
<1>5. Good(p, {t})
  <2>1. Typed(p)
    BY <1>1, <1>2, <1>4 DEF Good, Typed
  <2>2. Placed(p, {t}) /\ Founded(p) /\ Listening(p)
    BY <1>1, <1>2, <1>4 DEF Good, Placed, Founded, Listening
  <2>3. QED
    BY <2>1, <2>2 DEF Good
<1>6. Linked(p) /\ Fits(p) /\ Watched(p, {}, {}, {})
  BY <1>1, <1>4, Unmoved DEF Extra
<1>7. Whole(p, {})
  <2>1. Due(p.executed, p.active) \subseteq Due(plan.executed, plan.active)
    BY <1>2, <1>4 DEF Due
  <2>2. QED
    BY <1>1, <1>4, <2>1 DEF Extra, Whole
<1>8. Extra(q, {}, {}, {})
  BY <1>2, <1>4, <1>5, <1>6, <1>7, AllUninstalledExtra DEF Extra
<1> HIDE DEF q
<1>9. QED
  BY <1>3, <1>8, ClientFollows

LEMMA SpecifyFollows ==
  ASSUME Following, NEW v \in Variable, NEW x \in Value, Specify(v, x)
  PROVE  Extra(plan', {}, ToSet(toExecute'), ToSet(toUndo'))
<1> DEFINE s == [plan.spec EXCEPT ![v] = x]
           d == [plan.dom EXCEPT ![v] = {x}]
           a == plan.agenda \cup On(plan, {v})
           p == [plan EXCEPT !.spec = s, !.dom = d, !.agenda = a]
<1>1. Typed(plan) /\ plan \in Plan /\ Extra(plan, {}, {}, {})
  BY Idle DEF Good, Typed, Specify, Client
<1>2. /\ s[v] = x /\ d[v] = {x}
      /\ \A w \in Variable : w # v => s[w] = plan.spec[w] /\ d[w] = plan.dom[w]
  BY <1>1, Fields
<1>3. \A k : k \in a <=> k \in plan.agenda \/ k \in On(plan, {v})
  OBVIOUS
<1>4. Client(p)
  BY DEF Specify
<1> HIDE DEF s, d, a
<1>5. /\ Same(plan, p) /\ p.network = plan.network /\ p.agenda = a
      /\ p.spec = s /\ p.dom = d
  BY <1>1 DEF Plan, Same
<1> HIDE DEF p
<1>6. p.dom[v] = Unfiltered(p, v)
  BY <1>2, <1>5, Families DEF Unfiltered
<1>7. Extra(p, {}, {}, {})
  BY <1>1, <1>2, <1>3, <1>5, <1>6, RefreshedExtra
<1>8. QED
  BY <1>4, <1>7, ClientFollows

LEMMA ResetFollows ==
  ASSUME Following, NEW v \in Variable, Reset(v)
  PROVE  Extra(plan', {}, ToSet(toExecute'), ToSet(toUndo'))
<1> DEFINE s == [plan.spec EXCEPT ![v] = NoValue]
           p == [plan EXCEPT !.spec = s]
           d == [w \in Variable |-> IF w \in {v} THEN Unfiltered(p, w) ELSE p.dom[w]]
           a == plan.agenda \cup On(plan, {v})
           q == Relaxed(p, {v})
<1>1. Typed(plan) /\ plan \in Plan /\ Extra(plan, {}, {}, {})
  BY Idle DEF Good, Typed, Reset, Client
<1>2. \A w \in Variable : w # v => s[w] = plan.spec[w]
  BY <1>1, Fields
<1>3. Client(q)
  BY DEF Reset
<1> HIDE DEF s
<1>4. /\ Same(plan, p) /\ p.network = plan.network /\ p.agenda = plan.agenda /\ p.dom = plan.dom
      /\ p.spec = s /\ DOMAIN p = DOMAIN plan
  BY <1>1 DEF Plan, Same
<1>5. /\ d[v] = Unfiltered(p, v)
      /\ \A w \in Variable : w # v => d[w] = p.dom[w]
      /\ \A k : k \in a <=> k \in plan.agenda \/ k \in On(plan, {v})
  OBVIOUS
<1>6. q = [p EXCEPT !.dom = d, !.agenda = a]
  BY <1>4 DEF Relaxed, On
<1> HIDE DEF d, a, q
<1>7. /\ Same(plan, q) /\ q.network = plan.network /\ q.agenda = a /\ q.dom = d /\ q.spec = s
  BY <1>1, <1>6 DEF Plan, Same
<1> HIDE DEF p
<1>8. q.dom[v] = Unfiltered(q, v)
  BY <1>4, <1>5, <1>7 DEF Unfiltered
<1>9. Extra(q, {}, {}, {})
  <2>1. \A k : k \in q.agenda <=> k \in plan.agenda \/ k \in On(plan, {v})
    BY <1>5, <1>7
  <2>2. \A w \in Variable : w # v => q.dom[w] = plan.dom[w] /\ q.spec[w] = plan.spec[w]
    BY <1>2, <1>4, <1>5, <1>7
  <2>3. Same(plan, q) /\ q.network = plan.network
    BY <1>7
  <2>4. QED
    BY ONLY <1>1, <1>8, <2>1, <2>2, <2>3, v \in Variable, RefreshedExtra
<1>10. QED
  BY <1>3, <1>9, ClientFollows

(* Nothing reads or needs a slave that clients delete while it is inactive. *)
LEMMA DeleteTokenFollows ==
  ASSUME Orderly, Following, NEW t \in Token, DeleteToken(t)
  PROVE  Extra(plan', {}, ToSet(toExecute'), ToSet(toUndo'))
<1> DEFINE none == {}
           ts == {t}
           r == Without(plan, ts, none)
           h == [c \in Context |-> IF c \in Roots THEN r.held[c] \ {t} ELSE r.held[c]]
           q == [r EXCEPT !.held = h]
<1>1. /\ Good(plan, {}) /\ Typed(plan) /\ plan.alive \subseteq Context
      /\ plan.executed \subseteq plan.alive /\ Extra(plan, {}, {}, {})
      /\ t \notin plan.active /\ t \in Deletable
  BY Idle, Fields DEF Good, Typed, DeleteToken, Client
<1>2. Client(q)
  BY DEF DeleteToken
<1>3. (\A k : k \notin none) /\ \A u : u \in ts <=> u = t
  OBVIOUS
<1> HIDE DEF none, ts
<1>4. Dropped(plan, r, ts, none) /\ r.alive = plan.alive /\ r.executed = plan.executed /\ Typed(r)
  BY <1>1, WithoutDrops, WithoutKeeps
<1> HIDE DEF r, h
<1>5. /\ q.network = r.network /\ q.agenda = r.agenda /\ q.spec = r.spec /\ q.dom = r.dom
      /\ q.tokens = r.tokens /\ q.active = r.active
      /\ q.alive = plan.alive /\ q.executed = plan.executed
  BY <1>4 DEF Typed, Plan
<1> HIDE DEF q
<1>6. Dropped(plan, q, ts, none)
  BY <1>4, <1>5, SameDrops
<1>7. Linked(plan) /\ Fits(plan) /\ Whole(plan, {}) /\ Watched(plan, {}, {}, {})
  BY <1>1 DEF Extra
<1>8. t \notin Given /\ t \in Token
  BY <1>1, RuleAssumption
<1>9. Linked(q)
  <2>1. ASSUME NEW d \in q.alive, Guarded(d)
        PROVE  GuardOf(d) \notin none /\ \A v \in Scope(d) : Owner[v] \notin ts
    <3>1. d \in Context /\ Rule[d].master \in plan.active
      BY <1>1, <1>5 DEF Good, Placed
    <3>2. \A v \in Scope(d) :
            Owner[v] \in Given \cup {Rule[d].master} \cup ({Rule[e].slave : e \in Above[d]} \ Deletable)
      BY <3>1 DEF Orderly
    <3>3. \A v \in Scope(d) : Owner[v] # t
      BY <1>1, <1>8, <3>1, <3>2
    <3>4. QED
      BY <1>3, <3>3
  <2>2. \A d \in q.executed : RuleOf(d) \notin none
    BY <1>3
  <2>3. \A d : d \notin plan.executed \ q.executed
    BY <1>5
  <2>4. q.alive \subseteq plan.alive /\ q.executed \subseteq plan.executed
    BY <1>5
  <2>5. QED
    BY <1>1, <1>6, <1>7, <2>1, <2>2, <2>3, <2>4, DroppedLinks
<1>10. Fits(q)
  BY <1>1, <1>6, <1>7, DroppedFits
<1>11. ASSUME NEW d \in q.alive PROVE Watch(q, d, {}, {})
  <2>1. d \in plan.alive /\ d \in Context /\ q.alive \subseteq plan.alive
    BY <1>1, <1>5
  <2>2. Watch(plan, d, {}, {})
    BY <1>7, <2>1 DEF Watched
  <2>3. /\ GuardOf(d) \in plan.agenda => GuardOf(d) \in q.agenda
        /\ \/ GuardOf(d) \in q.agenda
           \/ \A v \in Scope(d) : plan.dom[v] = q.dom[v] /\ plan.spec[v] = q.spec[v]
    BY <1>1, <1>6, <1>7, <1>9, <2>1, DroppedWatches
  <2>4. QED
    BY <1>5, <2>1, <2>2, <2>3, WatchMoves
<1>12. Whole(q, {})
  <2>1. /\ \A u : u \in q.tokens <=> u \in plan.tokens /\ u # t
        /\ \A u : u \in q.active <=> u \in plan.active
    BY <1>1, <1>3, <1>6 DEF Dropped
  <2>2. Due(q.executed, q.active) \subseteq Due(plan.executed, plan.active)
    BY <1>5, <2>1 DEF Due
  <2>3. QED
    BY <1>1, <1>5, <1>7, <1>8, <2>1, <2>2 DEF Whole
<1>13. Extra(q, {}, {}, {})
  BY <1>9, <1>10, <1>11, <1>12 DEF Extra, Watched
<1>14. QED
  BY <1>2, <1>13, ClientFollows DEF q
(* Who hears of a change is noted for the engine.                          *)
LEMMA ExecuteListenerFollows ==
  ASSUME Following, ExecuteListener
  PROVE  Extra(plan', {}, ToSet(toExecute'), ToSet(toUndo'))
<1> DEFINE k == NextConstraint
           c == NextConstraint[2]
           a == plan.agenda \ {k}
           p == [plan EXCEPT !.agenda = a]
           E == ToSet(toExecute)
           U == ToSet(toUndo)
<1>1. /\ Good(plan, {}) /\ plan \in Plan /\ plan.agenda # {} /\ k[1] = "guard"
      /\ Extra(plan, {}, E, U) /\ toExecute \in Seq(plan.alive) /\ toUndo \in Seq(Context)
  BY DEF Following, Inv, Waiting, Good, Typed, ExecuteListener
<1>2. k \in ToSet(plan.network) /\ k \in Constraint
  BY <1>1, NextInNetwork
<1>3. c \in plan.alive /\ c \in Context /\ k = GuardOf(c)
  <2>1. c \in plan.alive
    BY <1>1, <1>2 DEF Good, Listening
  <2>2. c \in Context /\ (k = GuardOf(c) \/ k = RuleOf(c))
    BY <1>2, Pairs
  <2>3. QED
    BY <1>1, <2>1, <2>2, Pairs
<1>4. \A x : x \in a <=> x \in plan.agenda /\ x # k
  OBVIOUS
<1>5. /\ plan' = p
      /\ \/ c \in plan.executed /\ toUndo' = Append(toUndo, c) /\ toExecute' = toExecute
         \/ c \notin plan.executed /\ toExecute' = Append(toExecute, c) /\ toUndo' = toUndo
  BY DEF ExecuteListener
<1> HIDE DEF k, c, a
<1>6. Same(plan, p) /\ p.network = plan.network /\ p.agenda = a /\ p.spec = plan.spec /\ p.dom = plan.dom
  BY <1>1 DEF Plan, Same
<1> HIDE DEF p, E, U
<1> DEFINE F == ToSet(toExecute')
           V == ToSet(toUndo')
<1>7. /\ E \subseteq F /\ U \subseteq V
      /\ c \in plan.executed => c \in V
      /\ c \notin plan.executed => c \in F
  <2>1. ToSet(Append(toExecute, c)) = E \cup {c} /\ ToSet(Append(toUndo, c)) = U \cup {c}
    BY <1>1, <1>3, Queues DEF E, U
  <2>2. QED
    BY <1>5, <2>1 DEF E, U
<1> HIDE DEF F, V
<1>8. /\ Whole(plan, {}) /\ Linked(plan) /\ Fits(plan) /\ Watched(plan, {}, E, U)
      /\ Net(p) = Net(plan) /\ plan.alive \subseteq Context
  BY <1>1, <1>6, Fields DEF Extra, Net
<1>9. Whole(p, {}) /\ Linked(p)
  BY <1>6, <1>8 DEF Whole, Linked, Same
<1>10. Fits(p)
  <2>1. (\A v : Ruling(p, v) = Ruling(plan, v)) /\ \A v : Unfiltered(p, v) = Unfiltered(plan, v)
    BY <1>6, <1>8 DEF Ruling, Unfiltered
  <2>2. \A d : RuleOf(d) \in plan.agenda => RuleOf(d) \in p.agenda
    BY <1>3, <1>4, <1>6, Pairs
  <2>3. QED
    BY <1>6, <1>8, <2>1, <2>2 DEF Fits, FitsAt
<1>11. ASSUME NEW d \in p.alive PROVE Watch(p, d, F, V)
  <2>1. /\ d \in Context /\ Watch(plan, d, E, U) /\ (d \in plan.executed <=> d \in p.executed)
        /\ (Test(p, d) <=> Test(plan, d)) /\ (HasEmptyGuard(p, d) <=> HasEmptyGuard(plan, d))
    BY <1>6, <1>8, TestReads DEF Watched, Same
  <2>2. CASE d = c
    BY <1>7, <2>1, <2>2 DEF Watch
  <2>3. CASE d # c
    <3>1. GuardOf(d) \in plan.agenda => GuardOf(d) \in p.agenda
      BY <1>3, <1>4, <1>6, <2>3, Pairs
    <3>2. QED
      BY <1>7, <2>1, <3>1 DEF Watch
  <2>4. QED
    BY <2>2, <2>3
<1>12. Extra(p, {}, F, V)
  BY <1>9, <1>10, <1>11 DEF Extra, Watched
<1>13. QED
  BY <1>5, <1>12 DEF F, V

LEMMA ExecuteConstraintFollows ==
  ASSUME Following, ExecuteConstraint
  PROVE  Extra(plan', {}, ToSet(toExecute'), ToSet(toUndo'))
<1> DEFINE k == NextConstraint
           c == NextConstraint[2]
           p == Narrowed(plan, RuleOf(c))
           E == ToSet(toExecute)
           U == ToSet(toUndo)
<1>1. Good(plan, {}) /\ Typed(plan) /\ plan.agenda # {} /\ k[1] = "rule" /\ Extra(plan, {}, E, U)
  BY DEF Following, Inv, Good, ExecuteConstraint
<1>2. k \in ToSet(plan.network) /\ k \in Constraint
  BY <1>1, NextInNetwork
<1>3. c \in Context /\ k = RuleOf(c)
  BY <1>1, <1>2, Pairs
<1>4. plan' = p /\ ToSet(toExecute') = E /\ ToSet(toUndo') = U
  BY <1>3 DEF ExecuteConstraint
<1>5. RuleOf(c) \in Net(plan)
  BY <1>2, <1>3 DEF Net
<1> HIDE DEF k, c, E, U
<1>6. Extra(p, {}, E, U)
  BY <1>1, <1>3, <1>5, NarrowedExtra
<1> HIDE DEF p
<1>7. QED
  BY <1>4, <1>6

(* An instance that has been tested need not be any more.                  *)
LEMMA Tested ==
  ASSUME NEW p, NEW c, NEW E, NEW U, NEW F, NEW V, Extra(p, {}, E, U),
         E \subseteq F \cup {c}, U \subseteq V \cup {c},
         \/ E \subseteq F
         \/ c \in p.executed
         \/ ~Test(p, c),
         \/ U \subseteq V
         \/ c \notin p.executed
         \/ Test(p, c)
         \/ HasEmptyGuard(p, c)
  PROVE  Extra(p, {}, F, V)
<1>1. ASSUME NEW d \in p.alive PROVE Watch(p, d, F, V)
  <2>1. Watch(p, d, E, U)
    BY DEF Extra, Watched
  <2>2. CASE d = c
    BY <2>1, <2>2 DEF Watch
  <2>3. CASE d # c
    BY <2>1, <2>3 DEF Watch
  <2>4. QED
    BY <2>2, <2>3
<1>2. QED
  BY <1>1 DEF Extra, Watched

LEMMA ExecuteRuleFollows ==
  ASSUME Orderly, Following, ExecuteRule
  PROVE  Extra(plan', {}, ToSet(toExecute'), ToSet(toUndo'))
<1> DEFINE c == Head(toExecute)
           p == Executed(plan, c)
           E == ToSet(toExecute)
           U == ToSet(toUndo)
           F == ToSet(Tail(toExecute))
           fires == c \notin plan.executed /\ Test(plan, c)
<1>1. /\ Good(plan, {}) /\ toExecute \in Seq(plan.alive) /\ toExecute # << >>
      /\ Extra(plan, {}, E, U)
  BY DEF Following, Inv, Waiting, ExecuteRule
<1>2. c \in plan.alive /\ E = F \cup {c}
  BY <1>1, Queues
<1>3. /\ plan' = IF fires THEN p ELSE plan
      /\ ToSet(toExecute') = F /\ ToSet(toUndo') = U
  BY DEF ExecuteRule
<1> HIDE DEF c, E, U, F
<1>4. CASE fires
  <2>1. Extra(p, {} \ {c}, E, U) /\ p.executed = plan.executed \cup {c}
    BY <1>1, <1>2, <1>4, ExecutedExtra
  <2>2. {} \ {c} = {} /\ c \in plan.executed \cup {c}
    OBVIOUS
  <2> HIDE DEF p
  <2>3. Extra(p, {}, F, U)
    BY <1>2, <2>1, <2>2, Tested
  <2>4. QED
    BY <1>3, <1>4, <2>3
<1>5. CASE ~fires
  <2>1. Extra(plan, {}, F, U)
    BY <1>1, <1>2, <1>5, Tested
  <2>2. QED
    BY <1>3, <1>5, <2>1
<1>6. QED
  BY <1>4, <1>5

LEMMA UndoRuleFollows ==
  ASSUME Orderly, Following, UndoRule
  PROVE  Extra(plan', {}, ToSet(toExecute'), ToSet(toUndo'))
<1> DEFINE c == Head(toUndo)
           p == Undone(plan, c)
           E == ToSet(toExecute)
           U == ToSet(toUndo)
           V == ToSet(Tail(toUndo))
           fails == c \in plan.executed /\ ~Test(plan, c) /\ ~HasEmptyGuard(plan, c)
<1>1. /\ Good(plan, {}) /\ toUndo \in Seq(Context) /\ toUndo # << >>
      /\ Extra(plan, {}, E, U)
  BY DEF Following, Inv, Waiting, UndoRule
<1>2. c \in Context /\ U = V \cup {c}
  BY <1>1, Queues
<1>3. /\ plan' = IF fails THEN p ELSE plan
      /\ ToSet(toExecute') = E /\ ToSet(toUndo') = V
  BY DEF UndoRule
<1> HIDE DEF c, E, U, V
<1>4. CASE fails
  <2>1. Extra(p, {}, E, U) /\ c \notin p.executed
    BY <1>1, <1>2, <1>4, UndoneExtra, UndoneKeeps
  <2> HIDE DEF p
  <2>2. Extra(p, {}, E, V)
    BY <1>2, <2>1, Tested
  <2>3. QED
    BY <1>3, <1>4, <2>2
<1>5. CASE ~fails
  <2>1. c \notin plan.executed \/ Test(plan, c) \/ HasEmptyGuard(plan, c)
    BY <1>5
  <2> HIDE DEF fails, p
  <2>2. U \subseteq V \cup {c} /\ E \subseteq E \cup {c}
    BY <1>2
  <2>3. Extra(plan, {}, E, V)
    BY <1>1, <2>1, <2>2, Tested
  <2>4. QED
    BY <1>3, <1>5, <2>3 DEF fails
<1>6. QED
  BY <1>4, <1>5

LEMMA InitFollows == Init => Following
<1> SUFFICES ASSUME Init PROVE Following
  OBVIOUS
<1>1. Inv
  BY InitGood
<1>2. /\ plan.active = {} /\ plan.alive = {} /\ plan.executed = {} /\ plan.agenda = {}
      /\ plan.tokens = Given /\ Net(plan) = {}
      /\ (\A v \in Variable : plan.dom[v] = Value /\ plan.spec[v] = NoValue)
  BY Elements DEF Init, Net
<1>3. \A c : c \notin Due({}, {})
  BY DEF Due
<1>4. Whole(plan, {}) /\ Linked(plan) /\ Watched(plan, {}, ToSet(toExecute), ToSet(toUndo))
  BY <1>2, <1>3 DEF Whole, Linked, Watched
<1>5. Fits(plan)
  <2> SUFFICES ASSUME NEW v \in Variable PROVE FitsAt(plan, v)
    BY DEF Fits
  <2>1. Unfiltered(plan, v) = Value /\ plan.dom[v] = Value /\ Ruling(plan, v) = {}
    BY <1>2 DEF Unfiltered, Ruling
  <2>2. QED
    BY <2>1 DEF FitsAt
<1>6. QED
  BY <1>1, <1>4, <1>5 DEF Following, Extra

LEMMA StepFollows ==
  ASSUME Orderly, Following, [Next]_vars
  PROVE  Following'
<1>1. Inv'
  BY Inductive DEF Following
<1>2. \A v \in Decision : v \in Variable
  BY RuleAssumption
<1> DEFINE Follows == Extra(plan', {}, ToSet(toExecute'), ToSet(toUndo'))
<1>3. ASSUME NEW t \in Token, Activate(t) PROVE Follows
  BY <1>3, ActivateFollows
<1>4. ASSUME NEW t \in Token, Cancel(t) PROVE Follows
  BY <1>4, CancelFollows
<1>5. ASSUME NEW t \in Token, DeleteToken(t) PROVE Follows
  BY <1>5, DeleteTokenFollows
<1>6. ASSUME NEW v \in Decision, Reset(v) PROVE Follows
  BY <1>2, <1>6, ResetFollows
<1>7. ASSUME NEW v \in Decision, NEW x \in Value, Specify(v, x) PROVE Follows
  BY <1>2, <1>7, SpecifyFollows
<1>8. ASSUME Propagate \/ Callback \/ EndRules \/ UNCHANGED vars PROVE Follows
  <2>1. plan' = plan /\ toExecute' = toExecute /\ toUndo' = toUndo
    BY <1>8 DEF Propagate, Callback, EndRules, vars
  <2>2. QED
    BY <2>1 DEF Following
<1>9. Follows
  BY <1>3, <1>4, <1>5, <1>6, <1>7, <1>8, ExecuteListenerFollows, ExecuteConstraintFollows,
     ExecuteRuleFollows, UndoRuleFollows DEF Next, Propagation
<1>10. QED
  BY <1>1, <1>9 DEF Following, Extra, Whole, Linked, Fits, Watched, FitsAt, Ruling, Watch, Net,
                    Unfiltered, Test, HasEmptyGuard
-----------------------------------------------------------------------------
(* When propagation is over.                                               *)

LEMMA Fixed ==
  ASSUME NEW p, Typed(p), Linked(p), Fits(p), p.agenda = {},
         NEW v \in Variable, Owner[v] \in p.tokens
  PROVE  \A x : x \in p.dom[v] <=>
                  x \in Unfiltered(p, v) /\ \A c \in p.executed : Rule[c].restricts = v => x \in Rule[c].to
<1>1. FitsAt(p, v) /\ p.executed \subseteq Context
  BY Fields DEF Fits, Typed
<1>2. ASSUME NEW c \in p.executed, Rule[c].restricts = v PROVE c \in Ruling(p, v)
  <2>1. Restricts(c)
    BY <1>2, Families DEF Restricts
  <2>2. QED
    BY <1>1, <1>2, <2>1 DEF Linked, Ruling
<1>3. ASSUME NEW c \in Ruling(p, v) PROVE c \in p.executed /\ Rule[c].restricts = v /\ p.dom[v] \subseteq Rule[c].to
  BY <1>1 DEF Linked, Ruling, FitsAt
<1>4. ASSUME NEW x \in p.dom[v], NEW c \in p.executed, Rule[c].restricts = v PROVE x \in Rule[c].to
  BY <1>2, <1>3, <1>4
<1>5. ASSUME NEW x \in Unfiltered(p, v),
             \A c \in p.executed : Rule[c].restricts = v => x \in Rule[c].to
      PROVE  x \in p.dom[v]
  BY <1>1, <1>3, <1>5 DEF FitsAt
<1>6. p.dom[v] \subseteq Unfiltered(p, v)
  BY <1>1 DEF FitsAt
<1>7. QED
  BY <1>4, <1>5, <1>6

(* What all bodies leave is never taken away, and no body restricts what   *)
(* is specified.                                                           *)
LEMMA FollowingIsConsistent ==
  ASSUME Following
  PROVE  Consistent
<1> SUFFICES ASSUME NEW v \in Variable PROVE plan.dom[v] # {}
  BY DEF Consistent
<1>1. FitsAt(plan, v)
  BY DEF Following, Extra, Fits
<1>2. plan.spec \in Specified
  BY Fields DEF Following, Inv, Good, Typed
<1>3. \A c \in Ruling(plan, v) : c \in Context /\ Rule[c].restricts = v
  BY DEF Ruling
<1>4. PICK x \in Value : \A c \in Context : Rule[c].restricts = v => x \in Rule[c].to
  BY RuleAssumption
<1>5. CASE plan.spec[v] = NoValue
  <2>1. x \in Unfiltered(plan, v)
    BY <1>5 DEF Unfiltered
  <2>2. QED
    BY <1>1, <1>3, <1>4, <2>1 DEF FitsAt
<1>6. CASE plan.spec[v] # NoValue
  <2>1. v \in Decision /\ plan.spec[v] \in Unfiltered(plan, v)
    BY <1>2, <1>6 DEF Specified, Unfiltered
  <2>2. \A c \in Context : Rule[c].restricts # v
    BY <2>1, RuleAssumption
  <2>3. QED
    BY <1>1, <1>3, <2>1, <2>2 DEF FitsAt
<1>7. QED
  BY <1>5, <1>6

LEMMA DomainsAre ==
  ASSUME Typed(plan), NEW F
  PROVE  /\ \A v \in Variable : Unfiltered(plan, v) \subseteq Value
         /\ \A v \in Variable : \A x : x \in DomainsGiven(F)[v] <=>
              x \in Unfiltered(plan, v) /\ \A c \in F : Rule[c].restricts = v => x \in Rule[c].to
<1>1. \A v \in Variable : Unfiltered(plan, v) \subseteq Value
  BY Fields DEF Typed, Unfiltered
<1>2. ASSUME NEW v \in Variable
      PROVE  DomainsGiven(F)[v] =
               Unfiltered(plan, v) \cap {x \in Value : \A c \in F : Rule[c].restricts = v => x \in Rule[c].to}
  BY DEF DomainsGiven, Unfiltered
<1>3. QED
  BY <1>1, <1>2

(* The plan, if the bodies F were in force.                                *)
Supposed(F) == [spec |-> plan.spec, dom |-> DomainsGiven(F)]

(* The bodies in force are a set that is closed and contradicts no guard.  *)
LEMMA ExecutedCloses ==
  ASSUME Orderly, Following, Quiescent
  PROVE  /\ \A v \in Variable : Owner[v] \in plan.tokens => plan.dom[v] = DomainsGiven(plan.executed)[v]
         /\ Passing(plan.executed) = plan.executed
         /\ plan.executed \subseteq Due(plan.executed, plan.active)
         /\ ~Contradicted(plan.executed)
<1> DEFINE B == plan.executed
           g == Supposed(B)
<1>1. /\ Good(plan, {}) /\ Extra(plan, {}, {}, {}) /\ plan.agenda = {}
      /\ \A v \in Variable : plan.dom[v] # {}
  BY Idle, FollowingIsConsistent DEF Quiescent, Consistent
<1>2. /\ Typed(plan) /\ Placed(plan, {}) /\ Linked(plan) /\ Fits(plan) /\ Whole(plan, {})
      /\ Watched(plan, {}, {}, {}) /\ plan.alive \subseteq Context /\ B \subseteq plan.alive
      /\ plan.active \subseteq plan.tokens
  BY <1>1, Fields DEF Good, Extra, Typed
<1>3. ASSUME NEW v \in Variable, Owner[v] \in plan.tokens
      PROVE  plan.dom[v] = DomainsGiven(B)[v]
  <2>1. \A x : x \in plan.dom[v] <=>
                 x \in Unfiltered(plan, v) /\ \A c \in B : Rule[c].restricts = v => x \in Rule[c].to
    BY <1>1, <1>2, <1>3, Fixed
  <2>2. \A x : x \in plan.dom[v] <=> x \in DomainsGiven(B)[v]
    BY <1>2, <2>1, DomainsAre
  <2>3. DomainsGiven(B)[v] \in SUBSET Value /\ plan.dom[v] \in SUBSET Value
    <3>1. \A x : x \in DomainsGiven(B)[v] => x \in Value
      BY <1>2, DomainsAre
    <3>2. plan.dom[v] \in SUBSET Value
      BY <1>2, Fields DEF Typed
    <3>3. DomainsGiven(B)[v] = (IF plan.spec[v] = NoValue THEN Value ELSE {plan.spec[v]})
             \cap {x \in Value : \A c \in B : Rule[c].restricts = v => x \in Rule[c].to}
      BY DEF DomainsGiven
    <3>4. QED
      BY <3>2, <3>3
  <2>4. QED
    BY <2>2, <2>3
<1>4. g.spec = plan.spec /\ g.dom = DomainsGiven(B)
  BY DEF Supposed
<1> HIDE DEF g
<1>5. ASSUME NEW c \in Due(B, plan.active)
      PROVE  /\ c \in Context /\ c \in plan.alive
             /\ \A v \in Scope(c) : v \in Variable /\ Owner[v] \in plan.tokens
  <2>1. c \in plan.alive /\ c \in Context
    BY <1>2 DEF Whole
  <2>2. Above[c] \subseteq B /\ Rule[c].master \in plan.tokens
    BY <1>1, <1>2, <2>1, AboveExecuted DEF Placed
  <2>3. \A e \in Above[c] : Rule[e].slave \in Deletable \cup {NoToken} \/ Rule[e].slave \in plan.tokens
    BY <1>2, <2>2 DEF Whole
  <2>4. ASSUME NEW v \in Scope(c) PROVE v \in Variable /\ Owner[v] \in plan.tokens
    <3>1. v \in Variable /\ Owner[v] \in Token
      BY <2>1, ScopeVariables, Families
    <3>2. Owner[v] \in Given \cup {Rule[c].master} \cup ({Rule[e].slave : e \in Above[c]} \ Deletable)
      BY <2>1 DEF Orderly
    <3>3. Given \subseteq plan.tokens /\ NoToken \notin Token
      BY <1>2, Families DEF Whole
    <3>4. QED
      BY <2>2, <2>3, <3>1, <3>2, <3>3
  <2>5. QED
    BY <2>1, <2>4
<1>6. ASSUME NEW c \in Due(B, plan.active)
      PROVE  /\ Test(g, c) <=> c \in B
             /\ \A v \in Scope(c) : DomainsGiven(B)[v] # {}
  <2>1. \A v \in Scope(c) : plan.dom[v] = g.dom[v] /\ plan.spec[v] = g.spec[v] /\ plan.dom[v] # {}
    BY <1>1, <1>3, <1>4, <1>5
  <2>2. Test(plan, c) <=> Test(g, c)
    BY <1>5, <2>1, TestReads
  <2>3. ~HasEmptyGuard(plan, c)
    BY <2>1 DEF HasEmptyGuard
  <2>4. Watch(plan, c, {}, {})
    BY <1>2, <1>5 DEF Watched
  <2>5. Test(plan, c) <=> c \in B
    BY <1>1, <2>3, <2>4 DEF Watch
  <2>6. QED
    BY <1>4, <2>1, <2>2, <2>5
<1>7. B \subseteq Due(B, plan.active)
  <2>1. ASSUME NEW c \in B PROVE c \in Due(B, plan.active)
    <3>1. c \in Context /\ (Rule[c].parent > 0 => Rule[c].parent \in B) /\ Rule[c].master \in plan.active
      BY <1>2 DEF Placed
    <3>2. QED
      BY <3>1, DueIs
  <2>2. QED
    BY <2>1
<1>8. \A c : c \in Passing(B) <=> c \in Due(B, plan.active) /\ Test(g, c)
  BY DEF Passing, g, Supposed
<1>9. Passing(B) = B
  BY <1>6, <1>7, <1>8
<1>10. ~Contradicted(B)
  BY <1>6 DEF Contradicted
<1>11. QED
  BY <1>3, <1>7, <1>9, <1>10

(* A guard reads what contexts before it restrict.                         *)
LEMMA GuardStillPasses ==
  ASSUME Orderly, Typed(plan), NEW B \in SUBSET Context, NEW F \in SUBSET Context,
         NEW c \in Context, Test(Supposed(B), c),
         \A d \in B : d < c => d \in F, \A v \in Scope(c) : DomainsGiven(F)[v] # {}
  PROVE  Test(Supposed(F), c)
<1> DEFINE x == Supposed(B)
           y == Supposed(F)
           v == Rule[c].guard
<1>1. x.spec = plan.spec /\ y.spec = plan.spec /\ x.dom = DomainsGiven(B) /\ y.dom = DomainsGiven(F)
  BY DEF Supposed
<1> HIDE DEF x, y
<1>2. CASE v = NoVariable
  BY <1>1, <1>2 DEF Test, Settled, x, y
<1>3. CASE v # NoVariable
  <2>1. v \in Scope(c) /\ v \in Variable
    BY <1>3, ScopeVariables DEF Scope
  <2>2. \A a : a \in x.dom[v] <=>
                 a \in Unfiltered(plan, v) /\ \A d \in B : Rule[d].restricts = v => a \in Rule[d].to
    BY <1>1, <2>1, DomainsAre
  <2>3. \A a : a \in y.dom[v] <=>
                 a \in Unfiltered(plan, v) /\ \A d \in F : Rule[d].restricts = v => a \in Rule[d].to
    BY <1>1, <2>1, DomainsAre
  <2>4. ASSUME NEW d \in B, Rule[d].restricts = v
        PROVE  d \in F \/ (d = c /\ ~Rule[c].positive /\ Rule[c].values \subseteq Rule[c].to)
    <3>1. d < c \/ (d = c /\ ~Rule[c].positive /\ Rule[c].values \subseteq Rule[c].to)
      BY <1>3, <2>4 DEF Orderly
    <3>2. QED
      BY <3>1
  <2>5. y.dom[v] # {} /\ y.spec = x.spec
    BY <1>1, <2>1
  <2>6. \A s \in Rule[c].settled : Settled(y, s)
    <3>1. \A s \in Rule[c].settled : Settled(x, s)
      BY DEF Test, x
    <3>2. QED
      BY <2>5, <3>1 DEF Settled
  <2>7. CASE Rule[c].positive
    <3>1. Singleton(x.dom[v]) /\ x.dom[v] \subseteq Rule[c].values
      BY <1>3, <2>7 DEF Test, x
    <3>2. \A a \in y.dom[v] : a \in x.dom[v]
      BY <2>2, <2>3, <2>4, <2>7
    <3>3. Singleton(y.dom[v]) /\ y.dom[v] \subseteq Rule[c].values
      <4>1. PICK a : x.dom[v] = {a}
        BY <3>1 DEF Singleton
      <4>2. a \in y.dom[v] /\ \A b \in y.dom[v] : b = a
        BY <2>5, <3>2, <4>1
      <4>3. y.dom[v] = {a}
        <5>1. y.dom[v] = Unfiltered(plan, v) \cap {b \in Value : \A d \in F : Rule[d].restricts = v => b \in Rule[d].to}
          BY <1>1, <2>1 DEF DomainsGiven, Unfiltered
        <5>2. QED
          BY <4>2, <5>1
      <4>4. QED
        BY <3>1, <4>1, <4>3 DEF Singleton
    <3>4. QED
      BY <1>3, <2>5, <2>6, <2>7, <3>3 DEF Test, y
  <2>8. CASE ~Rule[c].positive
    <3>1. x.dom[v] \cap Rule[c].values = {}
      BY <1>3, <2>8 DEF Test, x
    <3>2. ASSUME NEW a \in y.dom[v], a \in Rule[c].values PROVE FALSE
      <4>1. \A d \in B : Rule[d].restricts = v => a \in Rule[d].to
        BY <2>3, <2>4, <3>2
      <4>2. a \in x.dom[v]
        BY <2>2, <2>3, <3>2, <4>1
      <4>3. QED
        BY <3>1, <3>2, <4>2
    <3>3. y.dom[v] \cap Rule[c].values = {}
      BY <3>2
    <3>4. QED
      BY <1>3, <2>5, <2>6, <2>8, <3>3 DEF Test, y
  <2>9. QED
    BY <2>7, <2>8
<1>4. QED
  BY <1>2, <1>3

(* No body is in force that the decisions alone do not lead to.            *)
LEMMA ExecutedIsLeast ==
  ASSUME Orderly, Following, Quiescent,
         NEW F \in SUBSET Context, Passing(F) \subseteq F, ~Contradicted(F)
  PROVE  plan.executed \subseteq F
<1> DEFINE B == plan.executed
           X == B \ F
<1>1. Typed(plan) /\ B \subseteq Context
  BY Fields DEF Following, Inv, Good, Typed
<1>2. Passing(B) = B /\ B \subseteq Due(B, plan.active)
  BY ExecutedCloses
<1>3. SUFFICES ASSUME X # {} PROVE FALSE
  BY DEF X
<1>4. X \subseteq Context
  BY <1>1
<1>5. PICK c \in X : \A d \in X : c <= d
  <2> HIDE DEF X
  <2>1. QED
    BY <1>3, <1>4, Contexts, Extremes
<1>6. c \in Context /\ c \in B /\ c \notin F /\ c \in Due(B, plan.active)
  BY <1>2, <1>4, <1>5
<1>7. ASSUME NEW d \in B, d < c PROVE d \in F
  <2>1. d \in Nat /\ c \in Nat
    BY <1>1, <1>6, Contexts
  <2>2. ~(c <= d)
    BY <1>7, <2>1
  <2>3. QED
    BY <1>5, <2>2
<1>8. c \in Due(F, plan.active)
  <2>1. CASE Rule[c].parent > 0
    <3>1. Rule[c].parent \in B /\ Rule[c].parent < c
      BY <1>6, <2>1, DueIs, Contexts
    <3>2. QED
      BY <1>6, <1>7, <2>1, <3>1, DueIs
  <2>2. CASE ~(Rule[c].parent > 0)
    BY <1>6, <2>2, DueIs
  <2>3. QED
    BY <2>1, <2>2
<1>9. Test(Supposed(B), c)
  BY <1>2, <1>6 DEF Passing, Supposed
<1>10. \A v \in Scope(c) : DomainsGiven(F)[v] # {}
  BY <1>8 DEF Contradicted
<1> HIDE DEF B
<1>11. Test(Supposed(F), c)
  BY <1>1, <1>6, <1>7, <1>9, <1>10, GuardStillPasses
<1>12. c \in Passing(F)
  BY <1>8, <1>11 DEF Passing, Supposed
<1>13. QED
  BY <1>6, <1>12

LEMMA FollowingGives ==
  ASSUME Orderly, Following
  PROVE  PlanFollowsDecisions
<1> SUFFICES ASSUME Quiescent PROVE
      /\ plan.executed = FromNothing
      /\ \A v \in Variable : Owner[v] \in plan.tokens => plan.dom[v] = DomainsGiven(FromNothing)[v]
      /\ plan.tokens \ (Given \cup Deletable)
           = {Rule[c].slave : c \in FromNothing} \ (Deletable \cup {NoToken})
  BY DEF PlanFollowsDecisions
<1> DEFINE B == plan.executed
<1>1. /\ B \in SUBSET Context /\ Founded(plan) /\ Whole(plan, {}) /\ plan.tokens \subseteq Token
  BY Idle, Fields DEF Quiescent, Good, Typed, Extra
<1>2. /\ \A v \in Variable : Owner[v] \in plan.tokens => plan.dom[v] = DomainsGiven(B)[v]
      /\ Passing(B) = B /\ ~Contradicted(B)
  BY ExecutedCloses
<1>3. \A F \in SUBSET Context : Passing(F) \subseteq F /\ ~Contradicted(F) => B \subseteq F
  BY ExecutedIsLeast
<1>4. FromNothing = B
  <2>1. \A c \in Context : c \in FromNothing <=>
          \A F \in SUBSET Context : Passing(F) \subseteq F /\ ~Contradicted(F) => c \in F
    BY DEF FromNothing
  <2>2. FromNothing \subseteq Context
    BY DEF FromNothing
  <2>3. \A c \in Context : c \in FromNothing <=> c \in B
    BY <1>1, <1>2, <1>3, <2>1
  <2>4. QED
    BY <1>1, <2>2, <2>3
<1>5. \A c \in B : Rule[c].slave \in (Token \ Given) \cup {NoToken}
  BY <1>1, Contexts
<1>6. ASSUME NEW t PROVE t \in plan.tokens \ (Given \cup Deletable)
                           <=> t \in {Rule[c].slave : c \in B} \ (Deletable \cup {NoToken})
  <2>1. t \in plan.tokens /\ t \notin Given => \E c \in B : Rule[c].slave = t
    BY <1>1 DEF Founded
  <2>2. ASSUME NEW c \in B, Rule[c].slave = t, t \notin Deletable \cup {NoToken}
        PROVE  t \in plan.tokens /\ t \notin Given
    BY <1>1, <1>5, <2>2 DEF Whole
  <2>3. t \in plan.tokens => t # NoToken
    BY <1>1, Families
  <2>4. QED
    BY <2>1, <2>2, <2>3
<1>7. QED
  BY <1>2, <1>4, <1>6

(* No domain is emptied, whatever is decided, executed and undone: the     *)
(* engine is never proven inconsistent, so that each round of propagation  *)
(* executes all of its agenda (ConstraintEngine::doPropagate,              *)
(* DefaultPropagator::execute).                                            *)
THEOREM NothingIsContradicted ==
  ASSUME Orderly
  PROVE  Spec => []Consistent
<1>1. Init => Following
  BY InitFollows
<1>2. Following /\ [Next]_vars => Following'
  BY StepFollows
<1>3. Following => Consistent
  BY FollowingIsConsistent
<1>4. QED
  BY <1>1, <1>2, <1>3, PTL DEF Spec

(* If the rules are in such an order, and bodies do not contradict each    *)
(* other (RuleAssumption), then a plan in which propagation is over        *)
(* depends on the decisions in force alone, whatever clients decided,      *)
(* undid or deleted before, and however far apart a guard that changes and *)
(* the body that follows it are (RulesEngine::doRules,                     *)
(* RuleInstance::execute and undo).                                        *)
THEOREM PlanIsDecided ==
  ASSUME Orderly
  PROVE  Spec => []PlanFollowsDecisions
<1>1. Init => Following
  BY InitFollows
<1>2. Following /\ [Next]_vars => Following'
  BY StepFollows
<1>3. Following => PlanFollowsDecisions
  BY FollowingGives
<1>4. QED
  BY <1>1, <1>2, <1>3, PTL DEF Spec
=============================================================================
