----------------------------- MODULE TokenProofs -----------------------------
(***************************************************************************)
(* Proofs about tokens, for any set of tokens, values and domains.         *)
(*                                                                         *)
(* What the run checks of idle states is not inductive: a cascade breaks   *)
(* it on the way.  The invariant says how far it is broken, in terms of    *)
(* the calls in progress.                                                  *)
(***************************************************************************)
EXTENDS TokenProperties, SequenceTheorems, FiniteSetTheorems, TLAPS

In(c, s)   == \E i \in 1 .. Len(s) : s[i] = c
OnStack(c) == In(c, calls)

(* Merged tokens and the token that they are merged onto, in every state.  *)
Mergers ==
  \A t \in Token :
    /\ state[t] = "MERGED" => target[t] \in Token /\ t \in merged[target[t]]
    /\ state[t] # "MERGED" => target[t] = NoToken
    /\ out[t] = IF state[t] = "MERGED" THEN 1 ELSE 0
    /\ state[t] # "ACTIVE" => merged[t] = {}
    /\ \A m \in merged[t] : state[m] = "MERGED" /\ target[m] = t

(* Who has slaves is active, or is being deactivated.                      *)
SlavesHeld ==
  \A t \in Token :
    slaves[t] # {} => state[t] = "ACTIVE" \/ OnStack(<<"deactivate", t>>)

(* A slave has no other owner, and what does not exist is in no family.    *)
Families ==
  /\ \A s, t \in Token : s \in slaves[t] <=> master[s] = t
  /\ \A t \in rooted : master[t] = NoToken
  /\ \A t \in Token : state[t] = "NONE" =>
       t \notin rooted \cup committed \cup deleted /\ master[t] = NoToken

(* Tokens are ranked by their depth in the family tree, and a deletion is  *)
(* of a deeper token than every call that it is part of: so no cascade     *)
(* comes back to a token that it is deactivating or deleting.              *)
Ranks(r) ==
  /\ \A t \in Token : master[t] # NoToken => r[master[t]] < r[t]
  /\ \A i, j \in 1 .. Len(calls) : i < j =>
       /\ r[calls[i][2]] >= r[calls[j][2]]
       /\ calls[i][1] = "delete" => r[calls[i][2]] > r[calls[j][2]]

Ordered == \E r \in [Token -> Nat] : Ranks(r)

(* What a reference is counted for: an owner, each merged token, and a     *)
(* commitment until the deletion begins.                                   *)
Owned(t) == IF t \in rooted \/ master[t] # NoToken THEN 1 ELSE 0
Held(t)  == IF t \in committed \ deleted THEN 1 ELSE 0

Counted ==
  \A t \in Token :
    /\ IsFiniteSet(merged[t])
    /\ refs[t] = Owned(t) + Cardinality(merged[t]) + Held(t)

(* A token that is being deleted is on the stack, the tokens on the stack  *)
(* exist, and those deleted by the cascade are not committed.              *)
Deletions ==
  /\ \A t \in deleted : OnStack(<<"delete", t>>)
  /\ \A i \in 1 .. Len(calls) : state[calls[i][2]] # "NONE"
  /\ \A i \in 1 .. Len(calls) - 1, t \in committed : calls[i] # <<"delete", t>>

Inv == TypeOK /\ Mergers /\ SlavesHeld /\ Families /\ Ordered /\ Counted /\ Deletions
-----------------------------------------------------------------------------
(* Types.                                                                  *)

LEMMA ParamOps ==
  ASSUME NEW p \in Param
  PROVE  /\ \A v \in Value : SpecifiedTo(p, v) \in Param
         /\ \A D \in SUBSET Value : Relaxed(p, D) \in Param
         /\ \A q \in Param : Imposed(p, q) \in Param
<1>1. ASSUME NEW r \in Param, NEW v \in Value PROVE SpecifiedTo(r, v) \in Param
  BY <1>1 DEF SpecifiedTo, Param
<1>2. ASSUME NEW D \in SUBSET Value PROVE Relaxed(p, D) \in Param
  BY DEF Relaxed, Param
<1>3. ASSUME NEW q \in Param PROVE Imposed(p, q) \in Param
  <2> DEFINE r == [p EXCEPT !.integrated = @ \cap q.base, !.domain = @ \cap q.base]
  <2>1. r \in Param /\ q.spec \in Value \cup {NoValue}
    BY DEF Param
  <2>2. CASE q.spec # NoValue /\ r.spec = NoValue
    BY <1>1, <2>1, <2>2 DEF Imposed
  <2>3. CASE ~(q.spec # NoValue /\ r.spec = NoValue)
    BY <2>1, <2>3 DEF Imposed
  <2> HIDE DEF r
  <2>4. QED
    BY <2>2, <2>3
<1>4. QED
  BY <1>1, <1>2, <1>3

LEMMA NewParamType == ASSUME NEW B \in Bases PROVE NewParam(B) \in Param
<1> DEFINE p == [NoParam EXCEPT !.base = B, !.integrated = B, !.domain = B]
<1>1. B \in SUBSET Value /\ B # {}
  BY TokenAssumption
<1>2. p \in Param
  BY <1>1 DEF Param, NoParam
<1>3. SpecifiedTo(p, CHOOSE v \in B : TRUE) \in Param
  BY <1>1, <1>2, ParamOps
<1>4. [SpecifiedTo(p, CHOOSE v \in B : TRUE) EXCEPT !.local = TRUE] \in Param
  BY <1>3 DEF Param
<1>5. QED
  BY <1>2, <1>4 DEF NewParam

LEMMA ResetType ==
  ASSUME NEW t \in Token, NEW M, NEW q \in [Token -> Param]
  PROVE  HandledReset(t, M, q) \in Param /\ ResetSpecified(t, M, q) \in Param
<1>1. q[t] \in Param /\ Integrated(t, M, q) \in SUBSET Value
  BY DEF Integrated, Param
<1>2. Relaxed(q[t], Integrated(t, M, q)) \in Param
  BY <1>1, ParamOps
<1>3. [q[t] EXCEPT !.integrated = Integrated(t, M, q)] \in Param
  BY <1>1 DEF Param
<1>4. HandledReset(t, M, q) \in Param
  BY <1>2, <1>3 DEF HandledReset
<1>5. \A p \in Param : [p EXCEPT !.local = FALSE] \in Param
  BY DEF Param
<1>6. QED
  BY <1>2, <1>3, <1>4, <1>5 DEF ResetSpecified

LEMMA RestrictedType ==
  ASSUME NEW p \in Param, NEW D \in SUBSET Value, D \cap p.base # {}
  PROVE  BaseRestricted(p, D) \in Param
<1> DEFINE B == p.base \cap D
           r == [p EXCEPT !.base = B, !.domain = @ \cap B]
           s == IF Cardinality(B) = 1 /\ r.spec = NoValue
                THEN SpecifiedTo(r, CHOOSE v \in B : TRUE) ELSE r
<1>1. r \in Param
  BY DEF Param
<1>2. (CHOOSE v \in B : TRUE) \in Value
  BY DEF Param
<1>3. s \in Param
  BY <1>1, <1>2, ParamOps
<1>4. [s EXCEPT !.integrated = @ \cap D] \in Param
  BY <1>3 DEF Param
<1>5. QED
  BY <1>4 DEF BaseRestricted
-----------------------------------------------------------------------------
(* The stack of calls.                                                     *)

LEMMA Calls ==
  /\ \A t \in Token : <<"delete", t>> \in Call /\ <<"deactivate", t>> \in Call
  /\ \A c \in Call : <<c>> \in Seq(Call) /\ \A s \in Seq(Call) : <<c>> \o s \in Seq(Call)
  /\ \A s \in Seq(Call) : s # << >> => Tail(s) \in Seq(Call)
<1>1. \A t \in Token : <<"delete", t>> \in Call /\ <<"deactivate", t>> \in Call
  BY DEF Call
<1>2. QED
  BY <1>1

LEMMA Pushed ==
  ASSUME NEW s \in Seq(Call), NEW c \in Call
  PROVE  /\ Len(<<c>> \o s) = Len(s) + 1
         /\ (<<c>> \o s)[1] = c
         /\ \A i \in 2 .. Len(s) + 1 : i - 1 \in 1 .. Len(s) /\ (<<c>> \o s)[i] = s[i - 1]
         /\ \A d : In(d, <<c>> \o s) <=> d = c \/ In(d, s)
<1> DEFINE u == <<c>> \o s
<1>1. u \in Seq(Call) /\ Len(u) = Len(s) + 1 /\ u[1] = c
  OBVIOUS
<1>2. \A i \in 2 .. Len(u) : i - 1 \in 1 .. Len(s) /\ u[i] = s[i - 1]
  OBVIOUS
<1>3. \A i \in 1 .. Len(s) : i + 1 \in 1 .. Len(u) /\ u[i + 1] = s[i]
  OBVIOUS
<1> HIDE DEF u
<1>4. ASSUME NEW d, In(d, s) PROVE In(d, u)
  BY <1>3, <1>4 DEF In
<1>5. ASSUME NEW d, In(d, u), d # c PROVE In(d, s)
  <2>1. PICK i \in 1 .. Len(u) : u[i] = d
    BY <1>5 DEF In
  <2>2. i \in 2 .. Len(u)
    BY <1>1, <1>5, <2>1
  <2>3. QED
    BY <1>2, <2>1, <2>2 DEF In
<1>6. In(c, u)
  BY <1>1 DEF In
<1>7. QED
  BY <1>1, <1>2, <1>4, <1>5, <1>6 DEF u

LEMMA Popped ==
  ASSUME NEW s \in Seq(Call), s # << >>
  PROVE  /\ Len(Tail(s)) = Len(s) - 1
         /\ Head(s) = s[1] /\ s[1] \in Call /\ 1 \in 1 .. Len(s)
         /\ \A i \in 1 .. Len(s) - 1 : i + 1 \in 1 .. Len(s) /\ Tail(s)[i] = s[i + 1]
         /\ \A d : In(d, s) /\ d # s[1] => In(d, Tail(s))
<1> DEFINE u == Tail(s)
<1>1. u \in Seq(Call) /\ Len(u) = Len(s) - 1 /\ Head(s) = s[1] /\ s[1] \in Call
  OBVIOUS
<1>2. \A i \in 1 .. Len(u) : i + 1 \in 1 .. Len(s) /\ u[i] = s[i + 1]
  OBVIOUS
<1>3. \A i \in 2 .. Len(s) : i - 1 \in 1 .. Len(u) /\ u[i - 1] = s[i]
  OBVIOUS
<1>4. 1 \in 1 .. Len(s)
  OBVIOUS
<1> HIDE DEF u
<1>5. ASSUME NEW d, In(d, s), d # s[1] PROVE In(d, u)
  BY <1>3, <1>5 DEF In
<1>6. QED
  BY <1>1, <1>2, <1>4, <1>5 DEF u

(* The innermost call is on the stack, and nothing is while it is empty.   *)
LEMMA Innermost ==
  ASSUME TypeOK
  PROVE  /\ Idle => \A d : ~OnStack(d)
         /\ ~Idle => OnStack(Head(calls)) /\ Head(calls) = calls[1] /\ 1 \in 1 .. Len(calls)
         /\ Idle => \A c \in Call : << c >> = << c >> \o calls
<1>1. ASSUME Idle, NEW d PROVE ~OnStack(d)
  BY <1>1 DEF Idle, OnStack, In
<1>2. ASSUME ~Idle PROVE OnStack(Head(calls)) /\ Head(calls) = calls[1] /\ 1 \in 1 .. Len(calls)
  BY <1>2, Popped DEF TypeOK, Idle, OnStack, In
<1>3. ASSUME Idle, NEW c \in Call PROVE <<c>> = <<c>> \o calls
  BY <1>3 DEF Idle
<1>4. QED
  BY <1>1, <1>2, <1>3
-----------------------------------------------------------------------------
(* Every action keeps the types.                                           *)

LEMMA SplitType ==
  ASSUME TypeOK, Mergers, NEW t \in Token, state[t] = "MERGED", Split(t),
         calls' = calls \/ calls' \in Seq(Call)
  PROVE  TypeOK'
<1> DEFINE a == target[t]
           M == merged[a] \ {t}
           q == IF ActiveTokenDeleted(a) THEN param
                ELSE [param EXCEPT ![a] = HandledReset(a, M, param)]
<1>1. a \in Token /\ out[t] = 1
  BY DEF Mergers
<1>2. q \in [Token -> Param]
  BY <1>1, ResetType DEF TypeOK
<1>3. param' \in [Token -> Param]
  <2>1. HandledReset(t, {}, q) \in Param
    BY <1>2, ResetType
  <2>2. param' = [q EXCEPT ![t] = HandledReset(t, {}, q)]
    BY DEF Split
  <2> HIDE DEF q
  <2>3. QED
    BY <1>2, <2>1, <2>2
<1>4. refs' \in [Token -> Nat]
  BY <1>1 DEF TypeOK, Split, Fewer
<1>5. merged' \in [Token -> SUBSET Token]
  BY <1>1 DEF TypeOK, Split
<1>6. out' \in [Token -> 0 .. 1]
  BY <1>1 DEF TypeOK, Split
<1>7. QED
  BY <1>3, <1>4, <1>5, <1>6 DEF TypeOK, Split, family

LEMMA TypeStep ==
  ASSUME TypeOK, Mergers, [Next]_vars
  PROVE  TypeOK'
<1>1. CASE UNCHANGED vars
  BY <1>1 DEF TypeOK, vars, family, unions
<1> SUFFICES ASSUME NEW t \in Token, Client(t) \/ Cascade(t) PROVE TypeOK'
  BY <1>1 DEF Next
<1>2. ASSUME NEW B \in Bases, Born(t, B)
      PROVE  /\ state' \in [Token -> {"NONE", "INACTIVE", "ACTIVE", "MERGED", "REJECTED"}]
             /\ refs' \in [Token -> Nat]
             /\ param' \in [Token -> Param]
  BY <1>2, NewParamType DEF TypeOK, Born
<1>3. ASSUME NEW B \in Bases, Create(t, B) PROVE TypeOK'
  BY <1>2, <1>3 DEF TypeOK, Create, Born, unions
<1>4. ASSUME NEW B \in Bases, NEW m \in Token, CreateSlave(m, t, B) PROVE TypeOK'
  <2>1. slaves' \in [Token -> SUBSET Token] /\ master' \in [Token -> Token \cup {NoToken}]
    BY <1>4 DEF TypeOK, CreateSlave
  <2>2. QED
    BY <1>2, <1>4, <2>1 DEF TypeOK, CreateSlave, Born, unions
<1>5. CASE Activate(t) \/ Reject(t) \/ CancelRejected(t) \/ DeleteCancelsRejected(t)
           \/ DeactivateResets(t)
  BY <1>5 DEF TypeOK, Activate, Reject, CancelRejected, DeleteCancelsRejected, Reinstated,
              DeactivateResets, family, unions
<1>6. CASE Commit(t)
  BY <1>6 DEF TypeOK, Commit, family, unions
<1>7. ASSUME NEW a \in Token, DoMerge(t, a) PROVE TypeOK'
  <2>1. param' \in [Token -> Param]
    BY <1>7, ParamOps DEF TypeOK, DoMerge
  <2>2. out[t] = 0
    BY <1>7 DEF DoMerge, Mergers
  <2>3. QED
    BY <1>7, <2>1, <2>2 DEF TypeOK, DoMerge, family
<1>8. ASSUME NEW v \in Choices, Specify(t, v) PROVE TypeOK'
  <2>1. SpecifiedTo(param[t], v) \in Param
    BY ParamOps, TokenAssumption DEF TypeOK
  <2>2. [SpecifiedTo(param[t], v) EXCEPT !.local = TRUE] \in Param
    BY <2>1 DEF Param
  <2>3. QED
    BY <1>8, <2>2 DEF TypeOK, Specify, family, unions
<1>9. CASE ResetParam(t)
  <2> DEFINE q == [param EXCEPT ![t] = ResetSpecified(t, merged[t], param)]
             a == target[t]
  <2>1. q \in [Token -> Param]
    BY ResetType DEF TypeOK
  <2>2. state[t] = "MERGED" => a \in Token
    BY DEF Mergers
  <2>3. param' \in [Token -> Param]
    <3>1. param' = IF state[t] = "MERGED" THEN [q EXCEPT ![a] = HandledReset(a, merged[a], q)]
                   ELSE q
      BY <1>9 DEF ResetParam
    <3> HIDE DEF q, a
    <3>2. QED
      BY <2>1, <2>2, <3>1, ResetType
  <2>4. QED
    BY <1>9, <2>3 DEF TypeOK, ResetParam, family, unions
<1>10. ASSUME NEW D \in Restrictions, RestrictBase(t, D) PROVE TypeOK'
  <2>1. BaseRestricted(param[t], D) \in Param
    BY <1>10, RestrictedType, TokenAssumption DEF TypeOK, RestrictBase
  <2>2. QED
    BY <1>10, <2>1 DEF TypeOK, RestrictBase, family, unions
<1>11. CASE CancelActive(t) \/ Delete(t)
  <2>1. calls' = << <<"deactivate", t>> >> \/ calls' = << <<"delete", t>> >>
    BY <1>11 DEF CancelActive, Delete
  <2>2. QED
    BY <1>11, <2>1, Calls DEF TypeOK, CancelActive, Delete, family, unions
<1>12. CASE CancelMerged(t) \/ DeleteCancelsMerged(t)
  BY <1>12, SplitType DEF CancelMerged, DeleteCancelsMerged
<1>13. CASE DeactivateSplits(t)
  BY <1>13, SplitType DEF DeactivateSplits, Mergers, TypeOK
<1>14. CASE DeactivateDropsSlave(t)
  <2>1. PICK s \in slaves[t] :
          /\ master' = [master EXCEPT ![s] = NoToken]
          /\ slaves' = [slaves EXCEPT ![t] = @ \ {s}]
          /\ refs' = [refs EXCEPT ![s] = Fewer(@)]
          /\ calls' = IF WillBeDiscarded(s) THEN << <<"delete", s>> >> \o calls ELSE calls
    BY <1>14 DEF DeactivateDropsSlave
  <2>2. s \in Token
    BY DEF TypeOK
  <2>3. calls \in Seq(Call) /\ << <<"delete", s>> >> \o calls \in Seq(Call)
    <3>1. calls \in Seq(Call)
      BY DEF TypeOK
    <3>2. <<"delete", s>> \in Call
      BY <2>2, Calls
    <3>3. QED
      BY <3>1, <3>2, Calls
  <2>4. refs' \in [Token -> Nat] /\ slaves' \in [Token -> SUBSET Token]
    BY <2>1, <2>2 DEF TypeOK, Fewer
  <2>5. QED
    BY <1>14, <2>1, <2>3, <2>4 DEF TypeOK, DeactivateDropsSlave, unions
<1>15. CASE DeactivateReturns(t)
  <2>1. calls' \in Seq(Call)
    BY <1>15, Calls DEF TypeOK, DeactivateReturns, Deactivating, Idle
  <2>2. QED
    BY <1>15, <2>1 DEF TypeOK, DeactivateReturns, family, unions
<1>16. CASE DeleteBegins(t)
  <2>1. refs' \in [Token -> Nat]
    BY <1>16 DEF TypeOK, DeleteBegins, AfterCommit, Fewer
  <2>2. QED
    BY <1>16, <2>1 DEF TypeOK, DeleteBegins, family, unions
<1>17. CASE DeleteCancelsActive(t)
  <2>1. calls' \in Seq(Call)
    BY <1>17, Calls DEF TypeOK, DeleteCancelsActive
  <2>2. QED
    BY <1>17, <2>1 DEF TypeOK, DeleteCancelsActive, family, unions
<1>18. CASE DeleteEnds(t)
  <2>1. calls' \in Seq(Call)
    BY <1>18, Calls DEF TypeOK, DeleteEnds, Deleting, Idle
  <2>2. NoParam \in Param
    BY DEF NoParam, Param
  <2>3. slaves' \in [Token -> SUBSET Token] /\ refs' \in [Token -> Nat]
    BY <1>18 DEF TypeOK, DeleteEnds, ForgottenByMaster, Fewer
  <2>4. QED
    BY <1>18, <2>1, <2>2, <2>3 DEF TypeOK, DeleteEnds, unions
<1>19. QED
  BY <1>3, <1>4, <1>5, <1>6, <1>7, <1>8, <1>9, <1>10, <1>11, <1>12, <1>13, <1>14, <1>15,
     <1>16, <1>17, <1>18 DEF Client, Cascade
-----------------------------------------------------------------------------
(* Every action keeps the parts of the invariant, each in a lemma.         *)

LEMMA SplitMergers ==
  ASSUME TypeOK, Mergers, NEW t \in Token, state[t] = "MERGED", Split(t)
  PROVE  Mergers'
<1> DEFINE a == target[t]
<1>1. a \in Token /\ a # t /\ out[t] = 1
  BY DEF Mergers
<1>2. /\ state' = [state EXCEPT ![t] = "INACTIVE"]
      /\ target' = [target EXCEPT ![t] = NoToken]
      /\ merged' = [merged EXCEPT ![a] = @ \ {t}]
      /\ out' = [out EXCEPT ![t] = @ - 1]
  BY DEF Split
<1> HIDE DEF a
<1>3. QED
  BY <1>1, <1>2 DEF TypeOK, Mergers, a

LEMMA MergersStep ==
  ASSUME TypeOK, Mergers, [Next]_vars
  PROVE  Mergers'
<1>1. CASE UNCHANGED <<state, unions>>
  BY <1>1 DEF Mergers, unions
<1>2. CASE UNCHANGED vars
  BY <1>1, <1>2 DEF vars
<1> SUFFICES ASSUME NEW t \in Token, Client(t) \/ Cascade(t) PROVE Mergers'
  BY <1>2 DEF Next
<1>3. ASSUME NEW B \in Bases, Born(t, B) PROVE Mergers'
  BY <1>3 DEF TypeOK, Mergers, Born, unions
<1>4. CASE Activate(t) \/ Reject(t) \/ Reinstated(t) \/ DeactivateResets(t)
  BY <1>4 DEF TypeOK, Mergers, Activate, Reject, Reinstated, DeactivateResets, unions
<1>5. ASSUME NEW a \in Token, DoMerge(t, a) PROVE Mergers'
  BY <1>5, TokenAssumption DEF TypeOK, Mergers, DoMerge
<1>6. CASE CancelMerged(t) \/ DeleteCancelsMerged(t) \/ DeactivateSplits(t)
  BY <1>6, SplitMergers DEF CancelMerged, DeleteCancelsMerged, DeactivateSplits, Mergers, TypeOK
<1>7. CASE DeleteEnds(t)
  BY <1>7 DEF TypeOK, Mergers, DeleteEnds, Cancelled, unions
<1>8. CASE \/ Commit(t) \/ CancelActive(t) \/ Delete(t) \/ ResetParam(t)
           \/ \E v \in Choices : Specify(t, v)
           \/ \E D \in Restrictions : RestrictBase(t, D)
           \/ DeactivateDropsSlave(t) \/ DeactivateReturns(t)
           \/ DeleteBegins(t) \/ DeleteCancelsActive(t)
  BY <1>1, <1>8 DEF Commit, CancelActive, Delete, ResetParam, Specify, RestrictBase,
     DeactivateDropsSlave, DeactivateReturns, DeleteBegins, DeleteCancelsActive
<1>9. QED
  BY <1>3, <1>4, <1>5, <1>6, <1>7, <1>8
     DEF Client, Cascade, Create, CreateSlave, CancelRejected, DeleteCancelsRejected

LEMMA SlavesHeldStep ==
  ASSUME TypeOK, Mergers, SlavesHeld, [Next]_vars
  PROVE  SlavesHeld'
<1>1. CASE UNCHANGED <<state, slaves, calls>>
  BY <1>1 DEF SlavesHeld, OnStack
<1>2. CASE UNCHANGED vars
  BY <1>1, <1>2 DEF vars, family
<1> SUFFICES ASSUME NEW t \in Token, Client(t) \/ Cascade(t) PROVE SlavesHeld'
  BY <1>2 DEF Next
<1>3. ASSUME NEW B \in Bases, Create(t, B) PROVE SlavesHeld'
  BY <1>3 DEF TypeOK, SlavesHeld, OnStack, Create, Born
<1>4. ASSUME NEW B \in Bases, NEW m \in Token, CreateSlave(m, t, B) PROVE SlavesHeld'
  BY <1>4 DEF TypeOK, SlavesHeld, OnStack, CreateSlave, Born
<1>5. CASE Activate(t) \/ Reject(t) \/ Reinstated(t)
  BY <1>5 DEF TypeOK, SlavesHeld, OnStack, Activate, Reject, Reinstated, family
<1>6. ASSUME NEW a \in Token, DoMerge(t, a) PROVE SlavesHeld'
  BY <1>6 DEF TypeOK, SlavesHeld, OnStack, DoMerge, family
<1>7. ASSUME NEW m \in Token, state[m] = "MERGED", Split(m), UNCHANGED calls PROVE SlavesHeld'
  BY <1>7 DEF TypeOK, SlavesHeld, OnStack, Split, family
<1>8. CASE CancelMerged(t) \/ DeleteCancelsMerged(t) \/ DeactivateSplits(t)
  BY <1>7, <1>8 DEF CancelMerged, DeleteCancelsMerged, DeactivateSplits, Mergers, TypeOK
<1>9. CASE DeactivateResets(t)
  BY <1>9, Innermost DEF TypeOK, SlavesHeld, OnStack, DeactivateResets, Deactivating, family
<1>10. CASE UNCHANGED <<state, slaves>> /\ \E c \in Call : calls' = <<c>> \o calls
  BY <1>10, Pushed DEF TypeOK, SlavesHeld, OnStack
<1>11. CASE DeactivateDropsSlave(t)
  <2>1. UNCHANGED state /\ \A u \in Token : slaves'[u] \subseteq slaves[u]
    BY <1>11 DEF TypeOK, DeactivateDropsSlave
  <2>2. calls' = calls \/ \E c \in Call : calls' = <<c>> \o calls
    BY <1>11, Calls DEF TypeOK, DeactivateDropsSlave
  <2>3. \A d : OnStack(d) => OnStack(d)'
    <3>1. calls \in Seq(Call)
      BY DEF TypeOK
    <3>2. ASSUME NEW c \in Call, calls' = <<c>> \o calls, NEW d, In(d, calls)
          PROVE  In(d, calls')
      <4>1. In(d, <<c>> \o calls)
        BY <3>1, <3>2, Pushed
      <4>2. QED
        BY <3>2, <4>1
    <3>3. QED
      BY <2>2, <3>2 DEF OnStack
  <2>4. QED
    BY <2>1, <2>3 DEF SlavesHeld
<1>12. CASE DeactivateReturns(t)
  <2>1. \A u \in Token : u # t => (OnStack(<<"deactivate", u>>) => OnStack(<<"deactivate", u>>)')
    BY <1>12, Popped DEF TypeOK, OnStack, DeactivateReturns, Deactivating, Idle
  <2>2. QED
    BY <1>12, <2>1 DEF SlavesHeld, DeactivateReturns, family
<1>13. CASE DeleteEnds(t)
  <2>1. \A u \in Token : OnStack(<<"deactivate", u>>) => OnStack(<<"deactivate", u>>)'
    BY <1>13, Popped DEF TypeOK, OnStack, DeleteEnds, Deleting, Idle
  <2>2. \A u \in Token : slaves'[u] \subseteq slaves[u]
    BY <1>13 DEF TypeOK, DeleteEnds, ForgottenByMaster
  <2>3. QED
    BY <1>13, <2>1, <2>2 DEF TypeOK, SlavesHeld, DeleteEnds, Cancelled
<1>14. CASE CancelActive(t) \/ Delete(t) \/ DeleteCancelsActive(t)
  <2>1. \E c \in Call : calls' = <<c>> \o calls
    <3>1. /\ <<"delete", t>> \in Call /\ <<"deactivate", t>> \in Call
          /\ Idle => \A c \in Call : << c >> = << c >> \o calls
      BY Calls, Innermost
    <3>2. QED
      BY <1>14, <3>1 DEF CancelActive, Delete, DeleteCancelsActive
  <2>2. QED
    BY <1>10, <1>14, <2>1 DEF CancelActive, Delete, DeleteCancelsActive, family
<1>15. CASE \/ Commit(t) \/ ResetParam(t) \/ DeleteBegins(t)
            \/ \E v \in Choices : Specify(t, v)
            \/ \E D \in Restrictions : RestrictBase(t, D)
  BY <1>1, <1>15 DEF Commit, ResetParam, Specify, RestrictBase, DeleteBegins, family
<1>16. QED
  BY <1>3, <1>4, <1>5, <1>6, <1>8, <1>9, <1>11, <1>12, <1>13, <1>14, <1>15
     DEF Client, Cascade, CancelRejected, DeleteCancelsRejected

LEMMA FamiliesStep ==
  ASSUME TypeOK, Mergers, Families, Deletions, [Next]_vars
  PROVE  Families'
<1>1. CASE UNCHANGED <<state, family, committed, deleted>>
  BY <1>1 DEF Families, family
<1>2. CASE UNCHANGED vars
  BY <1>1, <1>2 DEF vars
<1> SUFFICES ASSUME NEW t \in Token, Client(t) \/ Cascade(t) PROVE Families'
  BY <1>2 DEF Next
<1>3. ASSUME NEW B \in Bases, Create(t, B) PROVE Families'
  BY <1>3 DEF TypeOK, Families, Create, Born
<1>4. ASSUME NEW B \in Bases, NEW m \in Token, CreateSlave(m, t, B) PROVE Families'
  <2>1. /\ state' = [state EXCEPT ![t] = "INACTIVE"] /\ UNCHANGED <<rooted, committed, deleted>>
        /\ master' = [master EXCEPT ![t] = m]
        /\ slaves' = [slaves EXCEPT ![m] = @ \cup {t}]
        /\ master[t] = NoToken /\ t \notin rooted
    BY <1>4 DEF CreateSlave, Born, Families
  <2>2. QED
    BY <2>1, TokenAssumption DEF TypeOK, Families
<1>5. ASSUME NEW u \in Token, NEW z \in {"INACTIVE", "ACTIVE", "MERGED", "REJECTED"},
             state[u] # "NONE", state' = [state EXCEPT ![u] = z],
             UNCHANGED <<family, committed, deleted>>
      PROVE  Families'
  BY <1>5 DEF TypeOK, Families, family
<1>6. CASE \/ Activate(t) \/ Reject(t) \/ CancelRejected(t) \/ DeactivateResets(t)
           \/ DeleteCancelsRejected(t) \/ \E a \in Token : DoMerge(t, a)
           \/ CancelMerged(t) \/ DeleteCancelsMerged(t)
  BY <1>5, <1>6 DEF Activate, Reject, CancelRejected, DeactivateResets, DeleteCancelsRejected,
     Reinstated, DoMerge, CancelMerged, DeleteCancelsMerged, Split
<1>7. CASE Commit(t)
  BY <1>7 DEF TypeOK, Families, Commit, family
<1>8. CASE DeactivateDropsSlave(t)
  <2>1. PICK s \in slaves[t] : /\ master' = [master EXCEPT ![s] = NoToken]
                               /\ slaves' = [slaves EXCEPT ![t] = @ \ {s}]
    BY <1>8 DEF DeactivateDropsSlave
  <2>2. UNCHANGED <<state, rooted, committed, deleted>>
    BY <1>8 DEF DeactivateDropsSlave
  <2>3. QED
    BY <2>1, <2>2, TokenAssumption DEF TypeOK, Families
<1>9. CASE DeleteBegins(t)
  <2>1. state[t] # "NONE"
    BY <1>9, Innermost DEF Deletions, DeleteBegins, Deleting
  <2>2. QED
    BY <1>9, <2>1 DEF TypeOK, Families, DeleteBegins, family
<1>10. CASE DeleteEnds(t)
  <2>1. \A u, s \in Token : s \in slaves'[u] <=> s \in slaves[u] /\ s # t
    BY <1>10, TokenAssumption DEF TypeOK, Families, DeleteEnds, ForgottenByMaster
  <2>2. QED
    BY <1>10, <2>1, TokenAssumption DEF TypeOK, Families, DeleteEnds
<1>11. ASSUME NEW m \in Token, state[m] # "NONE", Split(m) PROVE Families'
  BY <1>5, <1>11 DEF Split
<1>12. CASE DeactivateSplits(t)
  BY <1>11, <1>12 DEF DeactivateSplits, Mergers, TypeOK
<1>13. CASE \/ CancelActive(t) \/ Delete(t) \/ ResetParam(t)
            \/ \E v \in Choices : Specify(t, v)
            \/ \E D \in Restrictions : RestrictBase(t, D)
            \/ DeactivateReturns(t) \/ DeleteCancelsActive(t)
  BY <1>1, <1>13 DEF CancelActive, Delete, ResetParam, Specify, RestrictBase,
     DeactivateReturns, DeleteCancelsActive
<1>14. QED
  BY <1>3, <1>4, <1>6, <1>7, <1>8, <1>9, <1>10, <1>12, <1>13 DEF Client, Cascade

(* The ranks of the calls, with the stack as a parameter.                  *)
Descending(r, s) ==
  \A i, j \in 1 .. Len(s) : i < j =>
    /\ r[s[i][2]] >= r[s[j][2]]
    /\ s[i][1] = "delete" => r[s[i][2]] > r[s[j][2]]

LEMMA PushDescends ==
  ASSUME NEW r \in [Token -> Nat], NEW s \in Seq(Call), Descending(r, s), s # << >>,
         NEW call \in {"delete", "deactivate"}, NEW t \in Token,
         r[t] >= r[s[1][2]],
         call = "delete" => r[t] > r[s[1][2]]
  PROVE  Descending(r, << <<call, t>> >> \o s)
<1> DEFINE c == <<call, t>>
           u == <<c>> \o s
<1>0. c \in Call /\ c[1] = call /\ c[2] = t
  BY DEF Call
<1> HIDE DEF c
<1>1. /\ Len(u) = Len(s) + 1 /\ Len(s) \in Nat
      /\ u[1] = c
      /\ \A i \in 2 .. Len(s) + 1 : i - 1 \in 1 .. Len(s) /\ u[i] = s[i - 1]
  BY <1>0, Pushed
<1>2. /\ \A i \in 1 .. Len(s) : s[i] \in Call
      /\ \A d \in Call : r[d[2]] \in Nat
  BY DEF Call
<1> HIDE DEF u
<1>3. ASSUME NEW j \in 2 .. Len(u)
      PROVE  r[t] >= r[u[j][2]] /\ (call = "delete" => r[t] > r[u[j][2]])
  <2>1. j - 1 \in 1 .. Len(s) /\ u[j] = s[j - 1] /\ 1 \in 1 .. Len(s)
    BY <1>1, <1>3
  <2>2. r[s[1][2]] >= r[s[j - 1][2]]
    <3>1. CASE j - 1 = 1
      BY <1>2, <2>1, <3>1
    <3>2. CASE 1 < j - 1
      BY <2>1, <3>2 DEF Descending
    <3>3. QED
      BY <2>1, <3>1, <3>2
  <2>3. r[t] \in Nat /\ r[s[1][2]] \in Nat /\ r[s[j - 1][2]] \in Nat
    BY <1>2, <2>1
  <2>4. QED
    BY <2>1, <2>2, <2>3
<1>4. ASSUME NEW i \in 1 .. Len(u), NEW j \in 1 .. Len(u), i < j
      PROVE  r[u[i][2]] >= r[u[j][2]] /\ (u[i][1] = "delete" => r[u[i][2]] > r[u[j][2]])
  <2>1. CASE i = 1
    BY <1>0, <1>1, <1>3, <1>4, <2>1
  <2>2. CASE i \in 2 .. Len(u)
    <3>1. /\ i - 1 \in 1 .. Len(s) /\ u[i] = s[i - 1]
          /\ j - 1 \in 1 .. Len(s) /\ u[j] = s[j - 1] /\ i - 1 < j - 1
      BY <1>1, <1>4, <2>2
    <3>2. QED
      BY <3>1 DEF Descending
  <2>3. QED
    BY <1>1, <2>1, <2>2
<1>5. Descending(r, u)
  BY <1>4 DEF Descending
<1>6. QED
  BY <1>5 DEF u, c

LEMMA PopDescends ==
  ASSUME NEW r, NEW s \in Seq(Call), s # << >>, Descending(r, s)
  PROVE  Descending(r, Tail(s))
<1> DEFINE u == Tail(s)
<1>1. /\ Len(u) = Len(s) - 1 /\ Len(s) \in Nat
      /\ \A i \in 1 .. Len(s) - 1 : i + 1 \in 1 .. Len(s) /\ u[i] = s[i + 1]
  BY Popped
<1> HIDE DEF u
<1>2. ASSUME NEW i \in 1 .. Len(u), NEW j \in 1 .. Len(u), i < j
      PROVE  r[u[i][2]] >= r[u[j][2]] /\ (u[i][1] = "delete" => r[u[i][2]] > r[u[j][2]])
  <2>1. /\ i + 1 \in 1 .. Len(s) /\ u[i] = s[i + 1]
        /\ j + 1 \in 1 .. Len(s) /\ u[j] = s[j + 1] /\ i + 1 < j + 1
    BY <1>1, <1>2
  <2>2. QED
    BY <2>1 DEF Descending
<1>3. Descending(r, u)
  BY <1>2 DEF Descending
<1>4. QED
  BY <1>3 DEF u

LEMMA OrderedStep ==
  ASSUME TypeOK, SlavesHeld, Families, Ordered, [Next]_vars
  PROVE  Ordered'
<1> DEFINE Tree(r) == \A t \in Token : master[t] # NoToken => r[master[t]] < r[t]
<1>1. PICK r \in [Token -> Nat] : Tree(r) /\ Descending(r, calls)
  BY DEF Ordered, Ranks, Descending
<1>2. ASSUME NEW q \in [Token -> Nat], Tree(q)', Descending(q, calls') PROVE Ordered'
  BY <1>2 DEF Ordered, Ranks, Descending
<1>3. calls \in Seq(Call)
  BY DEF TypeOK
<1>4. CASE UNCHANGED <<master, calls>>
  BY <1>1, <1>2, <1>4
<1>5. CASE UNCHANGED vars
  BY <1>4, <1>5 DEF vars, family
<1> SUFFICES ASSUME NEW t \in Token, Client(t) \/ Cascade(t) PROVE Ordered'
  BY <1>5 DEF Next
<1>6. ASSUME NEW B \in Bases, NEW m \in Token, CreateSlave(m, t, B) PROVE Ordered'
  <2> DEFINE q == [r EXCEPT ![t] = r[m] + 1]
  <2>1. m # t /\ slaves[t] = {} /\ calls' = << >> /\ master' = [master EXCEPT ![t] = m]
    BY <1>6, Innermost DEF CreateSlave, Born, SlavesHeld, Idle
  <2>2. \A u \in Token : master[u] # t
    BY <2>1 DEF Families
  <2>3. Tree(q)'
    BY <1>1, <2>1, <2>2 DEF TypeOK
  <2>4. Descending(q, calls')
    BY <2>1 DEF Descending
  <2>5. q \in [Token -> Nat]
    OBVIOUS
  <2> HIDE DEF q, Tree
  <2>6. QED
    BY <1>2, <2>3, <2>4, <2>5
<1>7. CASE CancelActive(t) \/ Delete(t)
  <2>1. calls = << >> /\ UNCHANGED master
    BY <1>7 DEF CancelActive, Delete, Idle, family
  <2>2. \E c \in Call : calls' = <<c>>
    BY <1>7, Calls DEF CancelActive, Delete
  <2>3. Descending(r, calls')
    BY <2>2 DEF Descending
  <2>4. QED
    BY <1>1, <1>2, <2>1, <2>3
<1>8. CASE DeactivateDropsSlave(t)
  <2>1. PICK s \in slaves[t] :
          /\ master' = [master EXCEPT ![s] = NoToken]
          /\ calls' = calls \/ calls' = << <<"delete", s>> >> \o calls
    BY <1>8 DEF DeactivateDropsSlave
  <2>2. s \in Token /\ master[s] = t
    BY DEF TypeOK, Families
  <2>3. Tree(r)'
    BY <1>1, <2>1, <2>2, TokenAssumption DEF TypeOK
  <2>4. calls # << >> /\ calls[1] = <<"deactivate", t>>
    BY <1>3, <1>8, Popped DEF DeactivateDropsSlave, Deactivating, Idle
  <2>5. r[s] > r[t]
    BY <1>1, <2>2, TokenAssumption
  <2>6. Descending(r, << <<"delete", s>> >> \o calls)
    BY <1>1, <1>3, <2>2, <2>4, <2>5, PushDescends
  <2>7. QED
    BY <1>1, <1>2, <2>1, <2>3, <2>6
<1>9. CASE DeactivateReturns(t) \/ DeleteEnds(t)
  <2>1. calls # << >> /\ calls' = Tail(calls)
    BY <1>9 DEF DeactivateReturns, DeleteEnds, Deactivating, Deleting, Idle
  <2>2. master' = master \/ master' = [master EXCEPT ![t] = NoToken]
    BY <1>9 DEF DeactivateReturns, DeleteEnds, family
  <2>3. Tree(r)'
    <3>1. \A u \in Token : master'[u] = master[u] \/ master'[u] = NoToken
      BY <2>2 DEF TypeOK
    <3>2. QED
      BY <1>1, <3>1
  <2>4. QED
    BY <1>1, <1>2, <1>3, <2>1, <2>3, PopDescends
<1>10. CASE DeleteCancelsActive(t)
  <2>1. /\ calls # << >> /\ calls[1] = <<"delete", t>> /\ UNCHANGED master
        /\ calls' = << <<"deactivate", t>> >> \o calls
    BY <1>3, <1>10, Popped DEF DeleteCancelsActive, Deleting, Idle, family
  <2>2. Descending(r, << <<"deactivate", t>> >> \o calls)
    BY <1>1, <1>3, <2>1, PushDescends
  <2>3. QED
    BY <1>1, <1>2, <2>1, <2>2
<1>11. CASE \/ \E B \in Bases : Create(t, B)
            \/ Activate(t) \/ Reject(t) \/ Commit(t) \/ \E a \in Token : DoMerge(t, a)
            \/ \E v \in Choices : Specify(t, v)
            \/ ResetParam(t) \/ \E D \in Restrictions : RestrictBase(t, D)
            \/ CancelMerged(t) \/ CancelRejected(t)
            \/ DeactivateSplits(t) \/ DeactivateResets(t) \/ DeleteBegins(t)
            \/ DeleteCancelsMerged(t) \/ DeleteCancelsRejected(t)
  <2>1. UNCHANGED <<master, calls>>
    BY <1>11 DEF Create, Born, Activate, Reject, Commit, DoMerge, Specify, ResetParam,
       RestrictBase, CancelMerged, CancelRejected, DeactivateSplits, DeactivateResets,
       DeleteBegins, DeleteCancelsMerged, DeleteCancelsRejected, Reinstated, Split, family
  <2>2. QED
    BY <1>4, <2>1
<1>12. QED
  BY <1>6, <1>7, <1>8, <1>9, <1>10, <1>11 DEF Client, Cascade

(* A cascade does not come back to a token that it is deleting, nor to one *)
(* whose master it is deactivating.                                        *)
LEMMA NoReturn ==
  ASSUME TypeOK, Ordered, NEW t \in Token
  PROVE  /\ Deleting(t) => \A i \in 2 .. Len(calls) : calls[i][2] # t
         /\ Deactivating(t) => \A s \in Token : master[s] = t => ~OnStack(<<"delete", s>>)
<1>1. PICK r \in [Token -> Nat] : Ranks(r)
  BY DEF Ordered
<1>2. calls \in Seq(Call) /\ \A i \in 1 .. Len(calls) : r[calls[i][2]] \in Nat
  BY DEF TypeOK, Call
<1>3. ASSUME Deleting(t), NEW i \in 2 .. Len(calls), calls[i][2] = t PROVE FALSE
  <2>1. 1 \in 1 .. Len(calls) /\ calls[1] = <<"delete", t>> /\ 1 < i /\ i \in 1 .. Len(calls)
    BY <1>2, <1>3, Popped DEF Deleting, Idle
  <2>2. r[calls[1][2]] > r[calls[i][2]]
    BY <1>1, <2>1 DEF Ranks
  <2>3. QED
    BY <1>3, <2>1, <2>2
<1>4. ASSUME Deactivating(t), NEW s \in Token, master[s] = t, OnStack(<<"delete", s>>) PROVE FALSE
  <2>1. 1 \in 1 .. Len(calls) /\ calls[1] = <<"deactivate", t>>
    BY <1>2, <1>4, Popped DEF Deactivating, Idle
  <2>2. PICK i \in 1 .. Len(calls) : calls[i] = <<"delete", s>>
    BY <1>4 DEF OnStack, In
  <2>3. 1 < i
    BY <2>1, <2>2
  <2>4. r[t] >= r[s]
    BY <1>1, <2>1, <2>2, <2>3 DEF Ranks
  <2>5. r[t] < r[s]
    BY <1>1, <1>4, TokenAssumption DEF Ranks
  <2>6. QED
    BY <2>4, <2>5
<1>5. QED
  BY <1>3, <1>4

(* What a token still has when its deletion ends.                          *)
LEMMA Ending ==
  ASSUME Inv, NEW t \in Token, DeleteEnds(t)
  PROVE  slaves[t] = {} /\ merged[t] = {} /\ refs[t] = Owned(t)
<1>1. state[t] = "INACTIVE" /\ t \in deleted
  BY DEF DeleteEnds, Cancelled
<1>2. merged[t] = {}
  BY <1>1 DEF Inv, Mergers
<1>3. ~OnStack(<<"deactivate", t>>)
  <2>1. calls # << >> /\ calls[1] = <<"delete", t>> /\ \A i \in 2 .. Len(calls) : calls[i][2] # t
    BY NoReturn, Popped DEF Inv, TypeOK, DeleteEnds, Deleting, Idle
  <2>2. QED
    BY <2>1 DEF OnStack, In
<1>4. slaves[t] = {}
  BY <1>1, <1>3 DEF Inv, SlavesHeld
<1>5. refs[t] = Owned(t)
  BY <1>1, <1>2, FS_EmptySet DEF Inv, Counted, Held, Owned
<1>6. QED
  BY <1>2, <1>4, <1>5

LEMMA SplitCounted ==
  ASSUME TypeOK, Mergers, Counted, NEW t \in Token, state[t] = "MERGED", Split(t)
  PROVE  Counted'
<1> DEFINE a == target[t]
<1>1. a \in Token /\ t \in merged[a]
  BY DEF Mergers
<1>2. /\ merged' = [merged EXCEPT ![a] = @ \ {t}]
      /\ refs' = [refs EXCEPT ![a] = Fewer(@)]
      /\ UNCHANGED <<rooted, master, committed, deleted>>
  BY DEF Split, family
<1>3. \A u \in Token : Owned(u)' = Owned(u) /\ Held(u)' = Held(u)
  BY <1>2 DEF Owned, Held
<1>4. /\ IsFiniteSet(merged[a] \ {t})
      /\ Cardinality(merged[a] \ {t}) = Cardinality(merged[a]) - 1
      /\ Cardinality(merged[a]) \in Nat /\ Cardinality(merged[a] \ {t}) \in Nat
  BY <1>1, FS_RemoveElement, FS_CardinalityType DEF Counted
<1> HIDE DEF a
<1>5. Owned(a) \in Nat /\ Held(a) \in Nat
  BY DEF Owned, Held
<1>6. refs'[a] = Owned(a) + Cardinality(merged'[a]) + Held(a)
  <2>1. refs[a] = Owned(a) + Cardinality(merged[a]) + Held(a)
    BY <1>1 DEF Counted
  <2>2. refs[a] > 0
    BY <1>4, <1>5, <2>1
  <2>3. refs'[a] = refs[a] - 1 /\ merged'[a] = merged[a] \ {t}
    BY <1>1, <1>2, <2>2 DEF TypeOK, Fewer
  <2>4. QED
    BY <1>4, <1>5, <2>1, <2>3
<1>7. \A u \in Token : u # a => refs'[u] = refs[u] /\ merged'[u] = merged[u]
  BY <1>1, <1>2 DEF TypeOK
<1>8. IsFiniteSet(merged'[a])
  BY <1>1, <1>2, <1>4 DEF TypeOK
<1>9. QED
  BY <1>3, <1>6, <1>7, <1>8 DEF Counted

LEMMA CountedStep ==
  ASSUME Inv, [Next]_vars
  PROVE  Counted'
<1>0. TypeOK /\ Mergers /\ Families /\ Ordered /\ Counted /\ Deletions
  BY DEF Inv
<1>1. CASE UNCHANGED <<rooted, master, merged, refs, committed, deleted>>
  BY <1>0, <1>1 DEF Counted, Owned, Held
<1>2. CASE UNCHANGED vars
  BY <1>1, <1>2 DEF vars, family, unions
<1> SUFFICES ASSUME NEW t \in Token, Client(t) \/ Cascade(t) PROVE Counted'
  BY <1>2 DEF Next
<1>3. \A u \in Token : Owned(u) \in 0 .. 1 /\ Held(u) \in 0 .. 1
                       /\ IsFiniteSet(merged[u]) /\ Cardinality(merged[u]) \in Nat
  BY <1>0, FS_CardinalityType DEF Owned, Held, Counted
<1>4. ASSUME NEW u \in Token,
             \A v \in Token : v # u => /\ refs'[v] = refs[v] /\ merged'[v] = merged[v]
                                       /\ Owned(v)' = Owned(v) /\ Held(v)' = Held(v),
             IsFiniteSet(merged'[u]),
             refs'[u] = Owned(u)' + Cardinality(merged'[u]) + Held(u)'
      PROVE  Counted'
  BY <1>0, <1>4 DEF Counted
<1>5. ASSUME NEW B \in Bases, Create(t, B) \/ \E m \in Token : CreateSlave(m, t, B)
      PROVE  Counted'
  <2>1. /\ refs' = [refs EXCEPT ![t] = 1] /\ UNCHANGED <<merged, committed, deleted>>
        /\ \/ rooted' = rooted \cup {t} /\ master' = master
           \/ rooted' = rooted /\ \E m \in Token : master' = [master EXCEPT ![t] = m]
    BY <1>5 DEF Create, CreateSlave, Born, unions
  <2>2. merged[t] = {} /\ t \notin committed
    BY <1>0, <1>5 DEF Mergers, Families, Create, CreateSlave, Born
  <2>3. refs'[t] = 1 /\ Owned(t)' = 1 /\ Held(t)' = 0 /\ Cardinality(merged'[t]) = 0
    BY <1>0, <2>1, <2>2, TokenAssumption, FS_EmptySet DEF TypeOK, Owned, Held
  <2>4. \A v \in Token : v # t => /\ refs'[v] = refs[v] /\ merged'[v] = merged[v]
                                  /\ Owned(v)' = Owned(v) /\ Held(v)' = Held(v)
    BY <1>0, <2>1 DEF TypeOK, Owned, Held
  <2>5. QED
    BY <1>3, <1>4, <2>1, <2>3, <2>4
<1>6. CASE Commit(t)
  <2>1. /\ refs' = [refs EXCEPT ![t] = @ + 1] /\ committed' = committed \cup {t}
        /\ UNCHANGED <<rooted, master, merged, deleted>>
        /\ t \notin committed
    BY <1>6 DEF Commit, family, unions
  <2>2. t \notin deleted
    BY <1>0, <1>6, Innermost DEF Commit, Deletions
  <2>3. Held(t) = 0 /\ Held(t)' = 1 /\ \A v \in Token : Owned(v)' = Owned(v)
    BY <2>1, <2>2 DEF Owned, Held
  <2>4. \A v \in Token : v # t => /\ refs'[v] = refs[v] /\ merged'[v] = merged[v]
                                  /\ Owned(v)' = Owned(v) /\ Held(v)' = Held(v)
    BY <1>0, <2>1 DEF TypeOK, Owned, Held
  <2>5. refs'[t] = refs[t] + 1 /\ refs[t] = Owned(t) + Cardinality(merged[t]) + Held(t)
    BY <1>0, <2>1 DEF TypeOK, Counted
  <2>6. QED
    BY <1>3, <1>4, <2>1, <2>3, <2>4, <2>5
<1>7. ASSUME NEW a \in Token, DoMerge(t, a) PROVE Counted'
  <2>1. /\ merged' = [merged EXCEPT ![a] = @ \cup {t}] /\ refs' = [refs EXCEPT ![a] = @ + 1]
        /\ UNCHANGED <<rooted, master, committed, deleted>>
        /\ state[t] = "INACTIVE"
    BY <1>7 DEF DoMerge, family
  <2>2. t \notin merged[a]
    BY <1>0, <2>1 DEF Mergers
  <2>3. IsFiniteSet(merged'[a]) /\ Cardinality(merged'[a]) = Cardinality(merged[a]) + 1
    BY <1>0, <1>3, <2>1, <2>2, FS_AddElement DEF TypeOK
  <2>4. \A v \in Token : /\ Owned(v)' = Owned(v) /\ Held(v)' = Held(v)
                         /\ v # a => refs'[v] = refs[v] /\ merged'[v] = merged[v]
    BY <1>0, <2>1 DEF TypeOK, Owned, Held
  <2>5. refs'[a] = refs[a] + 1 /\ refs[a] = Owned(a) + Cardinality(merged[a]) + Held(a)
    BY <1>0, <2>1 DEF TypeOK, Counted
  <2>6. QED
    BY <1>3, <1>4, <2>3, <2>4, <2>5
<1>8. CASE CancelMerged(t) \/ DeleteCancelsMerged(t) \/ DeactivateSplits(t)
  BY <1>0, <1>8, SplitCounted
     DEF CancelMerged, DeleteCancelsMerged, DeactivateSplits, Mergers, TypeOK
<1>9. CASE DeactivateDropsSlave(t)
  <2>1. PICK s \in slaves[t] : /\ master' = [master EXCEPT ![s] = NoToken]
                               /\ refs' = [refs EXCEPT ![s] = Fewer(@)]
    BY <1>9 DEF DeactivateDropsSlave
  <2>2. UNCHANGED <<rooted, merged, committed, deleted>>
    BY <1>9 DEF DeactivateDropsSlave, unions
  <2>3. s \in Token /\ master[s] = t /\ s \notin rooted
    BY <1>0, TokenAssumption DEF TypeOK, Families
  <2>4. Owned(s) = 1 /\ Owned(s)' = 0 /\ \A v \in Token : Held(v)' = Held(v)
    BY <1>0, <2>1, <2>2, <2>3, TokenAssumption DEF TypeOK, Owned, Held
  <2>5. \A v \in Token : v # s => /\ refs'[v] = refs[v] /\ merged'[v] = merged[v]
                                  /\ Owned(v)' = Owned(v)
    BY <1>0, <2>1, <2>2 DEF TypeOK, Owned
  <2>6. refs[s] = Owned(s) + Cardinality(merged[s]) + Held(s)
    BY <1>0, <2>3 DEF Counted
  <2>7. refs[s] > 0
    BY <1>3, <2>3, <2>4, <2>6
  <2>8. refs'[s] = refs[s] - 1
    BY <1>0, <2>1, <2>3, <2>7 DEF TypeOK, Fewer
  <2>9. QED
    BY <1>3, <1>4, <2>2, <2>3, <2>4, <2>5, <2>6, <2>8
<1>10. CASE DeleteBegins(t)
  <2>1. /\ t \notin deleted /\ deleted' = deleted \cup {t} /\ refs' = AfterCommit(t)
        /\ UNCHANGED <<rooted, master, merged, committed>>
    BY <1>10 DEF DeleteBegins, family, unions
  <2>2. \A v \in Token : v # t => /\ refs'[v] = refs[v] /\ merged'[v] = merged[v]
                                  /\ Owned(v)' = Owned(v) /\ Held(v)' = Held(v)
    BY <1>0, <2>1 DEF TypeOK, Owned, Held, AfterCommit
  <2>3. /\ Owned(t)' = Owned(t) /\ Held(t)' = 0
        /\ Held(t) = IF t \in committed THEN 1 ELSE 0
        /\ refs[t] = Owned(t) + Cardinality(merged[t]) + Held(t)
    BY <1>0, <2>1 DEF Owned, Held, Counted
  <2>4. refs'[t] = IF t \in committed THEN refs[t] - 1 ELSE refs[t]
    <3>1. t \in committed => refs[t] > 0
      BY <1>3, <2>3
    <3>2. QED
      BY <1>0, <2>1, <3>1 DEF TypeOK, AfterCommit, Fewer
  <2>5. QED
    BY <1>3, <1>4, <2>1, <2>2, <2>3, <2>4
<1>11. CASE DeleteEnds(t)
  <2>1. merged[t] = {} /\ refs[t] = Owned(t)
    BY <1>11, Ending
  <2>2. /\ refs' = [refs EXCEPT ![t] = Fewer(@)] /\ master' = [master EXCEPT ![t] = NoToken]
        /\ rooted' = rooted \ {t} /\ committed' = committed \ {t} /\ deleted' = deleted \ {t}
        /\ UNCHANGED merged
    BY <1>11 DEF DeleteEnds, unions
  <2>3. refs'[t] = 0 /\ Owned(t)' = 0 /\ Held(t)' = 0 /\ Cardinality(merged'[t]) = 0
    BY <1>0, <1>3, <2>1, <2>2, FS_EmptySet DEF TypeOK, Owned, Held, Fewer
  <2>4. \A v \in Token : v # t => /\ refs'[v] = refs[v] /\ merged'[v] = merged[v]
                                  /\ Owned(v)' = Owned(v) /\ Held(v)' = Held(v)
    BY <1>0, <2>2 DEF TypeOK, Owned, Held
  <2>5. QED
    BY <1>3, <1>4, <2>2, <2>3, <2>4
<1>12. CASE \/ Activate(t) \/ Reject(t) \/ ResetParam(t)
            \/ \E v \in Choices : Specify(t, v)
            \/ \E D \in Restrictions : RestrictBase(t, D)
            \/ CancelActive(t) \/ CancelRejected(t) \/ Delete(t)
            \/ DeactivateResets(t) \/ DeactivateReturns(t)
            \/ DeleteCancelsActive(t) \/ DeleteCancelsRejected(t)
  BY <1>1, <1>12 DEF Activate, Reject, ResetParam, Specify, RestrictBase, CancelActive,
     CancelRejected, Delete, DeactivateResets, DeactivateReturns, DeleteCancelsActive,
     DeleteCancelsRejected, Reinstated, family, unions
<1>13. QED
  BY <1>5, <1>6, <1>7, <1>8, <1>9, <1>10, <1>11, <1>12 DEF Client, Cascade

LEMMA PushKeepsDeletions ==
  ASSUME TypeOK, Deletions, UNCHANGED <<state, committed, deleted>>,
         NEW call \in {"delete", "deactivate"}, NEW u \in Token,
         calls' = << <<call, u>> >> \o calls, state[u] # "NONE",
         calls = << >> \/ call = "deactivate" \/ u \notin committed
  PROVE  Deletions'
<1> DEFINE c == <<call, u>>
<1>1. calls \in Seq(Call) /\ Len(calls) \in Nat /\ c \in Call
  BY DEF TypeOK, Call
<1> HIDE DEF c
<1>2. /\ Len(calls') = Len(calls) + 1
      /\ calls'[1] = c
      /\ \A i \in 2 .. Len(calls) + 1 : i - 1 \in 1 .. Len(calls) /\ calls'[i] = calls[i - 1]
      /\ \A d : In(d, calls') <=> d = c \/ In(d, calls)
  <2>1. calls' = <<c>> \o calls
    BY DEF c
  <2>2. /\ Len(<<c>> \o calls) = Len(calls) + 1
        /\ (<<c>> \o calls)[1] = c
        /\ \A i \in 2 .. Len(calls) + 1 :
             i - 1 \in 1 .. Len(calls) /\ (<<c>> \o calls)[i] = calls[i - 1]
        /\ \A d : In(d, <<c>> \o calls) <=> d = c \/ In(d, calls)
    BY <1>1, Pushed
  <2>3. QED
    BY <2>1, <2>2
<1>3. ASSUME NEW t \in deleted' PROVE OnStack(<<"delete", t>>)'
  <2>1. In(<<"delete", t>>, calls)
    BY DEF Deletions, OnStack
  <2>2. QED
    BY <1>2, <2>1 DEF OnStack
<1>4. ASSUME NEW i \in 1 .. Len(calls') PROVE state'[calls'[i][2]] # "NONE"
  <2>1. CASE i = 1
    BY <1>2, <2>1 DEF c
  <2>2. CASE i \in 2 .. Len(calls) + 1
    BY <1>2, <2>2 DEF Deletions
  <2>3. QED
    BY <1>1, <1>2, <2>1, <2>2
<1>5. ASSUME NEW i \in 1 .. Len(calls') - 1, NEW t \in committed' PROVE calls'[i] # <<"delete", t>>
  <2>1. CASE i = 1
    <3>1. calls # << >> /\ t \in committed
      BY <1>1, <1>2, <1>5, <2>1
    <3>2. QED
      BY <1>2, <2>1, <3>1 DEF c
  <2>2. CASE i \in 2 .. Len(calls)
    <3>1. i - 1 \in 1 .. Len(calls) - 1 /\ calls'[i] = calls[i - 1] /\ t \in committed
      BY <1>1, <1>2, <1>5, <2>2
    <3>2. QED
      BY <3>1 DEF Deletions
  <2>3. QED
    BY <1>1, <1>2, <2>1, <2>2
<1>6. QED
  BY <1>3, <1>4, <1>5 DEF Deletions

LEMMA DeletionsStep ==
  ASSUME Inv, [Next]_vars
  PROVE  Deletions'
<1>0. TypeOK /\ Mergers /\ Families /\ Ordered /\ Counted /\ Deletions
  BY DEF Inv
<1>1. ASSUME \A u \in Token : state[u] # "NONE" => state'[u] # "NONE",
             UNCHANGED <<committed, deleted, calls>>
      PROVE  Deletions'
  <2>1. \A i \in 1 .. Len(calls) : calls[i][2] \in Token
    BY <1>0 DEF TypeOK, Call
  <2>2. QED
    BY <1>0, <1>1, <2>1 DEF Deletions, OnStack
<1>2. CASE UNCHANGED vars
  BY <1>1, <1>2 DEF vars
<1> SUFFICES ASSUME NEW t \in Token, Client(t) \/ Cascade(t) PROVE Deletions'
  BY <1>2 DEF Next
<1>3. ASSUME NEW m \in Token, Split(m), UNCHANGED calls PROVE Deletions'
  BY <1>0, <1>1, <1>3 DEF TypeOK, Split
<1>4. CASE CancelMerged(t) \/ DeleteCancelsMerged(t) \/ DeactivateSplits(t)
  BY <1>0, <1>3, <1>4 DEF CancelMerged, DeleteCancelsMerged, DeactivateSplits, TypeOK
<1>5. CASE \/ \E B \in Bases : Create(t, B) \/ \E m \in Token : CreateSlave(m, t, B)
           \/ Activate(t) \/ Reject(t) \/ \E a \in Token : DoMerge(t, a)
           \/ CancelRejected(t) \/ DeleteCancelsRejected(t) \/ DeactivateResets(t)
  BY <1>0, <1>1, <1>5 DEF TypeOK, Create, CreateSlave, Born, Activate, Reject, DoMerge,
     CancelRejected, DeleteCancelsRejected, Reinstated, DeactivateResets
<1>6. CASE Commit(t)
  <2>1. calls = << >> /\ UNCHANGED <<state, deleted, calls>>
    BY <1>6 DEF Commit, Idle
  <2>2. QED
    BY <1>0, <2>1 DEF Deletions, OnStack
<1>7. CASE CancelActive(t) \/ Delete(t)
  <2>1. /\ UNCHANGED <<state, committed, deleted>> /\ state[t] # "NONE" /\ calls = << >>
        /\ \E call \in {"delete", "deactivate"} : calls' = << <<call, t>> >>
    BY <1>7 DEF CancelActive, Delete, Idle, Alive
  <2>2. \E call \in {"delete", "deactivate"} : calls' = << <<call, t>> >> \o calls
    BY <2>1
  <2>3. QED
    BY <1>0, <2>1, <2>2, PushKeepsDeletions
<1>8. CASE DeactivateDropsSlave(t)
  <2>1. PICK s \in slaves[t] :
          calls' = IF WillBeDiscarded(s) THEN << <<"delete", s>> >> \o calls ELSE calls
    BY <1>8 DEF DeactivateDropsSlave
  <2>2. UNCHANGED <<state, committed, deleted>>
    BY <1>8 DEF DeactivateDropsSlave
  <2>3. s \in Token /\ master[s] = t /\ state[s] # "NONE" /\ Owned(s) = 1
    BY <1>0, TokenAssumption DEF TypeOK, Families, Owned
  <2>4. ASSUME WillBeDiscarded(s) PROVE s \notin committed
    <3>1. Cardinality(merged[s]) \in Nat /\ Held(s) \in 0 .. 1
      BY <1>0, <2>3, FS_CardinalityType DEF Counted, Held
    <3>2. Held(s) = 0
      BY <1>0, <2>3, <2>4, <3>1 DEF Counted, WillBeDiscarded
    <3>3. s \notin deleted
      BY <1>0, <1>8, <2>3, NoReturn DEF Deletions, DeactivateDropsSlave
    <3>4. QED
      BY <3>2, <3>3 DEF Held
  <2>5. CASE WillBeDiscarded(s)
    BY <1>0, <2>1, <2>2, <2>3, <2>4, <2>5, PushKeepsDeletions
  <2>6. CASE ~WillBeDiscarded(s)
    BY <1>1, <2>1, <2>2, <2>6
  <2>7. QED
    BY <2>5, <2>6
<1>9. CASE DeleteCancelsActive(t)
  BY <1>0, <1>9, PushKeepsDeletions DEF DeleteCancelsActive
<1>10. CASE DeleteBegins(t)
  <2>1. OnStack(<<"delete", t>>) /\ deleted' = deleted \cup {t}
        /\ UNCHANGED <<state, committed, calls>>
    BY <1>0, <1>10, Innermost DEF DeleteBegins, Deleting
  <2>2. QED
    BY <1>0, <2>1 DEF Deletions, OnStack
<1>11. CASE DeactivateReturns(t) \/ DeleteEnds(t)
  <2>1. /\ calls \in Seq(Call) /\ calls # << >> /\ calls' = Tail(calls) /\ Len(calls) \in Nat
        /\ calls[1] = Head(calls)
    BY <1>0, <1>11, Popped DEF TypeOK, DeactivateReturns, DeleteEnds, Deactivating, Deleting, Idle
  <2>2. /\ Len(calls') = Len(calls) - 1
        /\ \A i \in 1 .. Len(calls) - 1 : i + 1 \in 1 .. Len(calls) /\ calls'[i] = calls[i + 1]
        /\ \A d : In(d, calls) /\ d # calls[1] => In(d, calls')
    BY <2>1, Popped
  <2>3. /\ committed' \subseteq committed /\ deleted' \subseteq deleted
        /\ \A d \in deleted' : calls[1] # <<"delete", d>>
        /\ \A i \in 1 .. Len(calls') : state'[calls'[i][2]] = state[calls'[i][2]]
    <3>1. CASE DeactivateReturns(t)
      BY <2>1, <3>1 DEF DeactivateReturns, Deactivating
    <3>2. CASE DeleteEnds(t)
      <4>1. /\ committed' \subseteq committed /\ deleted' = deleted \ {t}
            /\ state' = [state EXCEPT ![t] = "NONE"]
            /\ calls[1] = <<"delete", t>>
        BY <2>1, <3>2 DEF DeleteEnds, Deleting
      <4>2. \A i \in 1 .. Len(calls') : calls'[i][2] # t
        <5>1. \A i \in 2 .. Len(calls) : calls[i][2] # t
          BY <1>0, <3>2, NoReturn DEF DeleteEnds
        <5>2. QED
          BY <2>1, <2>2, <5>1
      <4>3. QED
        BY <1>0, <4>1, <4>2 DEF TypeOK
    <3>3. QED
      BY <1>11, <3>1, <3>2
  <2>4. \A d \in deleted' : OnStack(<<"delete", d>>)'
    BY <1>0, <2>2, <2>3 DEF Deletions, OnStack
  <2>5. \A i \in 1 .. Len(calls') : state'[calls'[i][2]] # "NONE"
    BY <1>0, <2>1, <2>2, <2>3 DEF Deletions
  <2>6. ASSUME NEW i \in 1 .. Len(calls') - 1, NEW d \in committed' PROVE calls'[i] # <<"delete", d>>
    <3>1. i + 1 \in 1 .. Len(calls) - 1 /\ calls'[i] = calls[i + 1] /\ d \in committed
      BY <2>1, <2>2, <2>3, <2>6
    <3>2. QED
      BY <1>0, <3>1 DEF Deletions
  <2>7. QED
    BY <2>4, <2>5, <2>6 DEF Deletions
<1>12. CASE \/ ResetParam(t)
            \/ \E v \in Choices : Specify(t, v)
            \/ \E D \in Restrictions : RestrictBase(t, D)
  BY <1>1, <1>12 DEF ResetParam, Specify, RestrictBase
<1>13. QED
  BY <1>4, <1>5, <1>6, <1>7, <1>8, <1>9, <1>10, <1>11, <1>12 DEF Client, Cascade
-----------------------------------------------------------------------------
(* The invariant and what it implies.                                      *)

LEMMA InvInit == Init => Inv
<1> SUFFICES ASSUME Init PROVE Inv
  OBVIOUS
<1>1. NoParam \in Param
  BY DEF NoParam, Param
<1>2. TypeOK
  BY <1>1 DEF Init, TypeOK
<1>3. Mergers /\ SlavesHeld /\ Families /\ Deletions
  BY TokenAssumption DEF Init, Mergers, SlavesHeld, Families, Deletions
<1>4. Ordered
  <2> DEFINE r == [t \in Token |-> 0]
  <2>1. r \in [Token -> Nat] /\ Ranks(r)
    BY DEF Init, Ranks
  <2>2. QED
    BY <2>1 DEF Ordered
<1>5. Counted
  BY FS_EmptySet DEF Init, Counted, Owned, Held
<1>6. QED
  BY <1>2, <1>3, <1>4, <1>5 DEF Inv

LEMMA InvStep == Inv /\ [Next]_vars => Inv'
<1> SUFFICES ASSUME Inv, [Next]_vars PROVE Inv'
  OBVIOUS
<1>1. TypeOK /\ Mergers /\ SlavesHeld /\ Families /\ Ordered /\ Deletions
  BY DEF Inv
<1>2. TypeOK' /\ Mergers' /\ SlavesHeld' /\ Families' /\ Ordered' /\ Counted' /\ Deletions'
  BY <1>1, TypeStep, MergersStep, SlavesHeldStep, FamiliesStep, OrderedStep, CountedStep,
     DeletionsStep
<1>3. QED
  BY <1>2 DEF Inv

(* The invariant holds in every state, in the middle of a cascade too.     *)
THEOREM Invariant == Spec => []Inv
<1>1. QED
  BY InvInit, InvStep, PTL DEF Spec

(* Reference counts are natural numbers and every variable has its type.   *)
THEOREM TypeCorrect == Spec => []TypeOK
<1>1. Inv => TypeOK
  BY DEF Inv
<1>2. QED
  BY <1>1, Invariant, PTL

(* Whenever the client is in control every token is valid as               *)
(* Token::isValid checks it.                                               *)
THEOREM ValidWhenIdle == Spec => []Valid
<1>1. ASSUME Inv PROVE Valid
  <2> SUFFICES ASSUME Idle, NEW t \in Token
               PROVE  /\ state[t] = "MERGED" <=> target[t] # NoToken
                      /\ target[t] # NoToken =>
                           state[target[t]] = "ACTIVE" /\ t \in merged[target[t]]
                      /\ state[t] # "ACTIVE" => merged[t] = {} /\ slaves[t] = {}
                      /\ out[t] = IF state[t] = "MERGED" THEN 1 ELSE 0
    BY DEF Valid, Alive
  <2>1. Mergers /\ SlavesHeld /\ ~OnStack(<<"deactivate", t>>)
    BY <1>1, Innermost DEF Inv
  <2>2. state[t] = "MERGED" <=> target[t] # NoToken
    BY <2>1, TokenAssumption DEF Mergers
  <2>3. target[t] # NoToken => state[target[t]] = "ACTIVE" /\ t \in merged[target[t]]
    BY <2>1, <2>2 DEF Mergers
  <2>4. state[t] # "ACTIVE" => merged[t] = {} /\ slaves[t] = {}
    BY <2>1 DEF Mergers, SlavesHeld
  <2>5. out[t] = IF state[t] = "MERGED" THEN 1 ELSE 0
    BY <2>1 DEF Mergers
  <2>6. QED
    BY <2>2, <2>3, <2>4, <2>5
<1>2. QED
  BY <1>1, Invariant, PTL

(* No token refers to one that is gone, in the middle of a cascade either. *)
THEOREM NothingDangles == Spec => []NoDangling
<1> SUFFICES ASSUME Inv PROVE NoDangling
  BY Invariant, PTL
<1>1. TypeOK /\ Mergers /\ SlavesHeld /\ Families /\ Deletions
  BY DEF Inv
<1>2. \A m \in Token : OnStack(<<"deactivate", m>>) => m \in Alive
  BY <1>1 DEF Deletions, OnStack, In, Alive
<1>3. ASSUME NEW t \in Alive PROVE slaves[t] \cup merged[t] \subseteq Alive
  BY <1>1, TokenAssumption DEF TypeOK, Mergers, Families, Alive
<1>4. ASSUME NEW t \in Alive, master[t] # NoToken PROVE master[t] \in Alive
  <2>1. master[t] \in Token /\ slaves[master[t]] # {}
    BY <1>1, <1>4 DEF TypeOK, Families, Alive
  <2>2. QED
    BY <1>1, <1>2, <2>1 DEF SlavesHeld, Alive
<1>5. ASSUME NEW t \in Alive, target[t] # NoToken PROVE target[t] \in Alive
  BY <1>1, <1>5 DEF Mergers, Alive
<1>6. QED
  BY <1>3, <1>4, <1>5 DEF NoDangling

LEMMA OnlyEndsDestroy ==
  ASSUME Inv, [Next]_vars, NEW u \in Alive, u \notin Alive'
  PROVE  DeleteEnds(u)
<1>1. TypeOK /\ u \in Token /\ state[u] # "NONE" /\ state'[u] = "NONE"
  BY DEF Inv, Alive
<1>2. state' # state
  BY <1>1
<1>3. PICK t \in Token : Client(t) \/ Cascade(t)
  BY <1>2 DEF Next, vars
<1>4. ASSUME NEW w \in Token, NEW z \in {"INACTIVE", "ACTIVE", "MERGED", "REJECTED"},
             state' = [state EXCEPT ![w] = z]
      PROVE  FALSE
  BY <1>1, <1>4 DEF TypeOK
<1>5. ASSUME NEW m \in Token, Split(m) PROVE FALSE
  BY <1>4, <1>5 DEF Split
<1>6. ~DeactivateSplits(t)
  BY <1>1, <1>5 DEF DeactivateSplits, TypeOK
<1>7. ~ \/ \E B \in Bases : Create(t, B) \/ \E m \in Token : CreateSlave(m, t, B)
        \/ Activate(t) \/ Reject(t) \/ \E a \in Token : DoMerge(t, a)
        \/ CancelMerged(t) \/ CancelRejected(t)
        \/ DeactivateResets(t) \/ DeleteCancelsMerged(t) \/ DeleteCancelsRejected(t)
  BY <1>4, <1>5 DEF Create, CreateSlave, Born, Activate, Reject, DoMerge, CancelMerged,
     CancelRejected, Reinstated, DeactivateResets, DeleteCancelsMerged, DeleteCancelsRejected
<1>8. ~ \/ Commit(t) \/ ResetParam(t) \/ CancelActive(t) \/ Delete(t)
        \/ \E v \in Choices : Specify(t, v)
        \/ \E D \in Restrictions : RestrictBase(t, D)
        \/ DeactivateDropsSlave(t) \/ DeactivateReturns(t)
        \/ DeleteBegins(t) \/ DeleteCancelsActive(t)
  BY <1>2 DEF Commit, ResetParam, CancelActive, Delete, Specify, RestrictBase,
     DeactivateDropsSlave, DeactivateReturns, DeleteBegins, DeleteCancelsActive
<1>9. DeleteEnds(t)
  BY <1>3, <1>6, <1>7, <1>8 DEF Client, Cascade
<1>10. u = t
  BY <1>1, <1>9 DEF TypeOK, DeleteEnds
<1>11. QED
  BY <1>9, <1>10

(* Nobody holds a reference to a token that is destroyed, whatever was     *)
(* merged, committed and cancelled before.                                 *)
THEOREM DestroyedAreUnreferenced == Spec => DestroyedUnreferenced
<1>1. ASSUME Inv, [Next]_vars, NEW t \in Alive, t \notin Alive'
      PROVE  refs'[t] = 0 /\ merged[t] = {} /\ slaves[t] = {}
  <2>1. DeleteEnds(t) /\ t \in Token
    BY <1>1, OnlyEndsDestroy DEF Alive
  <2>2. merged[t] = {} /\ slaves[t] = {} /\ refs[t] \in 0 .. 1
    BY <1>1, <2>1, Ending DEF Owned
  <2>3. refs'[t] = 0
    BY <1>1, <2>1, <2>2 DEF Inv, TypeOK, DeleteEnds, Fewer
  <2>4. QED
    BY <2>2, <2>3
<1>2. Inv /\ [Next]_vars =>
        [\A t \in Alive : t \notin Alive' => refs'[t] = 0 /\ merged[t] = {} /\ slaves[t] = {}]_vars
  BY <1>1
<1>3. QED
  BY <1>2, Invariant, PTL DEF Spec, DestroyedUnreferenced

(* A committed token does not go with its master: it is destroyed only     *)
(* when its own deletion is what the client asked for.                     *)
THEOREM CommittedSurvive == Spec => CommittedSurvives
<1>1. ASSUME Inv, [Next]_vars, NEW t \in Token, t \in Alive, t \in committed,
             t \notin Alive'
      PROVE  calls[Len(calls)] = <<"delete", t>>
  <2>1. DeleteEnds(t) /\ TypeOK /\ Deletions
    BY <1>1, OnlyEndsDestroy DEF Inv
  <2>2. /\ calls[1] = <<"delete", t>> /\ 1 \in 1 .. Len(calls) /\ Len(calls) \in Nat
    BY <2>1, Popped DEF TypeOK, DeleteEnds, Deleting, Idle
  <2>3. 1 \notin 1 .. Len(calls) - 1
    BY <1>1, <2>1, <2>2 DEF Deletions
  <2>4. \A n \in Nat : 1 \in 1 .. n /\ 1 \notin 1 .. n - 1 => n = 1
    OBVIOUS
  <2>5. QED
    BY <2>2, <2>3, <2>4
<1>2. Inv /\ [Next]_vars =>
        [\A t \in Alive \cap committed :
           t \notin Alive' => calls[Len(calls)] = <<"delete", t>>]_vars
  BY <1>1 DEF Alive
<1>3. QED
  BY <1>2, Invariant, PTL DEF Spec, CommittedSurvives
-----------------------------------------------------------------------------
(* Domains.  What is required of token t, with the tokens of M merged onto *)
(* it and the variables as in q, and that its domain is no smaller than    *)
(* that, unless it is specified.                                           *)
Restrained(t, M, q) ==
  /\ q[t].domain \subseteq Integrated(t, M, q)
  /\ q[t].spec # NoValue => q[t].domain \subseteq {q[t].spec}
  /\ \A m \in M : q[m].spec # NoValue =>
       q[t].spec # NoValue /\ q[t].domain \subseteq {q[m].spec}
  /\ q[t].local => q[t].spec # NoValue

Unrestrained(t, M, q) ==
  q[t].spec = NoValue => Integrated(t, M, q) \subseteq q[t].domain

DomainsFit ==
  \A t \in Token :
    /\ Restrained(t, merged[t], param)
    /\ t \in rooted \/ master[t] # NoToken => Unrestrained(t, merged[t], param)

(* Only the variables of the token and of those merged onto it matter.     *)
LEMMA FitLocally ==
  ASSUME NEW t, NEW M, NEW q, NEW r,
         \A u : u = t \/ u \in M => r[u] = q[u]
  PROVE  /\ Integrated(t, M, r) = Integrated(t, M, q)
         /\ Restrained(t, M, q) => Restrained(t, M, r)
         /\ Unrestrained(t, M, q) => Unrestrained(t, M, r)
<1>1. r[t] = q[t] /\ \A m \in M : r[m] = q[m]
  OBVIOUS
<1>2. Integrated(t, M, r) = Integrated(t, M, q)
  BY <1>1 DEF Integrated
<1>3. QED
  BY <1>1, <1>2 DEF Restrained, Unrestrained

(* A variable that is relaxed, or not, as its own value and those of the   *)
(* tokens merged onto it demand.                                           *)
LEMMA RelaxedFits ==
  ASSUME NEW t, NEW M, NEW q, NEW r,
         q \in [Token -> Param], r \in [Token -> Param], t \in Token, M \in SUBSET Token,
         t \notin M, \A u \in M : r[u] = q[u],
         r[t].base = q[t].base, r[t].spec = NoValue, ~r[t].local,
         r[t].domain = Integrated(t, M, q), ~ShouldBeSpecified(M, q)
  PROVE  Restrained(t, M, r) /\ Unrestrained(t, M, r)
<1>1. Integrated(t, M, r) = Integrated(t, M, q)
  BY DEF Integrated
<1>2. \A m \in M : r[m].spec = NoValue
  BY DEF ShouldBeSpecified
<1>3. QED
  BY <1>1, <1>2 DEF Restrained, Unrestrained

LEMMA HandledResetFits ==
  ASSUME NEW t, NEW M, NEW q, NEW r,
         q \in [Token -> Param], t \in Token, M \in SUBSET Token, t \notin M,
         Restrained(t, M, q), r = [q EXCEPT ![t] = HandledReset(t, M, q)]
  PROVE  Restrained(t, M, r) /\ Unrestrained(t, M, r)
<1>1. /\ r \in [Token -> Param] /\ r[t] = HandledReset(t, M, q) /\ \A u \in M : r[u] = q[u]
  BY ResetType
<1>2. q[t] \in Param /\ Integrated(t, M, q) \in SUBSET Value
  BY DEF Integrated, Param
<1>3. CASE ShouldBeSpecified(M, q) \/ q[t].local
  <2>1. /\ r[t].base = q[t].base /\ r[t].domain = q[t].domain /\ r[t].spec = q[t].spec
        /\ r[t].local = q[t].local
    BY <1>1, <1>2, <1>3 DEF HandledReset, Param
  <2>2. Integrated(t, M, r) = Integrated(t, M, q)
    BY <1>1, <2>1 DEF Integrated
  <2>3. q[t].spec # NoValue
    BY <1>3 DEF Restrained, ShouldBeSpecified
  <2>4. QED
    BY <1>1, <2>1, <2>2, <2>3 DEF Restrained, Unrestrained
<1>4. CASE ~(ShouldBeSpecified(M, q) \/ q[t].local)
  <2>1. /\ r[t].base = q[t].base /\ r[t].domain = Integrated(t, M, q) /\ r[t].spec = NoValue
        /\ r[t].local = q[t].local
    BY <1>1, <1>2, <1>4 DEF HandledReset, Relaxed, Param
  <2>2. QED
    BY <1>1, <1>4, <2>1, RelaxedFits
<1>5. QED
  BY <1>3, <1>4

LEMMA ResetSpecifiedFields ==
  ASSUME NEW t, NEW M, NEW q,
         q \in [Token -> Param], t \in Token, M \in SUBSET Token
  PROVE  /\ ResetSpecified(t, M, q).base = q[t].base
         /\ ~ShouldBeSpecified(M, q) => ResetSpecified(t, M, q).spec = NoValue
<1>1. q[t] \in Param /\ Integrated(t, M, q) \in SUBSET Value
  BY DEF Integrated, Param
<1>2. QED
  BY <1>1 DEF ResetSpecified, Relaxed, Param

LEMMA ResetSpecifiedFits ==
  ASSUME NEW t, NEW M, NEW q, NEW r,
         q \in [Token -> Param], t \in Token, M \in SUBSET Token, t \notin M,
         Restrained(t, M, q), r = [q EXCEPT ![t] = ResetSpecified(t, M, q)]
  PROVE  Restrained(t, M, r) /\ Unrestrained(t, M, r)
<1>1. /\ r \in [Token -> Param] /\ r[t] = ResetSpecified(t, M, q) /\ \A u \in M : r[u] = q[u]
  BY ResetType
<1>2. q[t] \in Param /\ Integrated(t, M, q) \in SUBSET Value
  BY DEF Integrated, Param
<1>3. CASE ShouldBeSpecified(M, q)
  <2>1. /\ r[t].base = q[t].base /\ r[t].domain = q[t].domain /\ r[t].spec = q[t].spec
        /\ ~r[t].local
    BY <1>1, <1>2, <1>3 DEF ResetSpecified, Param
  <2>2. Integrated(t, M, r) = Integrated(t, M, q)
    BY <1>1, <2>1 DEF Integrated
  <2>3. q[t].spec # NoValue
    BY <1>3 DEF Restrained, ShouldBeSpecified
  <2>4. QED
    BY <1>1, <1>3, <2>1, <2>2, <2>3 DEF Restrained, Unrestrained
<1>4. CASE ~ShouldBeSpecified(M, q)
  <2>1. /\ r[t].base = q[t].base /\ r[t].domain = Integrated(t, M, q) /\ r[t].spec = NoValue
        /\ ~r[t].local
    BY <1>1, <1>2, <1>4 DEF ResetSpecified, Relaxed, Param
  <2>2. QED
    BY <1>1, <1>4, <2>1, RelaxedFits
<1>5. QED
  BY <1>3, <1>4

LEMMA SpecifiedFields ==
  ASSUME NEW p, NEW v, p \in Param, v \in Value
  PROVE  /\ SpecifiedTo(p, v) \in Param /\ SpecifiedTo(p, v).spec = v
         /\ SpecifiedTo(p, v).base = p.base /\ SpecifiedTo(p, v).integrated = p.integrated
         /\ SpecifiedTo(p, v).local = p.local
         /\ SpecifiedTo(p, v).domain \subseteq p.domain
         /\ p.spec # v \/ p.domain \subseteq {p.spec} => SpecifiedTo(p, v).domain \subseteq {v}
<1>1. CASE p.spec = v
  BY <1>1, ParamOps DEF SpecifiedTo
<1>2. CASE p.spec # v
  <2> DEFINE D == IF v \in p.domain THEN {v} ELSE {}
  <2>1. SpecifiedTo(p, v) = [p EXCEPT !.spec = v, !.domain = D]
    BY <1>2 DEF SpecifiedTo
  <2>2. D \subseteq {v} /\ D \subseteq p.domain /\ D \in SUBSET Value
    OBVIOUS
  <2> HIDE DEF D
  <2>3. QED
    BY <2>1, <2>2 DEF Param
<1>3. QED
  BY <1>1, <1>2

LEMMA ImposedFits ==
  ASSUME NEW a, NEW t, NEW M, NEW q, NEW r,
         q \in [Token -> Param], a \in Token, t \in Token, a # t, M \in SUBSET Token, a \notin M,
         Restrained(a, M, q), Restrained(t, {}, q), q[t].domain \cap q[a].domain # {},
         r = [q EXCEPT ![a] = Imposed(q[a], q[t])]
  PROVE  /\ Restrained(a, M \cup {t}, r)
         /\ Unrestrained(a, M, q) => Unrestrained(a, M \cup {t}, r)
<1> DEFINE p == q[a]
           o == q[t]
           c == [p EXCEPT !.integrated = @ \cap o.base, !.domain = @ \cap o.base]
           n == Imposed(p, o)
<1>1. p \in Param /\ o \in Param
  OBVIOUS
<1>2. /\ c \in Param /\ c.base = p.base /\ c.domain = p.domain \cap o.base /\ c.spec = p.spec
      /\ c.local = p.local
  BY <1>1 DEF Param
<1>3. r[a] = n /\ \A u \in M \cup {t} : r[u] = q[u]
  OBVIOUS
<1>4. n = IF o.spec # NoValue /\ c.spec = NoValue THEN SpecifiedTo(c, o.spec) ELSE c
  BY DEF Imposed
<1>5. /\ p.domain \subseteq Integrated(a, M, q) /\ (p.local => p.spec # NoValue)
      /\ p.spec # NoValue => p.domain \subseteq {p.spec}
      /\ \A m \in M : q[m].spec # NoValue => p.spec # NoValue /\ p.domain \subseteq {q[m].spec}
      /\ o.spec # NoValue => o.domain \subseteq {o.spec}
      /\ o.domain \cap p.domain # {}
  BY DEF Restrained
<1> HIDE DEF p, o, c, n
<1>6. Integrated(a, M, q) \cap o.base = {v \in p.base : \A m \in M \cup {t} : v \in q[m].base}
  BY DEF Integrated, p, o
<1>7. n.base = p.base => Integrated(a, M \cup {t}, r) = Integrated(a, M, q) \cap o.base
  BY <1>3, <1>6 DEF Integrated
<1>8. o.spec \in Value \cup {NoValue} /\ o.base \subseteq Value
  BY <1>1 DEF Param
<1>9. CASE o.spec # NoValue /\ c.spec = NoValue
  <2>1. n = SpecifiedTo(c, o.spec) /\ o.spec \in Value
    BY <1>4, <1>8, <1>9
  <2>2. /\ n.spec = o.spec /\ n.base = p.base /\ n.local = p.local
        /\ n.domain \subseteq c.domain /\ n.domain \subseteq {o.spec}
    BY <1>2, <1>9, <2>1, SpecifiedFields
  <2>3. \A m \in M \cup {t} : q[m].spec # NoValue => n.domain \subseteq {q[m].spec}
    BY <1>2, <1>5, <1>9, <2>2 DEF o
  <2>4. QED
    BY <1>2, <1>3, <1>5, <1>7, <1>9, <2>2, <2>3 DEF Restrained, Unrestrained
<1>10. CASE ~(o.spec # NoValue /\ c.spec = NoValue)
  <2>1. n = c
    BY <1>4, <1>10
  <2>2. /\ n.spec = p.spec /\ n.base = p.base /\ n.local = p.local
        /\ n.domain = p.domain \cap o.base
    BY <1>2, <2>1
  <2>3. o.spec # NoValue => p.spec = o.spec /\ p.domain \subseteq {o.spec}
    BY <1>2, <1>5, <1>10
  <2>4. \A m \in M \cup {t} : q[m].spec # NoValue =>
          n.spec # NoValue /\ n.domain \subseteq {q[m].spec}
    BY <1>5, <2>2, <2>3 DEF o
  <2>5. Restrained(a, M \cup {t}, r)
    BY <1>3, <1>5, <1>7, <2>2, <2>4 DEF Restrained
  <2>6. Unrestrained(a, M, q) => Unrestrained(a, M \cup {t}, r)
    BY <1>3, <1>7, <2>2 DEF Unrestrained, p
  <2>7. QED
    BY <2>5, <2>6
<1>11. QED
  BY <1>9, <1>10

LEMMA SpecifyFits ==
  ASSUME NEW t, NEW M, NEW v, NEW q, NEW r,
         q \in [Token -> Param], t \in Token, M \in SUBSET Token, t \notin M, v \in Value,
         Restrained(t, M, q), r = [q EXCEPT ![t] = [SpecifiedTo(@, v) EXCEPT !.local = TRUE]]
  PROVE  Restrained(t, M, r) /\ Unrestrained(t, M, r)
<1> DEFINE p == q[t]
           s == SpecifiedTo(p, v)
<1>1. /\ s \in Param /\ s.spec = v /\ s.base = p.base /\ s.domain \subseteq p.domain
      /\ p.spec # v \/ p.domain \subseteq {p.spec} => s.domain \subseteq {v}
  BY SpecifiedFields
<1>2. p.spec # NoValue => p.domain \subseteq {p.spec}
  BY DEF Restrained
<1>3. v # NoValue /\ s.domain \subseteq {v}
  BY <1>1, <1>2, TokenAssumption
<1> HIDE DEF s
<1>4. \A u \in M : r[u] = q[u]
  OBVIOUS
<1>5. /\ r[t].spec = v /\ r[t].base = p.base /\ r[t].domain = s.domain
  <2>1. r[t] = [s EXCEPT !.local = TRUE]
    BY DEF s
  <2>2. QED
    BY <1>1, <2>1 DEF Param
<1>6. Integrated(t, M, r) = Integrated(t, M, q)
  BY <1>4, <1>5 DEF Integrated
<1>7. QED
  BY <1>1, <1>3, <1>4, <1>5, <1>6 DEF Restrained, Unrestrained

LEMMA BaseRestrictedFits ==
  ASSUME NEW t, NEW M, NEW D, NEW q, NEW r,
         q \in [Token -> Param], t \in Token, M \in SUBSET Token, t \notin M, D \in SUBSET Value,
         Restrained(t, M, q), r = [q EXCEPT ![t] = BaseRestricted(@, D)]
  PROVE  Restrained(t, M, r) /\ (Unrestrained(t, M, q) => Unrestrained(t, M, r))
<1> DEFINE p == q[t]
           B == p.base \cap D
           c == [p EXCEPT !.base = B, !.domain = @ \cap B]
           s == IF Cardinality(B) = 1 /\ c.spec = NoValue
                THEN SpecifiedTo(c, CHOOSE v \in B : TRUE) ELSE c
           n == [s EXCEPT !.integrated = @ \cap D]
<1>1. p \in Param
  OBVIOUS
<1>2. /\ c \in Param /\ c.base = B /\ c.domain = p.domain \cap B /\ c.spec = p.spec
      /\ c.local = p.local /\ B \subseteq Value
  BY <1>1 DEF Param
<1>3. r[t] = n /\ \A u \in M : r[u] = q[u]
  BY DEF BaseRestricted
<1>4. p.spec # NoValue => p.domain \subseteq {p.spec}
  BY DEF Restrained
<1>5. B = {} => Cardinality(B) # 1
  BY FS_EmptySet
<1> HIDE DEF p, c
<1>6. /\ s \in Param /\ s.base = B /\ s.domain \subseteq c.domain /\ s.local = p.local
      /\ s.spec # NoValue => s.domain \subseteq {s.spec}
      /\ p.spec # NoValue => s.spec # NoValue
      /\ s.spec = NoValue => s.domain = c.domain /\ p.spec = NoValue
  <2>1. CASE Cardinality(B) = 1 /\ c.spec = NoValue
    <3> DEFINE v == CHOOSE v \in B : TRUE
    <3>1. v \in Value /\ v # NoValue
      BY <1>2, <1>5, <2>1, TokenAssumption
    <3>2. s = SpecifiedTo(c, v)
      BY <2>1
    <3> HIDE DEF v, s, B
    <3>3. QED
      BY <1>2, <2>1, <3>1, <3>2, SpecifiedFields
  <2>2. CASE ~(Cardinality(B) = 1 /\ c.spec = NoValue)
    <3>1. s = c
      BY <2>2
    <3> HIDE DEF s, B
    <3>2. QED
      BY <1>2, <1>4, <3>1
  <2>3. QED
    BY <2>1, <2>2
<1> HIDE DEF s
<1>7. /\ n.base = B /\ n.domain = s.domain /\ n.spec = s.spec /\ n.local = s.local
  BY <1>6 DEF Param
<1>8. Integrated(t, M, r) = Integrated(t, M, q) \cap B
  BY <1>3, <1>7 DEF Integrated, p
<1> HIDE DEF n, B
<1>9. s.domain \subseteq p.domain \cap B
  BY <1>2, <1>6
<1>10. Restrained(t, M, r)
  BY <1>3, <1>6, <1>7, <1>8, <1>9 DEF Restrained, p
<1>11. Unrestrained(t, M, q) => Unrestrained(t, M, r)
  BY <1>2, <1>3, <1>6, <1>7, <1>8 DEF Unrestrained, p
<1>12. QED
  BY <1>10, <1>11

LEMMA NewParamFits ==
  ASSUME NEW t, NEW B, NEW q, NEW r,
         q \in [Token -> Param], t \in Token, B \in Bases, r = [q EXCEPT ![t] = NewParam(B)]
  PROVE  Restrained(t, {}, r) /\ Unrestrained(t, {}, r)
<1> DEFINE p == [NoParam EXCEPT !.base = B, !.integrated = B, !.domain = B]
           v == CHOOSE v \in B : TRUE
<1>1. B \in SUBSET Value /\ B # {}
  BY TokenAssumption
<1>2. v \in Value /\ v # NoValue
  BY <1>1, TokenAssumption
<1>3. p \in Param /\ p.base = B /\ p.domain = B /\ p.spec = NoValue /\ ~p.local
  BY <1>1 DEF Param, NoParam
<1>4. r[t] = NewParam(B)
  OBVIOUS
<1> HIDE DEF v, p
<1>5. CASE Cardinality(B) = 1
  <2>1. r[t] = [SpecifiedTo(p, v) EXCEPT !.local = TRUE]
    BY <1>4, <1>5 DEF NewParam, p, v
  <2>2. /\ SpecifiedTo(p, v) \in Param /\ SpecifiedTo(p, v).spec = v
        /\ SpecifiedTo(p, v).base = B /\ SpecifiedTo(p, v).domain \subseteq B
        /\ SpecifiedTo(p, v).domain \subseteq {v}
    BY <1>2, <1>3, SpecifiedFields
  <2>3. /\ r[t].base = B /\ r[t].domain \subseteq B /\ r[t].spec = v /\ r[t].domain \subseteq {v}
    BY <2>1, <2>2 DEF Param
  <2>4. QED
    BY <1>2, <2>3 DEF Restrained, Unrestrained, Integrated
<1>6. CASE Cardinality(B) # 1
  <2>1. r[t] = p
    BY <1>4, <1>6 DEF NewParam, p
  <2>2. QED
    BY <1>3, <2>1 DEF Restrained, Unrestrained, Integrated
<1>7. QED
  BY <1>5, <1>6

LEMMA FewerMergedFit ==
  ASSUME NEW t, NEW M, NEW N, NEW q, M \subseteq N, Restrained(t, N, q)
  PROVE  Restrained(t, M, q)
BY DEF Restrained, Integrated

(* Where nothing is said of a token, it stays as it is.                    *)
LEMMA OthersFit ==
  ASSUME NEW u, NEW D, TypeOK, DomainsFit, u \in Token, D \in SUBSET Token,
         u \notin D, merged[u] \cap D = {},
         \A w \in Token \ D : param'[w] = param[w],
         merged'[u] = merged[u], u \in rooted' => u \in rooted, master'[u] \in {master[u], NoToken}
  PROVE  /\ Restrained(u, merged[u], param)'
         /\ (u \in rooted \/ master[u] # NoToken)' => Unrestrained(u, merged[u], param)'
<1> DEFINE q == param
           r == param'
           M == merged[u]
<1>1. \A w : w = u \/ w \in M => r[w] = q[w]
  BY DEF TypeOK
<1>2. /\ Restrained(u, M, q)
      /\ (u \in rooted \/ master[u] # NoToken => Unrestrained(u, M, q))
  BY DEF DomainsFit
<1> HIDE DEF M, q, r
<1>3. /\ Restrained(u, M, r)
      /\ Unrestrained(u, M, q) => Unrestrained(u, M, r)
  BY <1>1, <1>2, FitLocally
<1>4. /\ Restrained(u, M, r) <=> Restrained(u, merged[u], param)'
      /\ Unrestrained(u, M, r) <=> Unrestrained(u, merged[u], param)'
  BY DEF M, r, Restrained, Unrestrained, Integrated
<1>5. QED
  BY <1>2, <1>3, <1>4

LEMMA SplitFits ==
  ASSUME TypeOK, Mergers, Counted, DomainsFit, NEW t, t \in Token, state[t] = "MERGED", Split(t)
  PROVE  DomainsFit'
<1> DEFINE a == target[t]
           M == merged[a] \ {t}
           q == IF ActiveTokenDeleted(a) THEN param
                ELSE [param EXCEPT ![a] = HandledReset(a, M, param)]
           r == [q EXCEPT ![t] = HandledReset(t, {}, q)]
<1>1. /\ a \in Token /\ a # t /\ t \in merged[a] /\ merged[t] = {} /\ a \notin merged[a]
      /\ \A u \in Token : u # a => t \notin merged[u] /\ a \notin merged[u]
  BY DEF Mergers
<1>2. /\ param' = r /\ merged' = [merged EXCEPT ![a] = M] /\ rooted' = rooted /\ master' = master
  BY DEF Split, family
<1>3. param \in [Token -> Param] /\ M \in SUBSET Token /\ a \notin M /\ t \notin M
      /\ merged \in [Token -> SUBSET Token]
  BY <1>1 DEF TypeOK
<1>4. Restrained(a, M, param) /\ Restrained(t, {}, param)
  BY <1>1, FewerMergedFit DEF DomainsFit
<1> HIDE DEF a, M
<1>5. /\ q \in [Token -> Param] /\ \A u \in Token \ {a} : q[u] = param[u]
      /\ Restrained(a, M, q)
      /\ a \in rooted \/ master[a] # NoToken => Unrestrained(a, M, q)
  <2>1. CASE ActiveTokenDeleted(a)
    <3>1. q = param
      BY <2>1
    <3>2. refs[a] \in 0 .. 1 /\ IsFiniteSet(merged[a]) /\ Cardinality(merged[a]) \in Nat \ {0}
      <4>1. IsFiniteSet(merged[a]) /\ merged[a] # {} /\ refs[a] \in Nat
        BY <1>1 DEF Counted, TypeOK
      <4>2. Cardinality(merged[a]) \in Nat \ {0}
        BY <4>1, FS_CardinalityType, FS_EmptySet
      <4>3. QED
        BY <2>1, <4>1, <4>2 DEF ActiveTokenDeleted, Fewer
    <3>3. Owned(a) = 0
      <4>1. refs[a] = Owned(a) + Cardinality(merged[a]) + Held(a)
        BY <1>1 DEF Counted
      <4>2. Owned(a) \in 0 .. 1 /\ Held(a) \in 0 .. 1
        BY DEF Owned, Held
      <4>3. QED
        BY <3>2, <4>1, <4>2
    <3>4. ~(a \in rooted \/ master[a] # NoToken)
      BY <3>3 DEF Owned
    <3> HIDE DEF q
    <3>5. QED
      BY <1>3, <1>4, <3>1, <3>4
  <2>2. CASE ~ActiveTokenDeleted(a)
    <3>1. q = [param EXCEPT ![a] = HandledReset(a, M, param)]
      BY <2>2
    <3> HIDE DEF q
    <3>2. HandledReset(a, M, param) \in Param
      BY <1>1, <1>3, ResetType
    <3>3. Restrained(a, M, q) /\ Unrestrained(a, M, q)
      BY <1>1, <1>3, <1>4, <3>1, HandledResetFits
    <3>4. QED
      BY <1>3, <3>1, <3>2, <3>3
  <2>3. QED
    BY <2>1, <2>2
<1> HIDE DEF q
<1>6. Restrained(t, {}, r) /\ Unrestrained(t, {}, r)
  <2>1. Restrained(t, {}, q)
    BY <1>1, <1>4, <1>5, FitLocally
  <2>2. QED
    BY <1>5, <2>1, HandledResetFits
<1>7. \A u \in Token \ {t} : r[u] = q[u]
  BY <1>5
<1> HIDE DEF r
<1>8. Restrained(a, M, r) /\ (a \in rooted \/ master[a] # NoToken => Unrestrained(a, M, r))
  <2>1. \A u : u = a \/ u \in M => r[u] = q[u]
    BY <1>1, <1>3, <1>7
  <2>2. QED
    BY <1>5, <2>1, FitLocally
<1>9. merged'[a] = M /\ \A u \in Token \ {a} : merged'[u] = merged[u]
  BY <1>1, <1>2, <1>3
<1>10. ASSUME NEW u \in Token
       PROVE  /\ Restrained(u, merged[u], param)'
              /\ (u \in rooted \/ master[u] # NoToken)' => Unrestrained(u, merged[u], param)'
  <2>1. CASE u = a
    BY <2>1, <1>2, <1>8, <1>9 DEF Restrained, Unrestrained, Integrated
  <2>2. CASE u = t
    BY <2>2, <1>1, <1>2, <1>6, <1>9 DEF Restrained, Unrestrained, Integrated
  <2>3. CASE u \notin {a, t}
    <3>1. \A w \in Token \ {a, t} : param'[w] = param[w]
      BY <1>2, <1>5, <1>7
    <3>2. u \notin {a, t} /\ merged[u] \cap {a, t} = {} /\ {a, t} \in SUBSET Token
      BY <1>1, <2>3
    <3>3. QED
      BY <1>2, <1>9, <2>3, <3>1, <3>2, OthersFit
  <2>4. QED
    BY <2>1, <2>2, <2>3
<1>11. QED
  BY <1>10 DEF DomainsFit

(* Steps that change the variable of one token, or what is merged onto it, *)
(* or its owner.                                                           *)
LEMMA OneChangedFits ==
  ASSUME NEW t, NEW N, NEW r, TypeOK, DomainsFit, t \in Token,
         \A u \in Token \ {t} :
           t \notin merged[u] /\ merged'[u] = merged[u] /\ master'[u] = master[u],
         rooted' \subseteq rooted \cup {t}, merged'[t] = N,
         param' = r, \A w \in Token \ {t} : r[w] = param[w],
         Restrained(t, N, r),
         t \in rooted' \/ master'[t] # NoToken => Unrestrained(t, N, r)
  PROVE  DomainsFit'
<1>1. /\ Restrained(t, merged[t], param)'
      /\ (t \in rooted \/ master[t] # NoToken)' => Unrestrained(t, merged[t], param)'
  BY DEF Restrained, Unrestrained, Integrated
<1>2. ASSUME NEW u \in Token, u # t
      PROVE  /\ Restrained(u, merged[u], param)'
             /\ (u \in rooted \/ master[u] # NoToken)' => Unrestrained(u, merged[u], param)'
  <2>1. u \notin {t} /\ merged[u] \cap {t} = {} /\ {t} \in SUBSET Token
    BY <1>2
  <2>2. \A w \in Token \ {t} : param'[w] = param[w]
    OBVIOUS
  <2>3. merged'[u] = merged[u] /\ (u \in rooted' => u \in rooted) /\ master'[u] \in {master[u], NoToken}
    BY <1>2
  <2>4. QED
    BY <2>1, <2>2, <2>3, OthersFit
<1>3. QED
  BY <1>1, <1>2 DEF DomainsFit

LEMMA NoneChangedFits ==
  ASSUME TypeOK, DomainsFit, UNCHANGED <<merged, param>>, rooted' \subseteq rooted,
         \A u \in Token : master'[u] \in {master[u], NoToken}
  PROVE  DomainsFit'
<1>1. ASSUME NEW u \in Token
      PROVE  /\ Restrained(u, merged[u], param)'
             /\ (u \in rooted \/ master[u] # NoToken)' => Unrestrained(u, merged[u], param)'
  <2>1. u \notin {} /\ merged[u] \cap {} = {} /\ {} \in SUBSET Token
    OBVIOUS
  <2>2. QED
    BY <2>1, OthersFit
<1>2. QED
  BY <1>1 DEF DomainsFit

LEMMA DomainsFitStep ==
  ASSUME Inv, DomainsFit, [Next]_vars
  PROVE  DomainsFit'
<1>1. TypeOK /\ Mergers /\ Families /\ Counted
  BY DEF Inv
<1>2. CASE /\ UNCHANGED <<merged, param, rooted>>
           /\ \A u \in Token : master'[u] \in {master[u], NoToken}
  BY <1>1, <1>2, NoneChangedFits
<1>3. CASE UNCHANGED vars
  BY <1>2, <1>3 DEF vars, family, unions
<1> SUFFICES ASSUME NEW t \in Token, Client(t) \/ Cascade(t) PROVE DomainsFit'
  BY <1>3 DEF Next
<1>4. /\ param \in [Token -> Param] /\ t \notin merged[t] /\ merged[t] \in SUBSET Token
      /\ merged \in [Token -> SUBSET Token] /\ master \in [Token -> Token \cup {NoToken}]
      /\ Restrained(t, merged[t], param)
      /\ t \in rooted \/ master[t] # NoToken => Unrestrained(t, merged[t], param)
      /\ state[t] # "MERGED" => \A u \in Token : t \notin merged[u]
      /\ state[t] # "ACTIVE" => merged[t] = {}
  BY <1>1 DEF TypeOK, Mergers, DomainsFit
<1>5. ASSUME NEW B \in Bases, \/ Create(t, B)
                              \/ \E m \in Token : CreateSlave(m, t, B)
      PROVE  DomainsFit'
  <2>1. /\ state[t] = "NONE" /\ param' = [param EXCEPT ![t] = NewParam(B)] /\ merged' = merged
        /\ rooted' \subseteq rooted \cup {t}
        /\ \A u \in Token \ {t} : master'[u] = master[u]
    BY <1>4, <1>5 DEF Create, CreateSlave, Born, unions
  <2> DEFINE r == [param EXCEPT ![t] = NewParam(B)]
  <2>2. /\ Restrained(t, {}, r) /\ Unrestrained(t, {}, r)
    BY <1>4, NewParamFits
  <2>3. /\ \A u \in Token \ {t} : t \notin merged[u] /\ merged'[u] = merged[u]
        /\ merged'[t] = {} /\ param' = r /\ \A w \in Token \ {t} : r[w] = param[w]
    BY <1>4, <2>1
  <2> HIDE DEF r
  <2>4. QED
    BY <1>1, <2>1, <2>2, <2>3, OneChangedFits
<1>6. ASSUME NEW a \in Token, DoMerge(t, a) PROVE DomainsFit'
  <2>1. /\ a # t /\ merged[t] = {} /\ a \notin merged[a] /\ \A u \in Token : a \notin merged[u]
        /\ param[t].domain \cap param[a].domain # {}
        /\ Restrained(a, merged[a], param) /\ merged[a] \in SUBSET Token
        /\ a \in rooted \/ master[a] # NoToken => Unrestrained(a, merged[a], param)
    BY <1>1, <1>4, <1>6 DEF DoMerge, Compatible, Mergers, DomainsFit
  <2> DEFINE r == [param EXCEPT ![a] = Imposed(param[a], param[t])]
             N == merged[a] \cup {t}
  <2>2. /\ param' = r /\ merged'[a] = N /\ rooted' = rooted /\ master' = master
        /\ \A u \in Token \ {a} : merged'[u] = merged[u] /\ r[u] = param[u]
    BY <1>4, <1>6 DEF DoMerge, family
  <2>3. /\ Restrained(a, N, r)
        /\ Unrestrained(a, merged[a], param) => Unrestrained(a, N, r)
    BY <1>4, <2>1, ImposedFits
  <2> HIDE DEF r, N
  <2>4. QED
    BY <1>1, <2>1, <2>2, <2>3, OneChangedFits
<1>7. ASSUME NEW m \in Token, state[m] = "MERGED", Split(m) PROVE DomainsFit'
  BY <1>1, <1>7, SplitFits
<1>8. CASE CancelMerged(t) \/ DeleteCancelsMerged(t) \/ DeactivateSplits(t)
  BY <1>1, <1>4, <1>7, <1>8 DEF CancelMerged, DeleteCancelsMerged, DeactivateSplits, Mergers
<1>9. ASSUME NEW r, param' = r, \A w \in Token \ {t} : r[w] = param[w],
             UNCHANGED <<merged, rooted, master>>, \A u \in Token : t \notin merged[u],
             Restrained(t, merged[t], r),
             Unrestrained(t, merged[t], param) => Unrestrained(t, merged[t], r)
      PROVE  DomainsFit'
  BY <1>1, <1>4, <1>9, OneChangedFits
<1>10. ASSUME NEW v \in Choices, Specify(t, v) PROVE DomainsFit'
  <2> DEFINE r == [param EXCEPT ![t] = [SpecifiedTo(@, v) EXCEPT !.local = TRUE]]
  <2>1. /\ param' = r /\ state[t] # "MERGED" /\ UNCHANGED <<merged, rooted, master>>
    BY <1>10 DEF Specify, family, unions
  <2>2. v \in Value
    BY TokenAssumption
  <2>3. Restrained(t, merged[t], r) /\ Unrestrained(t, merged[t], r)
    BY <1>4, <2>2, SpecifyFits
  <2>4. \A w \in Token \ {t} : r[w] = param[w]
    BY <1>4
  <2> HIDE DEF r
  <2>5. QED
    BY <1>4, <1>9, <2>1, <2>3, <2>4
<1>11. ASSUME NEW D \in Restrictions, RestrictBase(t, D) PROVE DomainsFit'
  <2> DEFINE r == [param EXCEPT ![t] = BaseRestricted(@, D)]
  <2>1. /\ param' = r /\ state[t] # "MERGED" /\ UNCHANGED <<merged, rooted, master>>
    BY <1>11 DEF RestrictBase, family, unions
  <2>2. D \in SUBSET Value
    BY TokenAssumption
  <2>3. /\ Restrained(t, merged[t], r)
        /\ Unrestrained(t, merged[t], param) => Unrestrained(t, merged[t], r)
    BY <1>4, <2>2, BaseRestrictedFits
  <2>4. \A w \in Token \ {t} : r[w] = param[w]
    BY <1>4
  <2> HIDE DEF r
  <2>5. QED
    BY <1>4, <1>9, <2>1, <2>3, <2>4
<1>12. CASE ResetParam(t)
  <2> DEFINE q == [param EXCEPT ![t] = ResetSpecified(t, merged[t], param)]
             a == target[t]
  <2>1. /\ UNCHANGED <<merged, rooted, master>>
        /\ param' = IF state[t] = "MERGED" THEN [q EXCEPT ![a] = HandledReset(a, merged[a], q)] ELSE q
    BY <1>12 DEF ResetParam, family, unions
  <2>2. q = [param EXCEPT ![t] = ResetSpecified(t, merged[t], param)]
    OBVIOUS
  <2>3. q \in [Token -> Param] /\ \A w \in Token \ {t} : q[w] = param[w]
    BY <1>4, ResetType
  <2> HIDE DEF q
  <2>4. Restrained(t, merged[t], q) /\ Unrestrained(t, merged[t], q)
    BY <1>4, <2>2, ResetSpecifiedFits
  <2>5. CASE state[t] # "MERGED"
    BY <1>4, <1>9, <2>1, <2>3, <2>4, <2>5
  <2>6. CASE state[t] = "MERGED"
    <3>1. /\ a \in Token /\ a # t /\ t \in merged[a] /\ merged[t] = {} /\ a \notin merged[a]
          /\ \A u \in Token : u # a => t \notin merged[u] /\ a \notin merged[u]
          /\ merged[a] \in SUBSET Token /\ Restrained(a, merged[a], param)
      <4>1. a \in Token /\ t \in merged[a] /\ state[t] = "MERGED"
        BY <1>1, <2>6 DEF Mergers
      <4>2. /\ merged[t] = {} /\ a # t /\ target[t] = a
            /\ \A u, m \in Token : m \in merged[u] => state[m] = "MERGED" /\ target[m] = u
        BY <1>1, <4>1 DEF Mergers, TypeOK
      <4>3. state[a] # "MERGED" /\ merged[a] \in SUBSET Token
        BY <1>1, <4>1 DEF Mergers, TypeOK
      <4>4. Restrained(a, merged[a], param)
        BY <4>1 DEF DomainsFit
      <4> HIDE DEF a
      <4>5. QED
        BY <4>1, <4>2, <4>3, <4>4
    <3> HIDE DEF a
    <3> DEFINE M == merged[a]
               r == [q EXCEPT ![a] = HandledReset(a, M, q)]
    <3>2. q[t].spec = NoValue /\ q[t].base = param[t].base
      <4>1. q[t] = ResetSpecified(t, merged[t], param)
        BY <1>4, <2>2
      <4>2. ~ShouldBeSpecified(merged[t], param)
        BY <3>1 DEF ShouldBeSpecified
      <4>3. QED
        BY <1>4, <4>1, <4>2, ResetSpecifiedFields
    <3>3. \A m \in M : q[m].base = param[m].base /\ (q[m].spec # NoValue => q[m].spec = param[m].spec)
      BY <2>3, <3>1, <3>2
    <3>4. q[a] = param[a]
      BY <2>3, <3>1
    <3>5. Restrained(a, M, q)
      BY <3>1, <3>3, <3>4 DEF Restrained, Integrated
    <3>6. Restrained(a, M, r) /\ Unrestrained(a, M, r)
      BY <2>3, <3>1, <3>5, HandledResetFits
    <3>7. \A w \in Token \ {a} : r[w] = q[w]
      BY <2>3
    <3>8. param' = r
      BY <2>1, <2>6
    <3> HIDE DEF r, M
    <3>9. Restrained(t, {}, r) /\ Unrestrained(t, {}, r)
      <4>1. \A u : u = t \/ u \in {} => r[u] = q[u]
        BY <3>1, <3>7
      <4>2. Restrained(t, {}, q) /\ Unrestrained(t, {}, q)
        BY <2>4, <3>1
      <4>3. QED
        BY <4>1, <4>2, FitLocally
    <3>10. ASSUME NEW u \in Token
           PROVE  /\ Restrained(u, merged[u], param)'
                  /\ (u \in rooted \/ master[u] # NoToken)' => Unrestrained(u, merged[u], param)'
      <4>1. CASE u = a
        BY <2>1, <3>6, <3>8, <4>1 DEF Restrained, Unrestrained, Integrated, M
      <4>2. CASE u = t
        BY <2>1, <3>1, <3>8, <3>9, <4>2 DEF Restrained, Unrestrained, Integrated
      <4>3. CASE u \notin {a, t}
        <5>1. \A w \in Token \ {a, t} : param'[w] = param[w]
          BY <2>3, <3>7, <3>8
        <5>2. u \notin {a, t} /\ merged[u] \cap {a, t} = {} /\ {a, t} \in SUBSET Token
          BY <3>1, <4>3
        <5>3. QED
          BY <1>1, <2>1, <4>3, <5>1, <5>2, OthersFit
      <4>4. QED
        BY <4>1, <4>2, <4>3
    <3>11. QED
      BY <3>10 DEF DomainsFit
  <2>7. QED
    BY <2>5, <2>6
<1>13. CASE DeleteEnds(t)
  <2> DEFINE r == [param EXCEPT ![t] = NoParam]
  <2>1. /\ param' = r /\ state[t] = "INACTIVE" /\ merged' = merged /\ rooted' \subseteq rooted
        /\ master' = [master EXCEPT ![t] = NoToken]
    BY <1>13 DEF DeleteEnds, Cancelled, unions
  <2>2. Restrained(t, {}, r) /\ Unrestrained(t, {}, r)
    BY <1>4 DEF Restrained, Unrestrained, Integrated, NoParam
  <2>3. /\ \A w \in Token \ {t} : r[w] = param[w] /\ master'[w] = master[w]
        /\ rooted' \subseteq rooted \cup {t} /\ merged'[t] = {}
        /\ \A u \in Token \ {t} : t \notin merged[u] /\ merged'[u] = merged[u]
    BY <1>4, <2>1
  <2> HIDE DEF r
  <2>4. QED
    BY <1>1, <2>1, <2>2, <2>3, OneChangedFits
<1>14. CASE DeactivateDropsSlave(t)
  <2>1. /\ UNCHANGED <<merged, param, rooted>>
        /\ \E s : master' = [master EXCEPT ![s] = NoToken]
    BY <1>14 DEF DeactivateDropsSlave, unions
  <2>2. \A u \in Token : master'[u] \in {master[u], NoToken}
    BY <1>4, <2>1
  <2>3. QED
    BY <1>2, <2>1, <2>2
<1>15. CASE \/ Activate(t) \/ Reject(t) \/ Commit(t) \/ CancelActive(t) \/ Reinstated(t) \/ Delete(t)
            \/ DeactivateResets(t) \/ DeactivateReturns(t) \/ DeleteBegins(t)
            \/ DeleteCancelsActive(t)
  <2>1. UNCHANGED <<family, merged, param>>
    BY <1>15 DEF Activate, Reject, Commit, CancelActive, Reinstated, Delete, DeactivateResets,
       DeactivateReturns, DeleteBegins, DeleteCancelsActive, unions
  <2>2. QED
    BY <1>2, <2>1 DEF family
<1>16. QED
  BY <1>5, <1>6, <1>8, <1>10, <1>11, <1>12, <1>13, <1>14, <1>15
     DEF Client, Cascade, CancelRejected, DeleteCancelsRejected

LEMMA DomainsFitInit == Init => DomainsFit
<1> SUFFICES ASSUME Init, NEW t \in Token
             PROVE  Restrained(t, merged[t], param) /\ Unrestrained(t, merged[t], param)
  BY DEF DomainsFit
<1>1. param[t] = NoParam /\ merged[t] = {}
  BY DEF Init
<1>2. QED
  BY <1>1 DEF Restrained, Unrestrained, Integrated, NoParam

(* The inductive invariant with what it says of the variables, in every    *)
(* state: of Token.cc and MergeMemento.cc together.                        *)
THEOREM DomainsInvariant == Spec => [](Inv /\ DomainsFit)
<1>1. Inv /\ DomainsFit /\ [Next]_vars => (Inv /\ DomainsFit)'
  BY InvStep, DomainsFitStep
<1>2. Init => Inv /\ DomainsFit
  BY InvInit, DomainsFitInit
<1>3. QED
  BY <1>1, <1>2, PTL DEF Spec

(* What the tokens merged onto a token require of its variable is in       *)
(* force: merging, splitting and resetting lose no base domain and no      *)
(* specification (MergeMemento.cc, TokenVariable.hh).                      *)
THEOREM RequirementsHold == Spec => []RequirementsInForce
<1>1. TypeOK /\ Mergers /\ DomainsFit => RequirementsInForce
  <2> SUFFICES ASSUME TypeOK, Mergers, DomainsFit,
                      NEW a \in Alive, NEW t \in merged[a]
               PROVE  /\ param[a].domain \subseteq param[t].base
                      /\ param[t].spec # NoValue => param[a].domain \subseteq {param[t].spec}
    BY DEF RequirementsInForce
  <2>1. Restrained(a, merged[a], param)
    BY DEF DomainsFit, Alive
  <2>2. QED
    BY <2>1 DEF Restrained, Integrated
<1>2. QED
  BY <1>1, DomainsInvariant, PTL DEF Inv

(* And nothing but that is in force for a token that somebody owns and     *)
(* that nothing specifies: a split reinstates the old values.              *)
THEOREM NothingElseHolds == Spec => []NothingElseInForce
<1>1. DomainsFit => NothingElseInForce
  BY DEF DomainsFit, NothingElseInForce, Unrestrained, Alive
<1>2. QED
  BY <1>1, DomainsInvariant, PTL
=============================================================================
