------------------------------- MODULE Tokens -------------------------------
(***************************************************************************)
(* The life of tokens: activation, merging, rejection, cancelling and      *)
(* commitment, masters and their slaves, reference counts, and deletion    *)
(* with its cascade (Token.cc), with what merging does to the variables    *)
(* of the tokens (MergeMemento.cc, TokenVariable.hh).                      *)
(*                                                                         *)
(* All tokens here are of one predicate and have, beside the state         *)
(* variable, one variable, of which no constraint but the merging narrows  *)
(* the domain.  Deletion and deactivation call each other; the calls in    *)
(* progress are a stack, and the client waits until it is empty.           *)
(***************************************************************************)
EXTENDS Integers, FiniteSets, Sequences

CONSTANTS
  Token,        \* the tokens; one that was deleted may be created again
  NoToken,      \* TokenId::noId()
  Value,        \* values of the variable
  NoValue,      \* not specified
  Bases,        \* the base domains with which a token can be created
  Restrictions, \* the domains that a base domain can be restricted to
  Choices       \* the values that a client specifies

ASSUME TokenAssumption ==
  /\ NoToken \notin Token
  /\ NoValue \notin Value
  /\ Bases \subseteq (SUBSET Value) \ {{}}
  /\ Restrictions \subseteq SUBSET Value
  /\ Choices \subseteq Value

VARIABLES
  state,      \* value of m_state, or NONE where there is no such token
  rooted,     \* the tokens that were created without a master
  master,     \* m_master
  slaves,     \* m_slaves
  target,     \* m_activeToken
  merged,     \* m_mergedTokens
  refs,       \* Entity::m_refCount
  committed,  \* the tokens with m_committed
  deleted,    \* the tokens with m_deleted
  out,        \* deactivation count of the variable
  param,      \* the variable
  calls       \* calls of delete and of deactivate in progress, innermost first

family == <<rooted, master, slaves>>
unions == <<target, merged, out>>
vars   == <<state, family, unions, refs, committed, deleted, param, calls>>

(* TokenVariable: base and derived domain, the base domain of the token    *)
(* and of all merged onto it, the value it is specified to, and whether it *)
(* was specified through this token itself.                                *)
Param == [base : SUBSET Value, integrated : SUBSET Value, domain : SUBSET Value,
          spec : Value \cup {NoValue}, local : BOOLEAN]

NoParam ==
  [base |-> {}, integrated |-> {}, domain |-> {}, spec |-> NoValue, local |-> FALSE]

Call == {"delete", "deactivate"} \X Token

Alive == {t \in Token : state[t] # "NONE"}

TypeOK ==
  /\ state \in [Token -> {"NONE", "INACTIVE", "ACTIVE", "MERGED", "REJECTED"}]
  /\ rooted \subseteq Token
  /\ master \in [Token -> Token \cup {NoToken}]
  /\ slaves \in [Token -> SUBSET Token]
  /\ target \in [Token -> Token \cup {NoToken}]
  /\ merged \in [Token -> SUBSET Token]
  /\ refs \in [Token -> Nat]
  /\ committed \subseteq Token /\ deleted \subseteq Token
  /\ out \in [Token -> 0 .. 1]
  /\ param \in [Token -> Param]
  /\ calls \in Seq(Call)

Init ==
  /\ state = [t \in Token |-> "NONE"]
  /\ rooted = {}
  /\ master = [t \in Token |-> NoToken] /\ slaves = [t \in Token |-> {}]
  /\ target = [t \in Token |-> NoToken] /\ merged = [t \in Token |-> {}]
  /\ refs = [t \in Token |-> 0]
  /\ committed = {} /\ deleted = {}
  /\ out = [t \in Token |-> 0]
  /\ param = [t \in Token |-> NoParam]
  /\ calls = << >>

Idle == calls = << >>
-----------------------------------------------------------------------------
(* A definition whose name says what is wrong with it is a mutated form of *)
(* the one after it; no specification uses it.                             *)
(*                                                                         *)
(* Variables.                                                              *)

(* internalSpecify, with violations not allowed.                           *)
SpecifiedTo(p, v) ==
  IF p.spec = v THEN p
  ELSE [p EXCEPT !.spec = v, !.domain = IF v \in @ THEN {v} ELSE {}]

(* A variable with a singleton base domain is specified from the start.    *)
NewParam(B) ==
  LET p == [NoParam EXCEPT !.base = B, !.integrated = B, !.domain = B]
  IN  IF Cardinality(B) = 1
      THEN [SpecifiedTo(p, CHOOSE v \in B : TRUE) EXCEPT !.local = TRUE]
      ELSE p

(* computeBaseDomain() over the tokens of M, with the variables as in q.   *)
IntegratedAlone(t, M, q) == q[t].base
Integrated(t, M, q) == {v \in q[t].base : \A m \in M : v \in q[m].base}
ShouldBeSpecified(M, q) == \E m \in M : q[m].spec # NoValue

Relaxed(p, D) == [p EXCEPT !.integrated = D, !.domain = D, !.spec = NoValue]

(* handleReset(): called when a token has been split from this one, or its *)
(* variable was reset.                                                     *)
HandledReset(t, M, q) ==
  IF ShouldBeSpecified(M, q) \/ q[t].local
  THEN [q[t] EXCEPT !.integrated = Integrated(t, M, q)]
  ELSE Relaxed(q[t], Integrated(t, M, q))

(* resetSpecified(), for the variable of the token itself.                 *)
ResetSpecifiedAlways(t, M, q) ==
  [Relaxed(q[t], Integrated(t, M, q)) EXCEPT !.local = FALSE]

ResetSpecified(t, M, q) ==
  LET p == IF ShouldBeSpecified(M, q)
           THEN [q[t] EXCEPT !.integrated = Integrated(t, M, q)]
           ELSE Relaxed(q[t], Integrated(t, M, q))
  IN  [p EXCEPT !.local = FALSE]

(* handleBase(), then handleSpecified() where the other is specified.      *)
Imposed(p, other) ==
  LET r == [p EXCEPT !.integrated = @ \cap other.base, !.domain = @ \cap other.base]
  IN  IF other.spec # NoValue /\ r.spec = NoValue THEN SpecifiedTo(r, other.spec) ELSE r

(* Variable::handleRestrictBaseDomain and TokenVariable's addition to it.  *)
BaseRestricted(p, D) ==
  LET B == p.base \cap D
      r == [p EXCEPT !.base = B, !.domain = @ \cap B]
      s == IF Cardinality(B) = 1 /\ r.spec = NoValue
           THEN SpecifiedTo(r, CHOOSE v \in B : TRUE) ELSE r
  IN  [s EXCEPT !.integrated = @ \cap D]
-----------------------------------------------------------------------------
(* Entity::decRefCount.                                                    *)
FewerUnchecked(n) == n - 1
Fewer(n) == IF n > 0 THEN n - 1 ELSE 0

(* The constructors.                                                       *)
Born(t, B) ==
  /\ state[t] = "NONE"
  /\ state' = [state EXCEPT ![t] = "INACTIVE"]
  /\ refs' = [refs EXCEPT ![t] = 1]
  /\ param' = [param EXCEPT ![t] = NewParam(B)]
  /\ UNCHANGED <<unions, committed, deleted, calls>>

Create(t, B) ==
  /\ Idle
  /\ Born(t, B)
  /\ rooted' = rooted \cup {t}
  /\ UNCHANGED <<master, slaves>>

(* A rule that fires for an active token, or a client, adds a slave.       *)
CreateSlave(m, t, B) ==
  /\ Idle
  /\ state[m] = "ACTIVE"
  /\ Born(t, B)
  /\ master' = [master EXCEPT ![t] = m]
  /\ slaves' = [slaves EXCEPT ![m] = @ \cup {t}]
  /\ UNCHANGED rooted

Activate(t) ==
  /\ Idle
  /\ state[t] = "INACTIVE"
  /\ state' = [state EXCEPT ![t] = "ACTIVE"]
  /\ UNCHANGED <<family, unions, refs, committed, deleted, param, calls>>

(* Only a token without master can be rejectable.                          *)
Reject(t) ==
  /\ Idle
  /\ state[t] = "INACTIVE" /\ t \in rooted
  /\ state' = [state EXCEPT ![t] = "REJECTED"]
  /\ UNCHANGED <<family, unions, refs, committed, deleted, param, calls>>

(* The state is restricted to ACTIVE for good.                             *)
Commit(t) ==
  /\ Idle
  /\ state[t] = "ACTIVE" /\ t \notin committed
  /\ committed' = committed \cup {t}
  /\ refs' = [refs EXCEPT ![t] = @ + 1]
  /\ UNCHANGED <<state, family, unions, deleted, param, calls>>

(* Only what getCompatibleTokens() offers, in a consistent database, is    *)
(* merged.                                                                 *)
Compatible(t, a) ==
  /\ \A u \in Alive : param[u].domain # {}
  /\ param[t].domain \cap param[a].domain # {}

DoMerge(t, a) ==
  /\ Idle
  /\ state[t] = "INACTIVE" /\ state[a] = "ACTIVE"
  /\ Compatible(t, a)
  /\ state' = [state EXCEPT ![t] = "MERGED"]
  /\ target' = [target EXCEPT ![t] = a]
  /\ merged' = [merged EXCEPT ![a] = @ \cup {t}]
  /\ out' = [out EXCEPT ![t] = @ + 1]
  /\ refs' = [refs EXCEPT ![a] = @ + 1]
  /\ param' = [param EXCEPT ![a] = Imposed(@, param[t])]
  /\ UNCHANGED <<family, committed, deleted, calls>>

(* split(): the active token is told to relax, unless the reference count  *)
(* says that it is deleted.                                                *)
ActiveTokenDeletedEarly(a) == Fewer(refs[a]) <= 1
ActiveTokenDeleted(a) == Fewer(refs[a]) = 0

Split(t) ==
  LET a == target[t]
      M == merged[a] \ {t}
      q == IF ActiveTokenDeleted(a) THEN param
           ELSE [param EXCEPT ![a] = HandledReset(a, M, param)]
  IN  /\ state' = [state EXCEPT ![t] = "INACTIVE"]
      /\ target' = [target EXCEPT ![t] = NoToken]
      /\ merged' = [merged EXCEPT ![a] = M]
      /\ refs' = [refs EXCEPT ![a] = Fewer(@)]
      /\ out' = [out EXCEPT ![t] = @ - 1]
      /\ param' = [q EXCEPT ![t] = HandledReset(t, {}, q)]
      /\ UNCHANGED <<family, committed, deleted>>
-----------------------------------------------------------------------------
(* What the client does to the variables.  That of a merged token is       *)
(* inactive: it can be reset, which the active token then follows.         *)
Specify(t, v) ==
  /\ Idle
  /\ t \in Alive /\ state[t] # "MERGED"
  /\ v \in param[t].base
  /\ param' = [param EXCEPT ![t] = [SpecifiedTo(@, v) EXCEPT !.local = TRUE]]
  /\ UNCHANGED <<state, family, unions, refs, committed, deleted, calls>>

ResetParam(t) ==
  LET q == [param EXCEPT ![t] = ResetSpecified(t, merged[t], param)]
      a == target[t]
  IN  /\ Idle
      /\ t \in Alive
      /\ param' = IF state[t] = "MERGED" THEN [q EXCEPT ![a] = HandledReset(a, merged[a], q)]
                  ELSE q
      /\ UNCHANGED <<state, family, unions, refs, committed, deleted, calls>>

RestrictBase(t, D) ==
  /\ Idle
  /\ t \in Alive /\ state[t] # "MERGED"
  /\ D \cap param[t].base # {} /\ ~(param[t].base \subseteq D)
  /\ param' = [param EXCEPT ![t] = BaseRestricted(@, D)]
  /\ UNCHANGED <<state, family, unions, refs, committed, deleted, calls>>
-----------------------------------------------------------------------------
(* cancel(), from the client.  A committed token stays as it is.           *)
CancelActive(t) ==
  /\ Idle
  /\ state[t] = "ACTIVE" /\ t \notin committed
  /\ calls' = << <<"deactivate", t>> >>
  /\ UNCHANGED <<state, family, unions, refs, committed, deleted, param>>

CancelMerged(t) ==
  /\ Idle
  /\ state[t] = "MERGED"
  /\ Split(t)
  /\ UNCHANGED calls

Reinstated(t) ==
  /\ state[t] = "REJECTED"
  /\ state' = [state EXCEPT ![t] = "INACTIVE"]
  /\ UNCHANGED <<family, unions, refs, committed, deleted, param, calls>>

CancelRejected(t) == Idle /\ Reinstated(t)

(* Of the tokens that are not inactive the client may only delete facts,   *)
(* which have no master.                                                   *)
Delete(t) ==
  /\ Idle
  /\ t \in Alive
  /\ state[t] = "INACTIVE" \/ t \in rooted
  /\ calls' = << <<"delete", t>> >>
  /\ UNCHANGED <<state, family, unions, refs, committed, deleted, param>>
-----------------------------------------------------------------------------
(* deactivate(): first the merged tokens go, then the state, then the      *)
(* slaves.  The rules engine removes those of each rule, the token itself  *)
(* the rest, so that they may go in any order.                             *)
Deactivating(t) == ~Idle /\ Head(calls) = <<"deactivate", t>>

DeactivateSplits(t) ==
  /\ Deactivating(t)
  /\ \E m \in merged[t] : Split(m)
  /\ UNCHANGED calls

DeactivateResets(t) ==
  /\ Deactivating(t)
  /\ merged[t] = {} /\ state[t] = "ACTIVE"
  /\ state' = [state EXCEPT ![t] = "INACTIVE"]
  /\ UNCHANGED <<family, unions, refs, committed, deleted, param, calls>>

(* removeMaster(): is the slave deleted once its master is removed?        *)
WillBeDiscardedAlways(s) == TRUE
WillBeDiscarded(s) == refs[s] = 1

DeactivateDropsSlave(t) ==
  /\ Deactivating(t)
  /\ merged[t] = {} /\ state[t] = "INACTIVE"
  /\ \E s \in slaves[t] :
       /\ master' = [master EXCEPT ![s] = NoToken]
       /\ slaves' = [slaves EXCEPT ![t] = @ \ {s}]
       /\ refs' = [refs EXCEPT ![s] = Fewer(@)]
       /\ calls' = IF WillBeDiscarded(s) THEN << <<"delete", s>> >> \o calls ELSE calls
  /\ UNCHANGED <<state, rooted, unions, committed, deleted, param>>

DeactivateReturns(t) ==
  /\ Deactivating(t)
  /\ merged[t] = {} /\ state[t] = "INACTIVE" /\ slaves[t] = {}
  /\ calls' = Tail(calls)
  /\ UNCHANGED <<state, family, unions, refs, committed, deleted, param>>
-----------------------------------------------------------------------------
(* The destructor: handleDiscard(), which takes back the reference of a    *)
(* commitment and cancels the token, and then ~Entity().                   *)
Deleting(t) == ~Idle /\ Head(calls) = <<"delete", t>>

AfterCommitForgotten(t) == refs
AfterCommit(t) == IF t \in committed THEN [refs EXCEPT ![t] = Fewer(@)] ELSE refs

DeleteBegins(t) ==
  /\ Deleting(t)
  /\ t \notin deleted
  /\ deleted' = deleted \cup {t}
  /\ refs' = AfterCommit(t)
  /\ UNCHANGED <<state, family, unions, committed, param, calls>>

DeleteCancelsActive(t) ==
  /\ Deleting(t) /\ t \in deleted
  /\ state[t] = "ACTIVE"
  /\ calls' = << <<"deactivate", t>> >> \o calls
  /\ UNCHANGED <<state, family, unions, refs, committed, deleted, param>>

DeleteCancelsMerged(t) ==
  /\ Deleting(t) /\ t \in deleted
  /\ state[t] = "MERGED"
  /\ Split(t)
  /\ UNCHANGED calls

DeleteCancelsRejected(t) == Deleting(t) /\ t \in deleted /\ Reinstated(t)

(* The master forgets a slave that is deleted before it.                   *)
ForgottenByNobody(t) == slaves
ForgottenByMaster(t) ==
  IF master[t] = NoToken THEN slaves
  ELSE [slaves EXCEPT ![master[t]] = @ \ {t}]

(* What is not inactive is cancelled first.                                *)
CancelledIfMerged(t) == state[t] # "MERGED"
Cancelled(t) == state[t] = "INACTIVE"

DeleteEnds(t) ==
  /\ Deleting(t) /\ t \in deleted
  /\ Cancelled(t)
  /\ state' = [state EXCEPT ![t] = "NONE"]
  /\ slaves' = ForgottenByMaster(t)
  /\ master' = [master EXCEPT ![t] = NoToken]
  /\ refs' = [refs EXCEPT ![t] = Fewer(@)]
  /\ rooted' = rooted \ {t}
  /\ committed' = committed \ {t} /\ deleted' = deleted \ {t}
  /\ param' = [param EXCEPT ![t] = NoParam]
  /\ calls' = Tail(calls)
  /\ UNCHANGED unions
-----------------------------------------------------------------------------
Client(t) ==
  \/ \E B \in Bases : Create(t, B) \/ \E m \in Token : CreateSlave(m, t, B)
  \/ Activate(t) \/ Reject(t) \/ Commit(t)
  \/ \E a \in Token : DoMerge(t, a)
  \/ \E v \in Choices : Specify(t, v)
  \/ ResetParam(t)
  \/ \E D \in Restrictions : RestrictBase(t, D)
  \/ CancelActive(t) \/ CancelMerged(t) \/ CancelRejected(t) \/ Delete(t)

Cascade(t) ==
  \/ DeactivateSplits(t) \/ DeactivateResets(t)
  \/ DeactivateDropsSlave(t) \/ DeactivateReturns(t)
  \/ DeleteBegins(t) \/ DeleteCancelsActive(t) \/ DeleteCancelsMerged(t)
  \/ DeleteCancelsRejected(t) \/ DeleteEnds(t)

Next == \E t \in Token : Client(t) \/ Cascade(t)

Spec == Init /\ [][Next]_vars
=============================================================================
