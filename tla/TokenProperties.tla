-------------------------- MODULE TokenProperties --------------------------
(***************************************************************************)
(* What the life of tokens promises, in the states where no call is in     *)
(* progress unless said otherwise.                                         *)
(***************************************************************************)
EXTENDS Tokens

(* Token::isValid, for all tokens together: merged tokens and active       *)
(* tokens point to each other, and only they do; whoever has slaves is     *)
(* active; a variable is inactive exactly while its token is merged.       *)
Valid ==
  Idle => \A t \in Alive :
    /\ state[t] = "MERGED" <=> target[t] # NoToken
    /\ target[t] # NoToken => state[target[t]] = "ACTIVE" /\ t \in merged[target[t]]
    /\ state[t] # "ACTIVE" => merged[t] = {} /\ slaves[t] = {}
    /\ out[t] = IF state[t] = "MERGED" THEN 1 ELSE 0

(* No token refers to one that is gone, in the middle of a cascade either: *)
(* the collections that deactivate and handleDiscard loop over change      *)
(* under them.                                                             *)
NoDangling ==
  \A t \in Alive :
    /\ slaves[t] \cup merged[t] \subseteq Alive
    /\ {master[t], target[t]} \subseteq Alive \cup {NoToken}

(* The check of ~Entity(): whatever the order of merging, committing and   *)
(* cancelling, nobody holds a reference to a token that is destroyed.      *)
DestroyedUnreferenced ==
  [][\A t \in Alive : t \notin Alive' => refs'[t] = 0 /\ merged[t] = {} /\ slaves[t] = {}]_vars

(* A committed token does not go with its master (Token.cc:977): only a    *)
(* deletion of the token itself destroys it.                               *)
CommittedSurvives ==
  [][\A t \in Alive \cap committed : t \notin Alive' => calls[Len(calls)] = <<"delete", t>>]_vars

(* What the tokens merged onto a token require of it is in force, after    *)
(* any splits and resets of the others.                                    *)
RequirementsInForce ==
  Idle => \A a \in Alive : \A t \in merged[a] :
    /\ param[a].domain \subseteq param[t].base
    /\ param[t].spec # NoValue => param[a].domain \subseteq {param[t].spec}

(* And nothing else is: "old values are reinstated" by a split, as         *)
(* testBasicMerging says.  This holds for a token that has an owner; one   *)
(* whose master is gone can stay restricted.                               *)
NothingElseInForce ==
  Idle => \A a \in Alive :
    ((a \in rooted \/ master[a] # NoToken) /\ param[a].spec = NoValue) =>
      Integrated(a, merged[a], param) \subseteq param[a].domain

-----------------------------------------------------------------------------
(* Entity.hh:67, of decRefCount: "Decrement the reference count. Return    *)
(* true if this self-destructs as a result".                               *)
ReferencedWhileAlive == Idle => \A t \in Alive : refs[t] > 0
=============================================================================
