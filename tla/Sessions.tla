-------------------------------- MODULE Sessions --------------------------------
(* The sessions of one account (session.ts, account.ts): sign-ins that     *)
(* issue one, refreshes that exchange a refresh token for the next, and    *)
(* revocations of one or of all of them.  Every read and every write of    *)
(* the repository is a step of its own; between two of them other calls    *)
(* run, and the isolate may end.  A refresh token is a number, and its     *)
(* hash the number itself.  Proofs of possession are left out, and access  *)
(* tokens, which are valid for ten minutes whatever becomes of the session,*)
(* are in AccessTokens.                                                    *)
EXTENDS Naturals, FiniteSets

CONSTANTS Calls,       \* calls that may be at work at the same time
          MaxSessions, \* sign-ins
          MaxTokens,   \* refresh tokens
          MaxFaults,   \* isolates that end with a call at work
          None         \* no session, no document

SessionsAssumption ==
    /\ IsFiniteSet(Calls) /\ Calls # {}
    /\ MaxSessions \in Nat \ {0} /\ MaxTokens \in Nat /\ MaxFaults \in Nat

Ids == 1 .. MaxSessions
Tokens == 1 .. MaxTokens

VARIABLES
    sessions,  \* xmcl_sessions: the session of an id, or None
    listed,    \* sessionIds of the account
    tokens,    \* refresh tokens that were made
    calls,     \* calls at work
    exchanged, \* for every token, how often it was exchanged
    replayed,  \* sessions of which a call said refresh_token_replayed
    dismissed, \* sessions that a revocation which returned was to revoke
    faults     \* isolates that ended

vars == <<sessions, listed, tokens, calls, exchanged, replayed, dismissed, faults>>

SessionRecord ==
    [hash : Tokens, consumed : SUBSET Tokens, revoked : BOOLEAN, expired : BOOLEAN]

Idle == [at |-> "idle", id |-> None, token |-> None, copy |-> {}, doc |-> None,
         todo |-> {}]
-----------------------------------------------------------------------------
Init ==
    /\ sessions = [s \in Ids |-> None]
    /\ listed = {}
    /\ tokens = 0
    /\ calls = [h \in Calls |-> Idle]
    /\ exchanged = [t \in Tokens |-> 0]
    /\ replayed = {}
    /\ dismissed = {}
    /\ faults = 0

At(h, place) == calls[h].at = place

Becomes(h, call) == calls' = [calls EXCEPT ![h] = call]

Goes(h, place) == Becomes(h, [calls[h] EXCEPT !.at = place])

End(h) == Becomes(h, Idle)

Known(s) == sessions[s] # None
-----------------------------------------------------------------------------
(* A sign-in: the new session is stored, then its id in the account, which *)
(* is read and written as a whole.                                         *)
Issue(h) ==
    /\ At(h, "idle") /\ tokens < MaxTokens
    /\ \E s \in Ids :
        /\ ~Known(s) /\ \A r \in 1 .. s - 1 : Known(r)
        /\ sessions' = [sessions EXCEPT ![s] =
               [hash |-> tokens + 1, consumed |-> {}, revoked |-> FALSE,
                expired |-> FALSE]]
        /\ Becomes(h, [Idle EXCEPT !.at = "get_account", !.id = s])
    /\ tokens' = tokens + 1
    /\ UNCHANGED <<listed, exchanged, replayed, dismissed, faults>>

GetAccount(h) ==
    /\ At(h, "get_account")
    /\ Becomes(h, [calls[h] EXCEPT !.at = "save_account", !.copy = listed])
    /\ UNCHANGED <<sessions, listed, tokens, exchanged, replayed, dismissed, faults>>

SaveAccount(h) ==
    /\ At(h, "save_account")
    /\ listed' = calls[h].copy \cup {calls[h].id}
    /\ End(h)
    /\ UNCHANGED <<sessions, tokens, exchanged, replayed, dismissed, faults>>
-----------------------------------------------------------------------------
(* A token that the session of the id once had is presented, by whoever    *)
(* holds it.  What the call goes on with is the document it read here.     *)
Refresh(h) ==
    /\ At(h, "idle")
    /\ \E s \in Ids :
        /\ Known(s) /\ ~sessions[s].revoked /\ ~sessions[s].expired
        /\ \E t \in sessions[s].consumed \cup {sessions[s].hash} :
            Becomes(h, [Idle EXCEPT !.id = s, !.token = t, !.doc = sessions[s],
                !.at = IF t \in sessions[s].consumed THEN "replay" ELSE "rotate"])
    /\ UNCHANGED <<sessions, listed, tokens, exchanged, replayed, dismissed, faults>>

(* The token was consumed before: the session ends (revokeSessionIf-       *)
(* RefreshConsumed, one update).  If another call ended it, the answer is  *)
(* that of a session which was revoked.                                    *)
Revokes(h) ==
    LET s == calls[h].id IN
    ~sessions[s].revoked /\ calls[h].token \in sessions[s].consumed

Replay(h) ==
    LET s == calls[h].id IN
    /\ At(h, "replay")
    /\ \/ /\ Revokes(h)
          /\ sessions' = [sessions EXCEPT ![s].revoked = TRUE]
          /\ replayed' = replayed \cup {s}
          /\ End(h)
       \/ /\ ~Revokes(h) /\ Goes(h, "latest")
          /\ UNCHANGED <<sessions, replayed>>
    /\ UNCHANGED <<listed, tokens, exchanged, dismissed, faults>>

Latest(h) ==
    LET s == calls[h].id IN
    /\ At(h, "latest")
    /\ replayed' = IF sessions[s].revoked THEN replayed ELSE replayed \cup {s}
    /\ End(h)
    /\ UNCHANGED <<sessions, listed, tokens, exchanged, dismissed, faults>>

(* rotateSessionRefresh: the document is replaced if its hash is the one   *)
(* that was read and it was not revoked or outlived meanwhile.             *)
(* Mutants: the document is replaced whatever its hash, or although the    *)
(* session was revoked.                                                    *)
Rotates_AnyHash(h) == LET now == sessions[calls[h].id] IN ~now.revoked /\ ~now.expired

Rotates_Revoked(h) ==
    LET now == sessions[calls[h].id] IN now.hash = calls[h].doc.hash /\ ~now.expired

Rotates(h) ==
    LET now == sessions[calls[h].id] IN
    now.hash = calls[h].doc.hash /\ ~now.revoked /\ ~now.expired

Rotate(h) ==
    LET s == calls[h].id
        t == calls[h].token IN
    /\ At(h, "rotate") /\ Rotates(h) /\ tokens < MaxTokens
    /\ sessions' = [sessions EXCEPT ![s] =
           [calls[h].doc EXCEPT !.hash = tokens + 1, !.consumed = @ \cup {t}]]
    /\ tokens' = tokens + 1
    /\ exchanged' = [exchanged EXCEPT ![t] = @ + 1]
    /\ End(h)
    /\ UNCHANGED <<listed, replayed, dismissed, faults>>

(* Another call exchanged the token: this one is a replay, too.            *)
RotateLost(h) ==
    LET s == calls[h].id IN
    /\ At(h, "rotate") /\ ~Rotates(h)
    /\ Goes(h, "lost")
    /\ UNCHANGED <<sessions, listed, tokens, exchanged, replayed, dismissed, faults>>

(* Mutant: the call says replay, and leaves the session as it is.          *)
Lost_Spared(h) ==
    /\ At(h, "lost")
    /\ replayed' = IF Revokes(h) THEN replayed \cup {calls[h].id} ELSE replayed
    /\ End(h)
    /\ UNCHANGED <<sessions, listed, tokens, exchanged, dismissed, faults>>

Lost(h) ==
    LET s == calls[h].id IN
    /\ At(h, "lost")
    /\ \/ /\ Revokes(h)
          /\ sessions' = [sessions EXCEPT ![s].revoked = TRUE]
          /\ replayed' = replayed \cup {s}
       \/ /\ ~Revokes(h) /\ UNCHANGED <<sessions, replayed>>
    /\ End(h)
    /\ UNCHANGED <<listed, tokens, exchanged, dismissed, faults>>
-----------------------------------------------------------------------------
(* Revocation, by the owner or by a merge of the account: of one session   *)
(* on the account's list or of all of them, one document after the other.  *)
Revoke(h) ==
    /\ At(h, "idle")
    /\ \E todo \in {listed} \cup {{s} : s \in listed} :
        /\ \E s \in todo : ~sessions[s].revoked
        /\ Becomes(h, [Idle EXCEPT !.at = "get", !.todo = todo, !.copy = todo])
    /\ UNCHANGED <<sessions, listed, tokens, exchanged, replayed, dismissed, faults>>

First(h) == CHOOSE s \in calls[h].todo : \A r \in calls[h].todo : s <= r

GetSession(h) ==
    /\ At(h, "get") /\ calls[h].todo # {}
    /\ Becomes(h, [calls[h] EXCEPT !.at = "save", !.doc = sessions[First(h)]])
    /\ UNCHANGED <<sessions, listed, tokens, exchanged, replayed, dismissed, faults>>

SaveSession(h) ==
    /\ At(h, "save")
    /\ sessions' = [sessions EXCEPT ![First(h)] = [calls[h].doc EXCEPT !.revoked = TRUE]]
    /\ Becomes(h, [calls[h] EXCEPT !.at = "get", !.doc = None,
                       !.todo = @ \ {First(h)}])
    /\ UNCHANGED <<listed, tokens, exchanged, replayed, dismissed, faults>>

Revoked(h) ==
    /\ At(h, "get") /\ calls[h].todo = {}
    /\ dismissed' = dismissed \cup calls[h].copy
    /\ End(h)
    /\ UNCHANGED <<sessions, listed, tokens, exchanged, replayed, faults>>
-----------------------------------------------------------------------------
(* Thirty days after the sign-in no token of the session is exchanged.     *)
Outlive ==
    /\ \E s \in Ids :
        /\ Known(s) /\ ~sessions[s].expired
        /\ sessions' = [sessions EXCEPT ![s].expired = TRUE]
    /\ UNCHANGED <<listed, tokens, calls, exchanged, replayed, dismissed, faults>>

Die(h) ==
    /\ ~At(h, "idle") /\ faults < MaxFaults
    /\ faults' = faults + 1
    /\ End(h)
    /\ UNCHANGED <<sessions, listed, tokens, exchanged, replayed, dismissed>>

Next ==
    \/ Outlive
    \/ \E h \in Calls :
        \/ Issue(h) \/ GetAccount(h) \/ SaveAccount(h)
        \/ Refresh(h) \/ Replay(h) \/ Latest(h)
        \/ Rotate(h) \/ RotateLost(h) \/ Lost(h)
        \/ Revoke(h) \/ GetSession(h) \/ SaveSession(h) \/ Revoked(h)
        \/ Die(h)

Spec == Init /\ [][Next]_vars
-----------------------------------------------------------------------------
(* Every document, call and history is of the kind the code gives it.      *)
TypeOK ==
    /\ sessions \in [Ids -> SessionRecord \cup {None}]
    /\ listed \subseteq Ids /\ replayed \subseteq Ids /\ dismissed \subseteq Ids
    /\ tokens \in 0 .. MaxTokens /\ faults \in 0 .. MaxFaults
    /\ exchanged \in [Tokens -> Nat]
    /\ \A h \in Calls : calls[h].at \in {"idle", "get_account", "save_account",
           "replay", "latest", "rotate", "lost", "get", "save"}

(* "Concurrent refresh rotation has one winner": of two calls that present *)
(* one refresh token, one after the other or at the same time, one at most *)
(* exchanges it, and of a session that is not revoked one token is good.   *)
ExchangedOnce ==
    /\ \A t \in Tokens : exchanged[t] <= 1
    /\ \A s \in Ids : (Known(s) /\ ~sessions[s].revoked) =>
          /\ exchanged[sessions[s].hash] = 0
          /\ \A t \in sessions[s].consumed : exchanged[t] = 1

(* "... and revokes replay": a session of which a call said that a token   *)
(* was replayed is revoked, and so is every session that a revocation was  *)
(* to revoke once that has returned, whatever ran meanwhile.               *)
SaidIsRevoked == \A s \in replayed \cup dismissed : sessions[s].revoked

(* No call brings a revoked session back, although whole documents are     *)
(* written over what was read before; none of its tokens is exchanged.     *)
RevokedStays ==
    \A s \in Ids : (Known(s) /\ sessions[s].revoked) =>
        /\ sessions'[s].revoked
        /\ exchanged'[sessions[s].hash] = exchanged[sessions[s].hash]

RevokedIsFinal == [][RevokedStays]_vars
=============================================================================
