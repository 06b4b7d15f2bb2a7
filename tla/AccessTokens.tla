------------------------------ MODULE AccessTokens ------------------------------
(* Access tokens (src/src/session.ts, accountRuntime.ts): they are signed   *)
(* when a session is issued or refreshed and are verified without a look   *)
(* at the session, so that what a revocation means to them is only their   *)
(* short life.  Tokens of the time before have a long one: of them the     *)
(* session is looked at.  The sessions themselves are in Sessions; a token *)
(* is the record of its claims and of the secret that signed it.           *)
EXTENDS Naturals, FiniteSets

CONSTANTS Ids,       \* sessions
          Calls,     \* refreshes that may be at work
          Secrets,
          TtlNow,    \* ACCESS_TOKEN_TTL
          TtlBefore, \* the life of tokens before it was shortened
          MaxTime, MaxTokens, \* bounds
          None

TokensAssumption ==
    /\ IsFiniteSet(Secrets) /\ Secrets # {}
    /\ TtlNow \in Nat \ {0} /\ TtlBefore \in Nat /\ TtlBefore > TtlNow
    /\ MaxTime \in Nat /\ MaxTokens \in Nat

VARIABLES
    now,
    config,    \* XMCL_SESSION_SECRET, and XMCL_SESSION_SECRET_PRIMARY or None
    shortened, \* whether the deployment with the short life is out
    sessions,  \* None, active, or revoked, and by a write of which time
    refreshes, \* of the refreshes at work, the tokens they are to give
    tokens     \* tokens that were signed

vars == <<now, config, shortened, sessions, refreshes, tokens>>

Active == [state |-> "active", at |-> 0]

Init ==
    /\ now = 0
    /\ \E s \in Secrets : config = [session |-> s, primary |-> None]
    /\ shortened = FALSE
    /\ sessions = [s \in Ids |-> None]
    /\ refreshes = [c \in Calls |-> None]
    /\ tokens = {}
-----------------------------------------------------------------------------
(* `configuredSessionSecrets`: new tokens are signed with the primary, and *)
(* the other secret is good for those that are out.                        *)
Primary == IF config.primary # None THEN config.primary ELSE config.session

Verifying_Primary == {Primary}   \* mutant: the other secret is forgotten
Verifying == {Primary, config.session}

(* The life of a token begins with the call, not with its signature; the   *)
(* call has the secrets and the code of its beginning.                     *)
Life == IF shortened THEN TtlNow ELSE TtlBefore

Token(s, iat) == [id |-> s, iat |-> iat, exp |-> iat + Life, secret |-> Primary]

Issue(s) ==
    /\ sessions[s] = None /\ Cardinality(tokens) < MaxTokens
    /\ sessions' = [sessions EXCEPT ![s] = Active]
    /\ tokens' = tokens \cup {Token(s, now)}
    /\ UNCHANGED <<now, config, shortened, refreshes>>

(* A refresh looks at the session, notes the time, ...                     *)
Refresh(c, s) ==
    /\ refreshes[c] = None
    /\ sessions[s] = Active
    /\ refreshes' = [refreshes EXCEPT ![c] = Token(s, now)]
    /\ UNCHANGED <<now, config, shortened, sessions, tokens>>

(* ... and exchanges the refresh token only if nobody revoked the session  *)
(* in the meantime.                                                        *)
Rotates(c) == sessions[refreshes[c].id] = Active

Sign(c) ==
    /\ refreshes[c] # None /\ Cardinality(tokens) < MaxTokens
    /\ tokens' = IF Rotates(c) THEN tokens \cup {refreshes[c]} ELSE tokens
    /\ refreshes' = [refreshes EXCEPT ![c] = None]
    /\ UNCHANGED <<now, config, shortened, sessions>>

Revoke(s) ==
    /\ sessions[s] = Active
    /\ sessions' = [sessions EXCEPT ![s] = [state |-> "revoked", at |-> now]]
    /\ UNCHANGED <<now, config, shortened, refreshes, tokens>>
-----------------------------------------------------------------------------
(* `AccessTokenVerifier.verify`                                            *)
Verified(t) == t.secret \in Verifying /\ now < t.exp

(* A token that lives longer than those of today is of the time before.    *)
RequiresLegacySessionCheck_Never(t) == FALSE   \* mutant: it was removed
RequiresLegacySessionCheck(t) == t.exp - t.iat > TtlNow

ActiveSession(t) == sessions[t.id] = Active

Accepts(t) ==
    /\ Verified(t)
    /\ RequiresLegacySessionCheck(t) => ActiveSession(t)
-----------------------------------------------------------------------------
(* The secrets are changed in two steps; the old one is taken back only    *)
(* when the tokens it signed are over.                                     *)
Replace ==
    /\ config.primary = None
    /\ \E s \in Secrets \ {config.session} : config' = [config EXCEPT !.primary = s]
    /\ UNCHANGED <<now, shortened, sessions, refreshes, tokens>>

Retire ==
    /\ config.primary # None
    /\ \A t \in tokens : t.secret = config.session => t.exp <= now
    /\ \A c \in Calls : refreshes[c] # None => refreshes[c].secret # config.session
    /\ config' = [session |-> config.primary, primary |-> None]
    /\ UNCHANGED <<now, shortened, sessions, refreshes, tokens>>

Shorten ==
    /\ ~shortened /\ shortened' = TRUE
    /\ UNCHANGED <<now, config, sessions, refreshes, tokens>>

Tick ==
    /\ now < MaxTime /\ now' = now + 1
    /\ UNCHANGED <<config, shortened, sessions, refreshes, tokens>>

Next ==
    \/ Replace \/ Retire \/ Shorten \/ Tick
    \/ \E s \in Ids : Issue(s) \/ Revoke(s) \/ \E c \in Calls : Refresh(c, s)
    \/ \E c \in Calls : Sign(c)

Spec == Init /\ [][Next]_vars
-----------------------------------------------------------------------------
(* Records are as the code writes them.                                    *)
TypeOK ==
    /\ now \in 0 .. MaxTime
    /\ \A t \in tokens : t.id \in Ids /\ t.iat <= now /\ t.secret \in Secrets

(* A revocation is heard by every token within the life of today's: those  *)
(* that live longer are refused at once, and no refresh that was at work   *)
(* makes another.                                                          *)
RevokedIsRefused ==
    \A t \in tokens :
        (sessions[t.id] # Active /\ now >= sessions[t.id].at + TtlNow) => ~Accepts(t)

(* Whoever has a token that is not over is let in, whatever becomes of the *)
(* secrets, as long as the session is there.                               *)
KeptBySecrets ==
    \A t \in tokens : (sessions[t.id] = Active /\ now < t.exp) => Accepts(t)

Inv == TypeOK /\ RevokedIsRefused /\ KeptBySecrets
=============================================================================
