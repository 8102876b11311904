---------------------------- MODULE SessionTokens ----------------------------
(***************************************************************************)
(* The session of one user on several devices: rotation of refresh tokens  *)
(* (backend/src/modules/auth), the interceptor that refreshes in the       *)
(* background (frontend lib/axiosInstance.ts), and what becomes of the     *)
(* local store when a session ends (app/providers/UserContext.tsx).        *)
(***************************************************************************)
EXTENDS Integers, Sequences, FiniteSets

CONSTANTS
    Jars,           \* where a refresh token is kept: one for each device
    Keychains,      \* the jars of desktop apps; the others are cookies
    Tabs, JarOf,    \* the running apps, and the jar of each
    MaxCalls, MaxFaults     \* bounds: refreshes and sign-ins; faults

ASSUME JarAssumption == JarOf \in [Tabs -> Jars] /\ Keychains \subseteq Jars

VARIABLES
    token,          \* server: token[i], the i-th refresh token made
    version,        \* server: tokenVersion of the user
    jar,            \* jar[j]: the refresh token kept there, 0 for none
    tab,            \* tab[t]: the state of an app with its call to the server
    cached,         \* jars beside which the user is cached, with an offline grant
    unsynced,       \* jars whose local store holds writes not yet pushed
    hurt,           \* history: jars that may hold a token that is spent
    cut,            \* history: jars that were out of reach in a refresh
    dropped,        \* history: jars whose unsynced writes were wiped unasked
    calls, faults

server == <<token, version>>
history == <<hurt, cut, dropped>>
local == <<cached, unsynced>>
vars == <<server, jar, tab, local, history, calls, faults>>

NoAccess == -1      \* getAccessToken() is null
Out == [at |-> "out", access |-> NoAccess, expired |-> FALSE, boot |-> FALSE,
        revoked |-> FALSE, sent |-> 0, got |-> 0, seen |-> 0]
In(v) == [Out EXCEPT !.at = "in", !.access = v]
Calling(t) == tab[t].at \notin {"out", "in"}
Refreshing(t) == Calling(t) /\ tab[t].at \notin {"raise", "sweep"}
Spending(t) == tab[t].at \in {"mint", "user", "granted"}
Sharing(t) == {p \in Tabs : JarOf[p] = JarOf[t]}
Faulty == faults < MaxFaults /\ faults' = faults + 1
Counted == calls < MaxCalls /\ calls' = calls + 1
Live(i) == ~token[i].revoked
Bare(t) == tab[t].at = "in" /\ tab[t].access = NoAccess
Valid(t) == tab[t].at = "in" /\ ~tab[t].expired /\ tab[t].access = version

Go(t, label) == tab' = [tab EXCEPT ![t].at = label]
Fresh(family) == [family |-> family, revoked |-> FALSE, expired |-> FALSE]
Revoked(s) == [i \in DOMAIN token |-> [token[i] EXCEPT !.revoked = @ \/ i \in s]]
-----------------------------------------------------------------------------
(* loginUser, issueAuthSession, setAuthSession. *)
Login(t) ==
    /\ tab[t].at = "out" /\ Counted
    /\ token' = Append(token, Fresh(Len(token) + 1))
    /\ jar' = [jar EXCEPT ![JarOf[t]] = Len(token) + 1]
    /\ tab' = [tab EXCEPT ![t] = In(version)]
    /\ hurt' = IF \E p \in Sharing(t) : Calling(p) THEN hurt ELSE hurt \ {JarOf[t]}
    /\ cached' = cached \cup {JarOf[t]}
    /\ UNCHANGED <<version, unsynced, cut, dropped, faults>>

(* JWT_EXPIRY passes; the seven days of a refresh token pass. *)
AccessExpires(t) ==
    /\ tab[t].at = "in" /\ tab[t].access # NoAccess /\ ~tab[t].expired
    /\ tab' = [tab EXCEPT ![t].expired = TRUE]
    /\ UNCHANGED <<server, jar, local, history, calls, faults>>

TokenExpires(i) ==
    /\ ~token[i].expired /\ Faulty
    /\ token' = [token EXCEPT ![i].expired = TRUE]
    /\ UNCHANGED <<version, jar, tab, local, history, calls>>

(* A local write; a push with an access token that is good. *)
Work(t) ==
    /\ tab[t].at = "in"
    /\ unsynced' = unsynced \cup {JarOf[t]}
    /\ UNCHANGED <<server, jar, tab, cached, history, calls, faults>>

Sync(t) ==
    /\ Valid(t)
    /\ unsynced' = unsynced \ {JarOf[t]}
    /\ UNCHANGED <<server, jar, tab, cached, history, calls, faults>>

StartRefresh(t, from) ==
    /\ Counted
    /\ tab' = [tab EXCEPT ![t] = [from EXCEPT !.at = "find", !.sent = jar[JarOf[t]]]]
    /\ hurt' = IF \E p \in Sharing(t) \ {t} : Calling(p) THEN hurt \cup {JarOf[t]} ELSE hurt
    /\ UNCHANGED <<server, jar, local, cut, dropped, faults>>

(* A call of the app is answered "expired" or "session revoked": the       *)
(* interceptor refreshes in the background.                                *)
Call(t) ==
    /\ tab[t].at = "in" /\ tab[t].access # NoAccess /\ ~Valid(t)
    /\ StartRefresh(t, [tab[t] EXCEPT !.revoked = ~tab[t].expired])

(* restoreSession: the app is opened or reloaded; the access token is gone.*)
Open(t) == ~Calling(t) /\ StartRefresh(t, [Out EXCEPT !.boot = TRUE])
-----------------------------------------------------------------------------
(* A slip: a family with any revoked token counts as gone. *)
FindWholeFamily(t) ==
    LET i == tab[t].sent
        next == IF i = 0 \/ (\E k \in DOMAIN token : token[k].family = token[i].family /\ token[k].revoked)
                THEN {"refused"} ELSE {"claim"}
    IN
    /\ tab[t].at = "find" /\ \E label \in next : Go(t, label)
    /\ UNCHANGED <<server, jar, local, history, calls, faults>>

(* rotateRefreshToken, await by await. An expired row is reaped some time. *)
Find(t) ==
    LET i == tab[t].sent
        next == IF i = 0 THEN {"refused"}
                ELSE IF token[i].revoked /\ token[i].expired THEN {"reuse", "refused"}
                ELSE IF token[i].revoked THEN {"reuse"}
                ELSE IF token[i].expired THEN {"refused"} ELSE {"claim"}
    IN
    /\ tab[t].at = "find" /\ \E label \in next : Go(t, label)
    /\ UNCHANGED <<server, jar, local, history, calls, faults>>

(* A slip: the claim does not look at revokedAt again. *)
ClaimUnconditionally(t) ==
    /\ tab[t].at = "claim"
    /\ token' = Revoked({tab[t].sent}) /\ Go(t, "mint")
    /\ UNCHANGED <<version, jar, local, history, calls, faults>>

Claim(t) ==
    /\ tab[t].at = "claim"
    /\ IF Live(tab[t].sent)
       THEN token' = Revoked({tab[t].sent}) /\ Go(t, "mint")
       ELSE UNCHANGED token /\ Go(t, "reuse")
    /\ UNCHANGED <<version, jar, local, history, calls, faults>>

(* A slip: the successor is made without the family it belongs to. *)
MintAlone(t) ==
    /\ tab[t].at = "mint"
    /\ token' = Append(token, Fresh(Len(token) + 1))
    /\ tab' = [tab EXCEPT ![t].at = "user", ![t].got = Len(token) + 1]
    /\ UNCHANGED <<version, jar, local, history, calls, faults>>

(* createRefreshToken *)
Mint(t) ==
    /\ tab[t].at = "mint"
    /\ token' = Append(token, Fresh(token[tab[t].sent].family))
    /\ tab' = [tab EXCEPT ![t].at = "user", ![t].got = Len(token) + 1]
    /\ UNCHANGED <<version, jar, local, history, calls, faults>>

(* refreshAccessToken reads the user only now. *)
LoadUser(t) ==
    /\ tab[t].at = "user"
    /\ tab' = [tab EXCEPT ![t].at = "granted", ![t].seen = version]
    /\ UNCHANGED <<server, jar, local, history, calls, faults>>

Family(i) == {k \in DOMAIN token : token[k].family = token[i].family}
Holding(s) == {j \in Jars : jar[j] \in s}
Carrying(s) == {JarOf[t] : t \in {p \in Tabs : tab[p].sent \in s}}

(* detectReuse: the whole family is revoked, then tokenVersion moves. *)
RevokeFamily(t) ==
    /\ tab[t].at = "reuse"
    /\ token' = Revoked(Family(tab[t].sent)) /\ Go(t, "bump")
    /\ hurt' = hurt \cup Holding(Family(tab[t].sent))
    /\ UNCHANGED <<version, jar, local, cut, dropped, calls, faults>>

Bump(t) ==
    /\ tab[t].at = "bump"
    /\ version' = version + 1 /\ Go(t, "refused")
    /\ UNCHANGED <<token, jar, local, history, calls, faults>>
-----------------------------------------------------------------------------
(* A slip: a desktop app keeps the token it has. *)
GrantedUnstored(t) ==
    /\ tab[t].at = "granted"
    /\ tab' = [tab EXCEPT ![t] = In(tab[t].seen)]
    /\ jar' = [jar EXCEPT ![JarOf[t]] = IF JarOf[t] \in Keychains THEN @ ELSE tab[t].got]
    /\ UNCHANGED <<server, local, history, calls, faults>>

(* The new token is put away before the waiting calls are released; a      *)
(* keychain that cannot be written is only logged.                         *)
Granted(t) ==
    LET j == JarOf[t] IN
    /\ tab[t].at = "granted"
    /\ tab' = [tab EXCEPT ![t] = In(tab[t].seen)]
    /\ \/ jar' = [jar EXCEPT ![j] = tab[t].got] /\ UNCHANGED <<hurt, faults>>
       \/ /\ j \in Keychains /\ Faulty
          /\ hurt' = hurt \cup {j} /\ UNCHANGED jar
    /\ cached' = IF tab[t].boot THEN cached \cup {j} ELSE cached
    /\ UNCHANGED <<server, unsynced, cut, dropped, calls>>

(* clearUser and wipeLocalData.  A cookie stays, a keychain is emptied; an *)
(* export of what is unsynced is offered or not.                           *)
SignOut(t, offered) ==
    LET j == JarOf[t] IN
    /\ tab' = [tab EXCEPT ![t] = Out]
    /\ jar' = [jar EXCEPT ![j] = IF j \in Keychains THEN 0 ELSE @]
    /\ unsynced' = unsynced \ {j} /\ cached' = cached \ {j}
    /\ dropped' = IF offered \/ j \notin unsynced THEN dropped ELSE dropped \cup {j}

(* The server refuses: the app signs out.  Only "session revoked" opens    *)
(* the flow that offers an export first.                                   *)
Refused(t) ==
    /\ tab[t].at = "refused"
    /\ SignOut(t, tab[t].revoked)
    /\ UNCHANGED <<server, hurt, cut, calls, faults>>

(* No answer: the network, or a server that died on the way.  At boot the  *)
(* cached user is let in if the offline grant holds; else only the user is *)
(* cleared.  In the background it counts as a refusal.                     *)
NoAnswer(t) ==
    LET j == JarOf[t] IN
    /\ Refreshing(t) /\ Faulty
    /\ hurt' = IF Spending(t) THEN hurt \cup {j} ELSE hurt
    /\ cut' = cut \cup {j}
    /\ IF ~tab[t].boot THEN SignOut(t, tab[t].revoked)
       ELSE /\ \/ /\ j \in cached
                  /\ tab' = [tab EXCEPT ![t] = In(NoAccess)] /\ UNCHANGED <<jar, cached>>
               \/ /\ tab' = [tab EXCEPT ![t] = Out] /\ cached' = cached \ {j}
                  /\ jar' = [jar EXCEPT ![j] = IF j \in Keychains THEN 0 ELSE @]
            /\ UNCHANGED <<unsynced, dropped>>
    /\ UNCHANGED <<server, calls>>

(* The page is reloaded or closed before the answer is in.  What the       *)
(* server still does for it is taken as done by then: its overlap with the *)
(* next call of the page is that of two tabs.                              *)
Reload(t) ==
    /\ Refreshing(t) /\ Faulty
    /\ tab' = [tab EXCEPT ![t] = Out]
    /\ hurt' = IF Spending(t) THEN hurt \cup {JarOf[t]} ELSE hurt
    /\ UNCHANGED <<server, jar, local, cut, dropped, calls>>

(* After an offline boot there is no access token: the first call that     *)
(* reaches the server is answered "no token", which is not retried.        *)
CallBare(t) ==
    /\ Bare(t)
    /\ SignOut(t, FALSE)
    /\ UNCHANGED <<server, hurt, cut, calls, faults>>
-----------------------------------------------------------------------------
(* The user signs out; the call to logoutUser may not get through.  A      *)
(* revoked token that another tab is just exchanging counts as reused.     *)
Logout(t) ==
    LET j == JarOf[t] IN
    /\ tab[t].at = "in"
    /\ tab' = [tab EXCEPT ![t] = Out]
    /\ unsynced' = unsynced \ {j} /\ cached' = cached \ {j}
    /\ \/ /\ token' = Revoked({jar[j]})
          /\ jar' = [jar EXCEPT ![j] = 0]
          /\ hurt' = IF \E p \in Sharing(t) : Calling(p) THEN hurt \cup {j} ELSE hurt
          /\ UNCHANGED faults
       \/ /\ Faulty /\ UNCHANGED <<token, hurt>>
          /\ jar' = [jar EXCEPT ![j] = IF j \in Keychains THEN 0 ELSE @]
    /\ UNCHANGED <<version, cut, dropped, calls>>

(* logoutAllSessions: read the user, save the version, revoke the rest.    *)
LogoutAll(t) ==
    /\ Valid(t) /\ Counted
    /\ tab' = [tab EXCEPT ![t].at = "raise", ![t].seen = version]
    /\ UNCHANGED <<server, jar, local, history, faults>>

RaiseVersion(t) ==
    /\ tab[t].at = "raise"
    /\ version' = tab[t].seen + 1 /\ Go(t, "sweep")
    /\ UNCHANGED <<token, jar, local, history, calls, faults>>

RevokeAll(t) ==
    /\ tab[t].at = "sweep"
    /\ token' = Revoked(DOMAIN token)
    /\ hurt' = hurt \cup Holding(DOMAIN token) \cup Carrying(DOMAIN token)
    /\ jar' = [jar EXCEPT ![JarOf[t]] = 0]
    /\ unsynced' = unsynced \ {JarOf[t]} /\ cached' = cached \ {JarOf[t]}
    /\ tab' = [tab EXCEPT ![t] = Out]
    /\ UNCHANGED <<version, cut, dropped, calls, faults>>

(* The answer fails to come: the app signs out all the same, whatever the  *)
(* server had got done.                                                    *)
LogoutAllLost(t) ==
    LET j == JarOf[t] IN
    /\ tab[t].at \in {"raise", "sweep"} /\ Faulty
    /\ tab' = [tab EXCEPT ![t] = Out]
    /\ jar' = [jar EXCEPT ![j] = IF j \in Keychains THEN 0 ELSE @]
    /\ unsynced' = unsynced \ {j} /\ cached' = cached \ {j}
    /\ UNCHANGED <<server, history, calls>>
-----------------------------------------------------------------------------
Init ==
    /\ token = <<>> /\ version = 0
    /\ jar = [j \in Jars |-> 0] /\ tab = [t \in Tabs |-> Out]
    /\ cached = {} /\ unsynced = {} /\ hurt = {} /\ cut = {} /\ dropped = {}
    /\ calls = 0 /\ faults = 0

Rotate(t) == Find(t) \/ Claim(t) \/ Mint(t) \/ LoadUser(t) \/ RevokeFamily(t) \/ Bump(t)
App(t) ==
    \/ Login(t) \/ AccessExpires(t) \/ Work(t) \/ Sync(t) \/ Call(t) \/ Open(t)
    \/ Granted(t) \/ Refused(t) \/ NoAnswer(t)
    \/ Reload(t) \/ CallBare(t)
SignOuts(t) == Logout(t) \/ LogoutAll(t) \/ RaiseVersion(t) \/ RevokeAll(t) \/ LogoutAllLost(t)

Next ==
    \/ \E t \in Tabs : Rotate(t) \/ App(t) \/ SignOuts(t)
    \/ \E i \in DOMAIN token : TokenExpires(i)

Spec == Init /\ [][Next]_vars
-----------------------------------------------------------------------------
Exchange == {"claim", "mint", "user", "granted", "reuse", "bump"}
Places == {"out", "in", "find", "refused", "raise", "sweep"} \cup Exchange

(* Every variable has its type, and what a call carries fits its place: a  *)
(* token is claimed before its successor is made, and the successor is     *)
(* known before it is granted (rotateRefreshToken).                        *)
TypeOK ==
    /\ token \in Seq([family : Nat, revoked : BOOLEAN, expired : BOOLEAN])
    /\ version \in Nat
    /\ jar \in [Jars -> Nat]
    /\ tab \in [Tabs -> [at : Places, access : {NoAccess} \cup Nat, expired : BOOLEAN,
                        boot : BOOLEAN, revoked : BOOLEAN, sent : Nat, got : Nat, seen : Nat]]
    /\ \A j \in Jars : jar[j] \in {0} \cup DOMAIN token
    /\ \A i \in DOMAIN token : token[i].family \in DOMAIN token
    /\ \A t \in Tabs :
           /\ tab[t].sent \in {0} \cup DOMAIN token
           /\ tab[t].at \in Exchange => tab[t].sent \in DOMAIN token
           /\ tab[t].at \in {"user", "granted"} => tab[t].got \in DOMAIN token
           /\ Spending(t) => ~Live(tab[t].sent)
    /\ cached \subseteq Jars /\ unsynced \subseteq Jars
    /\ hurt \subseteq Jars /\ cut \subseteq Jars /\ dropped \subseteq Jars

(* Of a family at most one token is good at any time, the one being made   *)
(* included, however the exchanges of it overlap (SEC-64: the claim is a   *)
(* conditional update; rotateRefreshToken).                                *)
OneLivePerFamily ==
    /\ \A i, k \in DOMAIN token :
           Live(i) /\ Live(k) /\ token[i].family = token[k].family => i = k
    /\ \A t \in Tabs : tab[t].at = "mint" =>
           /\ \A i \in Family(tab[t].sent) : ~Live(i)
           /\ \A p \in Tabs \ {t} : tab[p].at = "mint" =>
                  token[tab[p].sent].family # token[tab[t].sent].family

(* A token is taken for reused only when it went astray: the answer with   *)
(* its successor was lost or could not be put away, two tabs exchanged it  *)
(* at a time, or it was revoked from elsewhere (detectReuse).              *)
ReuseHasCause == \A t \in Tabs : tab[t].at \in {"reuse", "bump"} => JarOf[t] \in hurt

Good == {<<token[i].family, i>> : i \in {k \in DOMAIN token : Live(k)}}
Passing == {token[tab[t].sent].family : t \in {p \in Tabs : tab[p].at = "mint"}}
Families == INSTANCE TokenFamily WITH good <- Good, passing <- Passing, made <- Len(token)

(* The server implements TokenFamily: a family hands on a single token,    *)
(* and once it has none and none is being made it never gives one again    *)
(* (rotateRefreshToken, detectReuse, logoutAllSessions).                   *)
ImplementsFamilies == Families!Spec

(* A device gives up its user, and wipes what it holds, against the will   *)
(* of that user only for one of those reasons, because the refresh token   *)
(* expired or was cleared by a sign-out beside it, or because the server   *)
(* was out of reach (the interceptor and restoreSession).                  *)
SignedOutForCause ==
    [][\A t \in Tabs : Refreshing(t) \/ Bare(t) =>
           \/ tab'[t] # Out \/ JarOf[t] \notin cached \ cached'
           \/ JarOf[t] \in hurt \cup cut' \/ tab[t].sent = 0
           \/ token[tab[t].sent].expired]_vars

(* tokenRevokedFlow.ts: local writes that are not pushed yet are wiped     *)
(* only after the user was offered an export of them.                      *)
UnsyncedIsOffered == dropped = {}
=============================================================================
