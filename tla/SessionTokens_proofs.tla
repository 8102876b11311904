------------------------ MODULE SessionTokens_proofs ------------------------
(* Proofs about SessionTokens, for any number of devices, apps and tokens. *)
EXTENDS SessionTokens, TLAPS, SequenceTheorems

Record == [family : Nat, revoked : BOOLEAN, expired : BOOLEAN]
Inv == TypeOK /\ OneLivePerFamily

(* A list of tokens is a function on 1..Len. *)
LEMMA TokenList ==
    ASSUME TypeOK
    PROVE  /\ token \in Seq(Record) /\ Len(token) \in Nat
           /\ DOMAIN token = 1..Len(token)
           /\ \A i \in DOMAIN token : token[i] \in Record
PROOF
<1>1. token \in Seq(Record)
  BY DEF TypeOK, Record
<1> QED
  BY <1>1, LenProperties, ElementOfSeq

(* What a revocation leaves: the same tokens of the same families, and     *)
(* good are those that were and are not of the set revoked.                *)
LEMMA RevokedProperties ==
    ASSUME TypeOK, NEW s, token' = Revoked(s)
    PROVE  /\ token' \in Seq(Record)
           /\ DOMAIN token' = DOMAIN token /\ Len(token') = Len(token)
           /\ \A i \in DOMAIN token :
                 /\ token'[i].family = token[i].family
                 /\ ~token'[i].revoked <=> Live(i) /\ i \notin s
PROOF
<1>1. /\ Len(token) \in Nat /\ DOMAIN token = 1..Len(token)
      /\ \A i \in DOMAIN token : token[i] \in Record
  BY TokenList
<1>2. token' = [i \in 1..Len(token) |-> [token[i] EXCEPT !.revoked = @ \/ i \in s]]
  BY <1>1 DEF Revoked
<1>3. ASSUME NEW i \in 1..Len(token)
      PROVE  [token[i] EXCEPT !.revoked = @ \/ i \in s] \in Record
  <2>1. token[i] \in Record
    BY <1>1
  <2>2. (token[i].revoked \/ i \in s) \in BOOLEAN
    OBVIOUS
  <2> QED
    BY <2>1, <2>2 DEF Record
<1>4. token' \in [1..Len(token) -> Record]
  BY <1>2, <1>3
<1>5. token' \in Seq(Record)
  BY <1>1, <1>4
<1>6. DOMAIN token' = 1..Len(token)
  BY <1>2
<1>7. Len(token') = Len(token)
  BY <1>1, <1>5, <1>6, LenProperties
<1>8. ASSUME NEW i \in DOMAIN token
      PROVE  token'[i].family = token[i].family
  BY <1>1, <1>2, <1>8 DEF Record
<1>9. ASSUME NEW i \in DOMAIN token
      PROVE  ~token'[i].revoked <=> Live(i) /\ i \notin s
  <2>1. token'[i] = [token[i] EXCEPT !.revoked = @ \/ i \in s]
    BY <1>1, <1>2
  <2>2. token'[i].revoked = (token[i].revoked \/ i \in s)
    BY <1>1, <2>1 DEF Record
  <2> QED
    BY <2>2 DEF Live
<1> QED
  BY <1>1, <1>5, <1>6, <1>7, <1>8, <1>9

(* A token made: it is good, the others are as they were. *)
LEMMA AppendedProperties ==
    ASSUME TypeOK, NEW f \in 1..(Len(token) + 1), token' = Append(token, Fresh(f))
    PROVE  /\ token' \in Seq(Record)
           /\ Len(token') = Len(token) + 1 /\ DOMAIN token' = 1..(Len(token) + 1)
           /\ DOMAIN token \subseteq DOMAIN token' /\ Len(token) + 1 \notin DOMAIN token
           /\ \A i \in DOMAIN token :
                 token'[i].family = token[i].family /\ (~token'[i].revoked <=> Live(i))
           /\ token'[Len(token) + 1].family = f /\ ~token'[Len(token) + 1].revoked
PROOF
<1>1. /\ token \in Seq(Record) /\ Len(token) \in Nat /\ DOMAIN token = 1..Len(token)
  BY TokenList
<1>2. Fresh(f) \in Record /\ Fresh(f).family = f /\ Fresh(f).revoked = FALSE
  BY <1>1 DEF Fresh, Record
<1>3. /\ token' \in Seq(Record) /\ Len(token') = Len(token) + 1
      /\ \A i \in 1..Len(token) : token'[i] = token[i]
      /\ token'[Len(token) + 1] = Fresh(f)
  BY <1>1, <1>2, AppendProperties
<1>4. DOMAIN token' = 1..(Len(token) + 1)
  BY <1>3, LenProperties
<1> QED
  BY <1>1, <1>2, <1>3, <1>4 DEF Live

-----------------------------------------------------------------------------
Calls == [at : Places, access : {NoAccess} \cup Nat, expired : BOOLEAN, boot : BOOLEAN,
          revoked : BOOLEAN, sent : Nat, got : Nat, seen : Nat]

(* The part of TypeOK that is about one app, over a list of tokens. *)
Fits(c, list) ==
    /\ c \in Calls /\ c.sent \in {0} \cup DOMAIN list
    /\ c.at \in Exchange => c.sent \in DOMAIN list
    /\ c.at \in {"user", "granted"} => c.got \in DOMAIN list
    /\ c.at \in {"mint", "user", "granted"} => ~ ~list[c.sent].revoked

(* The server only adds tokens and revokes them. *)
Grows ==
    /\ token' \in Seq(Record) /\ DOMAIN token \subseteq DOMAIN token'
    /\ \A i \in DOMAIN token' : token'[i].family \in DOMAIN token'
    /\ \A i \in DOMAIN token : ~token'[i].revoked => Live(i)

(* The sets and the jars keep their types. *)
Kept ==
    /\ version' \in Nat
    /\ jar' \in [Jars -> Nat] /\ \A j \in Jars : jar'[j] \in {0} \cup DOMAIN token'
    /\ cached' \subseteq Jars /\ unsynced' \subseteq Jars
    /\ hurt' \subseteq Jars /\ cut' \subseteq Jars /\ dropped' \subseteq Jars

(* The jar of an app is a jar, and its call fits. *)
LEMMA AppType ==
    ASSUME TypeOK, NEW t \in Tabs
    PROVE  JarOf[t] \in Jars /\ Fits(tab[t], token)
PROOF
  BY JarAssumption DEF TypeOK, Fits, Calls, Spending, Live

(* A step that changes one app keeps the types if what it writes has them. *)
LEMMA TypeOfStep ==
    ASSUME TypeOK, Grows, Kept, NEW t \in Tabs, NEW c,
           tab' = [tab EXCEPT ![t] = c], Fits(c, token')
    PROVE  TypeOK'
PROOF
<1>1. ASSUME NEW p \in Tabs PROVE Fits(tab'[p], token')
  <2>1. CASE p = t
    <3>1. tab'[p] = c
      BY <2>1 DEF TypeOK
    <3> QED
      BY <3>1 DEF Fits, Live
  <2>2. CASE p # t
    <3>1. tab'[p] = tab[p] /\ Fits(tab[p], token)
      BY <2>2, AppType DEF TypeOK
    <3> QED
      BY <3>1 DEF Fits, Grows, Live, Exchange
  <2> QED
    BY <2>1, <2>2
<1>2. tab' \in [Tabs -> Calls]
  <2>1. DOMAIN tab' = Tabs /\ tab' = [p \in Tabs |-> tab'[p]]
    BY DEF TypeOK
  <2> QED
    BY <1>1, <2>1 DEF Fits
<1>3. \A p \in Tabs :
         /\ tab'[p].sent \in {0} \cup DOMAIN token'
         /\ tab'[p].at \in Exchange => tab'[p].sent \in DOMAIN token'
         /\ tab'[p].at \in {"user", "granted"} => tab'[p].got \in DOMAIN token'
         /\ Spending(p)' => ~Live(tab[p].sent)'
  BY <1>1 DEF Fits, Spending, Live
<1> QED
  BY <1>2, <1>3 DEF TypeOK, Grows, Kept, Calls, Record

(* Steps that leave the tokens alone, or only revoke some. *)
LEMMA StillGrows ==
    ASSUME TypeOK, UNCHANGED token \/ (\E s : token' = Revoked(s))
    PROVE  Grows /\ DOMAIN token' = DOMAIN token
PROOF
<1>1. CASE UNCHANGED token
  BY <1>1 DEF TypeOK, Grows, Live, Record
<1>2. ASSUME NEW s, token' = Revoked(s) PROVE Grows /\ DOMAIN token' = DOMAIN token
  <2>1. /\ token' \in Seq(Record) /\ DOMAIN token' = DOMAIN token
        /\ \A i \in DOMAIN token :
              /\ token'[i].family = token[i].family
              /\ ~token'[i].revoked <=> Live(i) /\ i \notin s
    BY <1>2, RevokedProperties
  <2>2. \A i \in DOMAIN token : token[i].family \in DOMAIN token
    BY DEF TypeOK
  <2>3. \A i \in DOMAIN token : ~token'[i].revoked => Live(i)
    BY <2>1
  <2> QED
    BY <2>1, <2>2, <2>3 DEF Grows
<1> QED
  BY <1>1, <1>2

(* A token is added. *)
LEMMA AddedGrows ==
    ASSUME TypeOK, NEW f \in 1..(Len(token) + 1), token' = Append(token, Fresh(f))
    PROVE  Grows
PROOF
<1>1. /\ token' \in Seq(Record)
      /\ Len(token) \in Nat /\ DOMAIN token = 1..Len(token)
      /\ DOMAIN token' = 1..(Len(token) + 1)
      /\ \A i \in DOMAIN token :
            token'[i].family = token[i].family /\ (~token'[i].revoked <=> Live(i))
      /\ token'[Len(token) + 1].family = f
  BY AppendedProperties, TokenList
<1>2. \A i \in DOMAIN token : token[i].family \in DOMAIN token
  BY DEF TypeOK
<1>3. ASSUME NEW i \in DOMAIN token' PROVE token'[i].family \in DOMAIN token'
  <2>1. i \in DOMAIN token \/ i = Len(token) + 1
    BY <1>1
  <2> QED
    BY <1>1, <1>2, <2>1
<1> QED
  BY <1>1, <1>3 DEF Grows

(* Steps of one app that add no token. *)
LEMMA QuietType ==
    ASSUME TypeOK, NEW t \in Tabs, NEW c, Kept,
           UNCHANGED token \/ (\E s : token' = Revoked(s)),
           tab' = [tab EXCEPT ![t] = c], Fits(c, token')
    PROVE  TypeOK'
PROOF
  BY StillGrows, TypeOfStep

(* A call that stays where it is, or leaves the exchange, fits as before. *)
LEMMA FitsOn ==
    ASSUME TypeOK, NEW t \in Tabs, Grows, NEW c \in Calls,
           c.sent = tab[t].sent \/ c.sent = 0, c.at \notin Exchange
    PROVE  Fits(c, token')
PROOF
  BY AppType DEF Fits, Grows, Exchange

(* Steps that leave the exchange: every type is kept. *)
LEMMA LeavingType ==
    ASSUME TypeOK, NEW t \in Tabs, NEW c \in Calls, Kept,
           UNCHANGED token \/ (\E s : token' = Revoked(s)),
           tab' = [tab EXCEPT ![t] = c],
           c.sent = tab[t].sent \/ c.sent = 0, c.at \notin Exchange
    PROVE  TypeOK'
PROOF
  BY StillGrows, FitsOn, QuietType

(* Nothing but the call of an app is touched. *)
LEMMA KeptSame ==
    ASSUME TypeOK, UNCHANGED <<version, jar, local, history>>,
           DOMAIN token \subseteq DOMAIN token'
    PROVE  Kept
PROOF
  BY DEF TypeOK, Kept, local, history

(* Steps of the user and of the app at rest keep the types. *)
LEMMA TypeApp ==
    ASSUME TypeOK, NEW t \in Tabs,
           \/ AccessExpires(t) \/ Work(t) \/ Sync(t) \/ Call(t) \/ Open(t)
           \/ LogoutAll(t) \/ RaiseVersion(t)
    PROVE  TypeOK'
PROOF
<1> USE AppType DEF server
<1>0. tab[t] \in Calls /\ DOMAIN tab = Tabs
  BY DEF Fits, TypeOK
<1>1. CASE AccessExpires(t)
  <2>1. [tab[t] EXCEPT !.expired = TRUE] \in Calls /\ UNCHANGED token /\ Kept
    BY <1>0, <1>1, KeptSame DEF AccessExpires, Calls
  <2>2. tab' = [tab EXCEPT ![t] = [tab[t] EXCEPT !.expired = TRUE]]
    BY <1>1 DEF AccessExpires
  <2>3. tab[t].at \notin Exchange
    BY <1>1 DEF AccessExpires, Exchange
  <2> QED
    BY <1>0, <2>1, <2>2, <2>3, LeavingType DEF Calls
<1>2. CASE Work(t)
  BY <1>2, <1>0 DEF Work, TypeOK, history, Live, Spending
<1>3. CASE Sync(t)
  BY <1>3, <1>0 DEF Sync, TypeOK, history, Live, Spending
<1>4. ASSUME NEW from \in Calls, StartRefresh(t, from) PROVE TypeOK'
  <2>1. jar[JarOf[t]] \in {0} \cup DOMAIN token /\ jar[JarOf[t]] \in Nat
    BY DEF TypeOK
  <2> DEFINE c == [from EXCEPT !.at = "find", !.sent = jar[JarOf[t]]]
  <2>2. c \in Calls /\ c.at = "find" /\ c.sent = jar[JarOf[t]]
    BY <2>1 DEF Calls, Places
  <2>3. Fits(c, token)
    BY <2>1, <2>2 DEF Fits, Exchange
  <2>4. UNCHANGED token /\ Kept
    BY <1>4 DEF StartRefresh, Kept, TypeOK, local
  <2>5. tab' = [tab EXCEPT ![t] = c]
    BY <1>4 DEF StartRefresh
  <2> QED
    BY <2>3, <2>4, <2>5, QuietType
<1>5. CASE Call(t)
  <2>1. [tab[t] EXCEPT !.revoked = ~tab[t].expired] \in Calls
    BY <1>0 DEF Calls
  <2> QED
    BY <1>4, <1>5, <2>1 DEF Call
<1>6. CASE Open(t)
  <2>1. [Out EXCEPT !.boot = TRUE] \in Calls
    BY DEF Out, Calls, Places, NoAccess
  <2> QED
    BY <1>4, <1>6, <2>1 DEF Open
<1>7. CASE LogoutAll(t)
  <2>1. [tab[t] EXCEPT !.at = "raise", !.seen = version] \in Calls
    BY <1>0 DEF Calls, Places, TypeOK
  <2>2. tab' = [tab EXCEPT ![t] = [tab[t] EXCEPT !.at = "raise", !.seen = version]]
    BY <1>7 DEF LogoutAll
  <2>3. UNCHANGED token /\ Kept
    BY <1>7, KeptSame DEF LogoutAll
  <2> QED
    BY <1>0, <2>1, <2>2, <2>3, LeavingType DEF Calls, Exchange
<1>8. CASE RaiseVersion(t)
  <2>1. [tab[t] EXCEPT !.at = "sweep"] \in Calls
    BY <1>0 DEF Calls, Places
  <2>2. tab' = [tab EXCEPT ![t] = [tab[t] EXCEPT !.at = "sweep"]]
    BY <1>8 DEF RaiseVersion, Go
  <2>3. UNCHANGED token /\ Kept
    BY <1>0, <1>8 DEF RaiseVersion, Kept, TypeOK, local, history, Calls
  <2> QED
    BY <1>0, <2>1, <2>2, <2>3, LeavingType DEF Calls, Exchange
<1> QED
  BY <1>1, <1>2, <1>3, <1>5, <1>6, <1>7, <1>8

(* An app that signs out, with what it keeps. *)
LEMMA TypeOut ==
    ASSUME TypeOK, NEW t \in Tabs,
           UNCHANGED token \/ (\E s : token' = Revoked(s)),
           tab' = [tab EXCEPT ![t] = Out] \/ tab' = [tab EXCEPT ![t] = In(NoAccess)],
           UNCHANGED jar \/ jar' = [jar EXCEPT ![JarOf[t]] = 0],
           UNCHANGED version, cached' \subseteq cached, unsynced' \subseteq unsynced,
           hurt' \subseteq Jars, cut' \subseteq Jars, dropped' \subseteq Jars
    PROVE  TypeOK'
PROOF
<1>1. /\ Out \in Calls /\ Out.at \notin Exchange /\ Out.sent = 0
      /\ In(NoAccess) \in Calls /\ In(NoAccess).at \notin Exchange /\ In(NoAccess).sent = 0
  BY DEF Out, In, Calls, Places, NoAccess, Exchange
<1>2. DOMAIN token' = DOMAIN token /\ JarOf[t] \in Jars
  BY StillGrows, AppType
<1>3. jar' \in [Jars -> Nat] /\ \A j \in Jars : jar'[j] = jar[j] \/ jar'[j] = 0
  <2>1. jar \in [Jars -> Nat]
    BY DEF TypeOK
  <2>2. CASE UNCHANGED jar
    BY <2>1, <2>2
  <2>3. CASE jar' = [jar EXCEPT ![JarOf[t]] = 0]
    BY <1>2, <2>1, <2>3
  <2> QED
    BY <2>2, <2>3
<1>4. Kept
  BY <1>2, <1>3 DEF TypeOK, Kept
<1> QED
  BY <1>1, <1>4, LeavingType

(* The ways to sign out keep the types. *)
LEMMA TypeSignOut ==
    ASSUME TypeOK, NEW t \in Tabs,
           \/ Refused(t) \/ NoAnswer(t) \/ Reload(t) \/ CallBare(t)
           \/ Logout(t) \/ RevokeAll(t) \/ LogoutAllLost(t)
    PROVE  TypeOK'
PROOF
<1>1. JarOf[t] \in Jars /\ \A s : Holding(s) \subseteq Jars /\ Carrying(s) \subseteq Jars
  BY AppType DEF Holding, Carrying
<1>2. /\ cached \subseteq Jars /\ unsynced \subseteq Jars
      /\ hurt \subseteq Jars /\ cut \subseteq Jars /\ dropped \subseteq Jars
      /\ \A v : [jar EXCEPT ![JarOf[t]] = IF JarOf[t] \in Keychains THEN 0 ELSE @]
                \in {jar, [jar EXCEPT ![JarOf[t]] = 0]}
  BY <1>1 DEF TypeOK
<1>3. ASSUME NEW offered, SignOut(t, offered), UNCHANGED <<server, hurt>>, cut' \subseteq Jars
      PROVE  TypeOK'
  BY <1>1, <1>2, <1>3, TypeOut DEF SignOut, server
<1>4. CASE Refused(t)
  BY <1>2, <1>3, <1>4 DEF Refused
<1>5. CASE CallBare(t)
  BY <1>2, <1>3, <1>5 DEF CallBare
<1>6. CASE NoAnswer(t)
  <2>1. hurt' \subseteq Jars /\ cut' \subseteq Jars /\ UNCHANGED server
    BY <1>1, <1>2, <1>6 DEF NoAnswer
  <2>2. CASE tab[t].boot
    BY <1>1, <1>2, <1>6, <2>1, <2>2, TypeOut DEF NoAnswer, server
  <2>3. CASE ~tab[t].boot
    BY <1>1, <1>2, <1>6, <2>1, <2>3, TypeOut DEF NoAnswer, SignOut, server
  <2> QED
    BY <2>2, <2>3
<1>7. CASE Reload(t)
  BY <1>1, <1>2, <1>7, TypeOut DEF Reload, server, local
<1>8. CASE Logout(t)
  BY <1>1, <1>2, <1>8, TypeOut DEF Logout
<1>9. CASE RevokeAll(t)
  BY <1>1, <1>2, <1>9, TypeOut DEF RevokeAll
<1>10. CASE LogoutAllLost(t)
  BY <1>1, <1>2, <1>10, TypeOut DEF LogoutAllLost, server, history
<1> QED
  BY <1>4, <1>5, <1>6, <1>7, <1>8, <1>9, <1>10

(* The steps of the server keep the types. *)
LEMMA TypeRotate ==
    ASSUME TypeOK, NEW t \in Tabs, Rotate(t)
    PROVE  TypeOK'
PROOF
<1>0. tab[t] \in Calls /\ Fits(tab[t], token)
  BY AppType DEF Fits
<1>1. CASE Find(t)
  <2>1. PICK label \in {"refused", "reuse", "claim"} :
           /\ tab' = [tab EXCEPT ![t] = [tab[t] EXCEPT !.at = label]]
           /\ tab[t].sent = 0 => label = "refused"
    BY <1>1 DEF Find, Go
  <2>2. UNCHANGED token /\ Kept
    BY <1>1, KeptSame DEF Find, server
  <2>3. Fits([tab[t] EXCEPT !.at = label], token)
    BY <1>0, <2>1 DEF Fits, Calls, Places, Exchange
  <2> QED
    BY <2>1, <2>2, <2>3, QuietType
<1>2. CASE Claim(t)
  <2>1. tab[t].sent \in DOMAIN token
    BY <1>0, <1>2 DEF Fits, Claim, Exchange
  <2>2. CASE Live(tab[t].sent)
    <3>1. /\ token' = Revoked({tab[t].sent})
          /\ tab' = [tab EXCEPT ![t] = [tab[t] EXCEPT !.at = "mint"]]
      BY <1>2, <2>2 DEF Claim, Go
    <3>2. DOMAIN token' = DOMAIN token /\ ~ ~token'[tab[t].sent].revoked
      BY <2>1, <3>1, RevokedProperties
    <3>3. Fits([tab[t] EXCEPT !.at = "mint"], token')
      BY <1>0, <2>1, <3>2 DEF Fits, Calls, Places, Exchange
    <3>4. Kept
      BY <1>2, <3>2, KeptSame DEF Claim
    <3> QED
      BY <3>1, <3>3, <3>4, QuietType
  <2>3. CASE ~Live(tab[t].sent)
    <3>1. /\ UNCHANGED token
          /\ tab' = [tab EXCEPT ![t] = [tab[t] EXCEPT !.at = "reuse"]]
      BY <1>2, <2>3 DEF Claim, Go
    <3>2. Fits([tab[t] EXCEPT !.at = "reuse"], token)
      BY <1>0, <2>1 DEF Fits, Calls, Places, Exchange
    <3>3. Kept
      BY <1>2, <3>1, KeptSame DEF Claim
    <3> QED
      BY <3>1, <3>2, <3>3, QuietType
  <2> QED
    BY <2>2, <2>3
<1>3. CASE Mint(t)
  <2>1. /\ tab[t].sent \in DOMAIN token /\ ~ ~token[tab[t].sent].revoked
        /\ Len(token) \in Nat /\ DOMAIN token = 1..Len(token)
    BY <1>0, <1>3, TokenList DEF Fits, Mint, Exchange
  <2>2. token[tab[t].sent].family \in 1..(Len(token) + 1)
    BY <2>1 DEF TypeOK
  <2>3. token' = Append(token, Fresh(token[tab[t].sent].family))
    BY <1>3 DEF Mint
  <2>4. /\ DOMAIN token' = 1..(Len(token) + 1)
        /\ \A i \in DOMAIN token : ~token'[i].revoked <=> Live(i)
    BY <2>2, <2>3, AppendedProperties
  <2>5. Grows
    BY <2>2, <2>3, AddedGrows
  <2>6. tab' = [tab EXCEPT ![t] = [tab[t] EXCEPT !.at = "user", !.got = Len(token) + 1]]
    BY <1>3 DEF Mint
  <2> DEFINE c == [tab[t] EXCEPT !.at = "user", !.got = Len(token) + 1]
  <2>7d. Len(token) + 1 \in Nat /\ "user" \in Places
    BY <2>1 DEF Places, Exchange
  <2>7e. c \in Calls
    BY <1>0, <2>7d DEF Calls
  <2>7a. c \in Calls /\ c.at = "user" /\ c.got = Len(token) + 1 /\ c.sent = tab[t].sent
    BY <1>0, <2>7e DEF Calls
  <2>7b. ~ ~token'[tab[t].sent].revoked
    BY <2>1, <2>4 DEF Live
  <2> HIDE DEF c
  <2>7c. Fits(c, token')
    BY <2>1, <2>4, <2>7a, <2>7b DEF Fits
  <2>7. Fits([tab[t] EXCEPT !.at = "user", !.got = Len(token) + 1], token')
    BY <2>7c DEF c
  <2>8. Kept
    BY <1>3, <2>5, KeptSame DEF Mint, Grows
  <2> QED
    BY <2>5, <2>6, <2>7, <2>8, TypeOfStep
<1>4. CASE LoadUser(t)
  <2>1. tab' = [tab EXCEPT ![t] = [tab[t] EXCEPT !.at = "granted", !.seen = version]]
    BY <1>4 DEF LoadUser
  <2>2. UNCHANGED token /\ Kept
    BY <1>4, KeptSame DEF LoadUser, server
  <2>3. Fits([tab[t] EXCEPT !.at = "granted", !.seen = version], token)
    BY <1>0, <1>4 DEF Fits, Calls, Places, Exchange, TypeOK, LoadUser
  <2> QED
    BY <2>1, <2>2, <2>3, QuietType
<1>5. CASE RevokeFamily(t)
  <2>1. /\ tab' = [tab EXCEPT ![t] = [tab[t] EXCEPT !.at = "bump"]]
        /\ token' = Revoked(Family(tab[t].sent))
    BY <1>5 DEF RevokeFamily, Go
  <2>2. DOMAIN token' = DOMAIN token
    BY <2>1, StillGrows
  <2>3. Kept
    BY <1>5, <2>2 DEF RevokeFamily, Kept, TypeOK, local, Holding
  <2>4. Fits([tab[t] EXCEPT !.at = "bump"], token')
    BY <1>0, <1>5, <2>2 DEF Fits, Calls, Places, Exchange, RevokeFamily
  <2> QED
    BY <2>1, <2>3, <2>4, QuietType
<1>6. CASE Bump(t)
  <2>1. tab' = [tab EXCEPT ![t] = [tab[t] EXCEPT !.at = "refused"]] /\ UNCHANGED token
    BY <1>6 DEF Bump, Go
  <2>2. Kept
    BY <1>6 DEF Bump, Kept, TypeOK, local, history
  <2>3. [tab[t] EXCEPT !.at = "refused"] \in Calls
    BY <1>0 DEF Calls, Places
  <2> QED
    BY <1>0, <2>1, <2>2, <2>3, LeavingType DEF Calls, Exchange
<1> QED
  BY <1>1, <1>2, <1>3, <1>4, <1>5, <1>6 DEF Rotate

(* A sign-in and the end of an exchange keep the types. *)
LEMMA TypeIn ==
    ASSUME TypeOK, NEW t \in Tabs, Login(t) \/ Granted(t)
    PROVE  TypeOK'
PROOF
<1>0. Fits(tab[t], token) /\ JarOf[t] \in Jars
  BY AppType
<1>1. \A v \in Nat : In(v) \in Calls /\ In(v).at \notin Exchange /\ In(v).sent = 0
  BY DEF In, Out, Calls, Places, NoAccess, Exchange
<1>2. CASE Login(t)
  <2>1. /\ token' = Append(token, Fresh(Len(token) + 1))
        /\ Len(token) + 1 \in 1..(Len(token) + 1) /\ DOMAIN token = 1..Len(token)
    BY <1>2, TokenList DEF Login
  <2>2. Grows /\ DOMAIN token' = 1..(Len(token) + 1)
    BY <2>1, AddedGrows, AppendedProperties
  <2>3. Kept
    BY <1>0, <1>2, <2>1, <2>2 DEF Login, Kept, TypeOK
  <2>4. Fits(In(version), token')
    BY <1>1 DEF Fits, TypeOK, Exchange
  <2> QED
    BY <1>2, <2>2, <2>3, <2>4, TypeOfStep DEF Login
<1>3. CASE Granted(t)
  <2>1. /\ UNCHANGED token /\ tab[t].seen \in Nat /\ tab[t].got \in DOMAIN token
        /\ tab' = [tab EXCEPT ![t] = In(tab[t].seen)]
    BY <1>0, <1>3 DEF Granted, Fits, Calls, server
  <2>2. Kept
    BY <1>0, <1>3, <2>1, TokenList DEF Granted, Kept, TypeOK, server
  <2> QED
    BY <1>1, <2>1, <2>2, LeavingType
<1> QED
  BY <1>2, <1>3

(* The types are an invariant. *)
LEMMA TypeStep ==
    ASSUME TypeOK, [Next]_vars
    PROVE  TypeOK'
PROOF
<1>1. CASE UNCHANGED vars
  BY <1>1 DEF vars, server, local, history, TypeOK, Live, Spending
<1>2. ASSUME NEW t \in Tabs, Rotate(t) \/ App(t) \/ SignOuts(t) PROVE TypeOK'
  BY <1>2, TypeApp, TypeSignOut, TypeRotate, TypeIn DEF App, SignOuts
<1>3. ASSUME NEW i \in DOMAIN token, TokenExpires(i) PROVE TypeOK'
  <2>1. /\ token \in Seq(Record) /\ DOMAIN token = 1..Len(token)
        /\ [token[i] EXCEPT !.expired = TRUE] \in Record
    BY TokenList DEF Record
  <2>2. token' = [token EXCEPT ![i] = [token[i] EXCEPT !.expired = TRUE]]
    BY <1>3 DEF TokenExpires
  <2>3. token' \in Seq(Record) /\ DOMAIN token' = DOMAIN token
    BY <2>1, <2>2, ExceptSeq
  <2>4. \A k \in DOMAIN token :
           token'[k].family = token[k].family /\ token'[k].revoked = token[k].revoked
    BY <2>1, <2>2, TokenList DEF Record
  <2> QED
    BY <1>3, <2>3, <2>4 DEF TokenExpires, TypeOK, local, history, Live, Spending, Record, Exchange
<1> QED
  BY <1>1, <1>2, <1>3 DEF Next
-----------------------------------------------------------------------------
(* A quiet step: no token is made or claimed. *)
Quiet ==
    /\ DOMAIN token' = DOMAIN token /\ Len(token') = Len(token)
    /\ \A i \in DOMAIN token :
          token'[i].family = token[i].family /\ (~token'[i].revoked => Live(i))
    /\ \A p \in Tabs : tab'[p].at = "mint" =>
          tab[p].at = "mint" /\ tab'[p].sent = tab[p].sent

(* A step that changes one app, which is not about to mint, is quiet. *)
LEMMA QuietStep ==
    ASSUME TypeOK, NEW t \in Tabs, NEW c, c.at # "mint",
           UNCHANGED token \/ (\E s : token' = Revoked(s)),
           tab' = [tab EXCEPT ![t] = c]
    PROVE  Quiet
PROOF
<1>1. \A p \in Tabs : tab'[p] = IF p = t THEN c ELSE tab[p]
  BY DEF TypeOK
<1>2. /\ DOMAIN token' = DOMAIN token /\ Len(token') = Len(token)
      /\ \A i \in DOMAIN token :
            token'[i].family = token[i].family /\ (~token'[i].revoked => Live(i))
  BY RevokedProperties DEF Live
<1> QED
  BY <1>1, <1>2 DEF Quiet

(* Most steps are quiet: all but Login, Claim and Mint. *)
LEMMA QuietSteps ==
    ASSUME TypeOK, NEW t \in Tabs,
           \/ AccessExpires(t) \/ Work(t) \/ Sync(t) \/ Call(t) \/ Open(t) \/ Granted(t)
           \/ Refused(t) \/ NoAnswer(t) \/ Reload(t) \/ CallBare(t) \/ SignOuts(t)
           \/ Find(t) \/ LoadUser(t) \/ RevokeFamily(t) \/ Bump(t)
    PROVE  Quiet
PROOF
<1> USE DEF server
<1>0. /\ tab[t] \in Calls
      /\ Out.at # "mint" /\ \A v : In(v).at # "mint"
  BY AppType DEF Fits, Out, In
<1>1. CASE Work(t) \/ Sync(t)
  BY <1>1 DEF Work, Sync, Quiet, Live
<1>2. CASE AccessExpires(t)
  <2>1. [tab[t] EXCEPT !.expired = TRUE].at # "mint"
    BY <1>0, <1>2 DEF AccessExpires, Calls
  <2>2. tab' = [tab EXCEPT ![t] = [tab[t] EXCEPT !.expired = TRUE]] /\ UNCHANGED token
    BY <1>2 DEF AccessExpires
  <2> QED
    BY <2>1, <2>2, QuietStep
<1>3. ASSUME NEW from \in Calls, StartRefresh(t, from) PROVE Quiet
  <2> DEFINE c == [from EXCEPT !.at = "find", !.sent = jar[JarOf[t]]]
  <2>1. c.at # "mint"
    BY DEF Calls
  <2>2. tab' = [tab EXCEPT ![t] = c] /\ UNCHANGED token
    BY <1>3 DEF StartRefresh
  <2> HIDE DEF c
  <2> QED
    BY <2>1, <2>2, QuietStep
<1>4. CASE Call(t)
  <2>1. [tab[t] EXCEPT !.revoked = ~tab[t].expired] \in Calls
    BY <1>0 DEF Calls
  <2> QED
    BY <1>3, <1>4, <2>1 DEF Call
<1>5. CASE Open(t)
  <2>1. [Out EXCEPT !.boot = TRUE] \in Calls
    BY DEF Out, Calls, Places, NoAccess
  <2> QED
    BY <1>3, <1>5, <2>1 DEF Open
<1>6. CASE Granted(t)
  BY <1>0, <1>6, QuietStep DEF Granted
<1>7. CASE Refused(t) \/ CallBare(t)
  BY <1>0, <1>7, QuietStep DEF Refused, CallBare, SignOut
<1>8. CASE NoAnswer(t)
  BY <1>0, <1>8, QuietStep DEF NoAnswer, SignOut
<1>9. CASE Reload(t)
  BY <1>0, <1>9, QuietStep DEF Reload
<1>10. CASE Logout(t) \/ RevokeAll(t) \/ LogoutAllLost(t)
  BY <1>0, <1>10, QuietStep DEF Logout, RevokeAll, LogoutAllLost
<1>11. ASSUME NEW label, label # "mint", Go(t, label),
              UNCHANGED token \/ (\E s : token' = Revoked(s))
       PROVE  Quiet
  <2>1. [tab[t] EXCEPT !.at = label].at # "mint"
    BY <1>0, <1>11 DEF Calls
  <2> QED
    BY <1>11, <2>1, QuietStep DEF Go
<1>12. CASE Find(t)
  BY <1>11, <1>12 DEF Find
<1>13. CASE RevokeFamily(t) \/ Bump(t) \/ RaiseVersion(t)
  BY <1>11, <1>13 DEF RevokeFamily, Bump, RaiseVersion
<1>14. CASE LogoutAll(t)
  <2>1. /\ tab' = [tab EXCEPT ![t] = [tab[t] EXCEPT !.at = "raise", !.seen = version]]
        /\ UNCHANGED token
    BY <1>14 DEF LogoutAll
  <2>2. [tab[t] EXCEPT !.at = "raise", !.seen = version].at # "mint"
    BY <1>0 DEF Calls
  <2> QED
    BY <2>1, <2>2, QuietStep
<1>15. CASE LoadUser(t)
  <2>1. /\ tab' = [tab EXCEPT ![t] = [tab[t] EXCEPT !.at = "granted", !.seen = version]]
        /\ UNCHANGED token
    BY <1>15 DEF LoadUser
  <2>2. [tab[t] EXCEPT !.at = "granted", !.seen = version].at # "mint"
    BY <1>0 DEF Calls
  <2> QED
    BY <2>1, <2>2, QuietStep
<1> QED
  BY <1>1, <1>2, <1>4, <1>5, <1>6, <1>7, <1>8, <1>9, <1>10, <1>12, <1>13, <1>14, <1>15
  DEF SignOuts

(* The seven days of a token pass. *)
LEMMA QuietExpiry ==
    ASSUME TypeOK, NEW i \in DOMAIN token, TokenExpires(i)
    PROVE  Quiet
PROOF
<1>1. /\ token \in Seq(Record) /\ DOMAIN token = 1..Len(token)
      /\ [token[i] EXCEPT !.expired = TRUE] \in Record
  BY TokenList DEF Record
<1>2. token' = [token EXCEPT ![i] = [token[i] EXCEPT !.expired = TRUE]] /\ UNCHANGED tab
  BY DEF TokenExpires
<1>3. Len(token') = Len(token) /\ DOMAIN token' = DOMAIN token
  BY <1>1, <1>2, ExceptSeq
<1>4. \A k \in DOMAIN token :
         token'[k].family = token[k].family /\ token'[k].revoked = token[k].revoked
  BY <1>1, <1>2, TokenList DEF Record
<1> QED
  BY <1>2, <1>3, <1>4 DEF Quiet, Live

(* A quiet step leaves each family its one token, or takes it away. *)
LEMMA QuietKeepsOne ==
    ASSUME Inv, Quiet
    PROVE  OneLivePerFamily' /\ Families!Drop
PROOF
<1>1. \A p \in Tabs : tab[p].at = "mint" => tab[p].sent \in DOMAIN token
  BY DEF Inv, TypeOK, Exchange
<1>2. \A i, k \in DOMAIN token' :
         ~token'[i].revoked /\ ~token'[k].revoked /\ token'[i].family = token'[k].family => i = k
  BY DEF Quiet, Inv, OneLivePerFamily
<1>3. ASSUME NEW p \in Tabs, tab'[p].at = "mint"
      PROVE  /\ \A i \in DOMAIN token' :
                    token'[i].family = token'[tab'[p].sent].family => ~ ~token'[i].revoked
             /\ \A q \in Tabs \ {p} : tab'[q].at = "mint" =>
                    token'[tab'[q].sent].family # token'[tab'[p].sent].family
  BY <1>1, <1>3 DEF Quiet, Inv, OneLivePerFamily, Family
<1>4. OneLivePerFamily'
  BY <1>2, <1>3 DEF OneLivePerFamily, Live, Family
<1>5. Good' \subseteq Good
  BY DEF Good, Quiet, Live
<1>6. Passing' \subseteq Passing
  BY <1>1 DEF Passing, Quiet
<1> QED
  BY <1>4, <1>5, <1>6 DEF Families!Drop, Quiet

(* A sign-in begins a family that no other token belongs to. *)
LEMMA LoginKeepsOne ==
    ASSUME Inv, NEW t \in Tabs, Login(t)
    PROVE  OneLivePerFamily' /\ Families!Begin
PROOF
<1> DEFINE n == Len(token) + 1
<1>1. /\ TypeOK /\ OneLivePerFamily /\ token' = Append(token, Fresh(n))
      /\ DOMAIN token = 1..Len(token) /\ Len(token) \in Nat /\ n \in 1..n
  BY TokenList DEF Inv, Login
<1>2. /\ Len(token') = n /\ DOMAIN token' = DOMAIN token \cup {n} /\ n \notin DOMAIN token
      /\ \A i \in DOMAIN token :
            token'[i].family = token[i].family /\ (~token'[i].revoked <=> Live(i))
      /\ token'[n].family = n /\ ~token'[n].revoked
  <2>1. DOMAIN token' = 1..n
    BY <1>1, AppendedProperties
  <2> QED
    BY <1>1, <2>1, AppendedProperties
<1>3. /\ \A i \in DOMAIN token : token[i].family \in DOMAIN token
      /\ \A p \in Tabs : tab[p].at = "mint" => tab[p].sent \in DOMAIN token
  BY <1>1 DEF TypeOK, Exchange
<1>4. \A p \in Tabs : tab'[p].at = "mint" => tab'[p] = tab[p]
  BY <1>1 DEF Login, TypeOK, In, Out
<1>4a. \A p \in Tabs : tab[p].at = "mint" => tab'[p] = tab[p]
  BY <1>1 DEF Login, TypeOK
<1> HIDE DEF n
<1>5. \A i, k \in DOMAIN token' :
         ~token'[i].revoked /\ ~token'[k].revoked /\ token'[i].family = token'[k].family => i = k
  BY <1>1, <1>2, <1>3 DEF OneLivePerFamily
<1>6. ASSUME NEW p \in Tabs, tab'[p].at = "mint"
      PROVE  /\ \A i \in DOMAIN token' :
                    token'[i].family = token'[tab'[p].sent].family => ~ ~token'[i].revoked
             /\ \A q \in Tabs \ {p} : tab'[q].at = "mint" =>
                    token'[tab'[q].sent].family # token'[tab'[p].sent].family
  BY <1>1, <1>2, <1>3, <1>4, <1>6 DEF OneLivePerFamily, Family
<1>7. OneLivePerFamily'
  BY <1>5, <1>6 DEF OneLivePerFamily, Live, Family
<1>8. Good' = Good \cup {<<n, n>>}
  BY <1>2 DEF Good, Live
<1>9. Passing' = Passing
  BY <1>2, <1>3, <1>4, <1>4a DEF Passing
<1> QED
  BY <1>2, <1>7, <1>8, <1>9 DEF Families!Begin, n

(* Only one claim of a token succeeds, and it was the last of its family. *)
LEMMA ClaimKeepsOne ==
    ASSUME Inv, NEW t \in Tabs, Claim(t), Live(tab[t].sent)
    PROVE  OneLivePerFamily' /\ \E pair \in Good : Families!Take(pair)
PROOF
<1> DEFINE n == tab[t].sent
<1> DEFINE f == token[n].family
<1>1. /\ TypeOK /\ OneLivePerFamily /\ token' = Revoked({n}) /\ n \in DOMAIN token
      /\ tab' = [tab EXCEPT ![t] = [tab[t] EXCEPT !.at = "mint"]]
  BY DEF Inv, Claim, Go, TypeOK, Exchange
<1>2. /\ DOMAIN token' = DOMAIN token /\ Len(token') = Len(token)
      /\ \A i \in DOMAIN token :
            token'[i].family = token[i].family /\ (~token'[i].revoked <=> Live(i) /\ i # n)
  BY <1>1, RevokedProperties
<1>3. /\ \A p \in Tabs : tab[p].at = "mint" => tab[p].sent \in DOMAIN token
      /\ \A p \in Tabs \ {t} : tab'[p] = tab[p]
      /\ tab'[t].at = "mint" /\ tab'[t].sent = n
      /\ tab[t].at # "mint"
  BY <1>1 DEF TypeOK, Exchange, Claim
<1>4. \A i \in DOMAIN token : token[i].family = f /\ Live(i) => i = n
  BY <1>1 DEF OneLivePerFamily
<1>5. \A p \in Tabs : tab[p].at = "mint" => token[tab[p].sent].family # f
  BY <1>1, <1>3 DEF OneLivePerFamily, Family
<1>4b. \A i \in DOMAIN token : Live(i) /\ i # n => token[i].family # f
  BY <1>4
<1>4a. \A i, k \in DOMAIN token :
         Live(i) /\ Live(k) /\ token[i].family = token[k].family => i = k
  BY <1>1 DEF OneLivePerFamily
<1> HIDE DEF n, f
<1>2a. /\ DOMAIN token' = DOMAIN token
       /\ \A i \in DOMAIN token : token'[i].family = token[i].family
       /\ \A i \in DOMAIN token : ~token'[i].revoked => Live(i) /\ i # n
       /\ \A i \in DOMAIN token : Live(i) /\ i # n => ~token'[i].revoked
  BY <1>2
<1>5a. f = token[n].family /\ n \in DOMAIN token /\ Live(n)
  BY <1>1 DEF f, n
<1>6. \A i, k \in DOMAIN token' :
         ~token'[i].revoked /\ ~token'[k].revoked /\ token'[i].family = token'[k].family => i = k
  BY <1>2a, <1>4a
<1>7. ASSUME NEW p \in Tabs, tab'[p].at = "mint"
      PROVE  /\ \A i \in DOMAIN token' :
                    token'[i].family = token'[tab'[p].sent].family => ~ ~token'[i].revoked
             /\ \A q \in Tabs \ {p} : tab'[q].at = "mint" =>
                    token'[tab'[q].sent].family # token'[tab'[p].sent].family
  <2>1. CASE p = t
    <3>1. token'[tab'[p].sent].family = f
      BY <1>2a, <1>3, <1>5a, <2>1
    <3>2. \A i \in DOMAIN token : token'[i].family = f => ~ ~token'[i].revoked
      BY <1>2a, <1>4
    <3>3. ASSUME NEW q \in Tabs \ {p}, tab'[q].at = "mint"
          PROVE  token'[tab'[q].sent].family # f
      <4>1. tab[q].at = "mint" /\ tab'[q].sent = tab[q].sent /\ tab[q].sent \in DOMAIN token
        BY <1>3, <2>1, <3>3
      <4> QED
        BY <1>2a, <1>5, <4>1
    <3> QED
      BY <1>2a, <3>1, <3>2, <3>3
  <2>2. CASE p # t
    <3>1. tab'[p] = tab[p] /\ tab[p].at = "mint" /\ tab[p].sent \in DOMAIN token
      BY <1>3, <1>7, <2>2
    <3>2. \A i \in DOMAIN token : token[i].family = token[tab[p].sent].family => ~Live(i)
      BY <1>1, <3>1 DEF OneLivePerFamily, Family
    <3>3. \A q \in Tabs \ {p} : tab'[q].at = "mint" =>
              /\ tab'[q].sent \in DOMAIN token
              /\ token[tab'[q].sent].family # token[tab[p].sent].family
      BY <1>1, <1>3, <1>5, <1>5a, <3>1 DEF OneLivePerFamily
    <3> QED
      BY <1>2a, <3>1, <3>2, <3>3
  <2> QED
    BY <2>1, <2>2
<1>8. OneLivePerFamily'
  BY <1>6, <1>7 DEF OneLivePerFamily, Live, Family
<1>9. <<f, n>> \in Good /\ Good' = Good \ {<<f, n>>}
  <2>1. <<f, n>> \in Good
    BY <1>5a DEF Good
  <2>2. ASSUME NEW x PROVE x \in Good' <=> x \in Good /\ x # <<f, n>>
    <3>1. x \in Good' <=> \E i \in DOMAIN token : ~token'[i].revoked /\ x = <<token'[i].family, i>>
      BY <1>2a DEF Good, Live
    <3>2. x \in Good' <=> \E i \in DOMAIN token : Live(i) /\ i # n /\ x = <<token[i].family, i>>
      BY <1>2a, <3>1
    <3>3. x \in Good <=> \E i \in DOMAIN token : Live(i) /\ x = <<token[i].family, i>>
      BY DEF Good
    <3> QED
      BY <1>5a, <3>2, <3>3
  <2> QED
    BY <2>1, <2>2
<1>10. Passing' = Passing \cup {f}
  <2>1. ASSUME NEW x PROVE x \in Passing' <=> x \in Passing \/ x = f
    <3>1. x \in Passing' <=> \E p \in Tabs : tab'[p].at = "mint" /\ x = token'[tab'[p].sent].family
      BY DEF Passing
    <3>2. x \in Passing <=> \E p \in Tabs : tab[p].at = "mint" /\ x = token[tab[p].sent].family
      BY DEF Passing
    <3>3. token'[tab'[t].sent].family = f
      BY <1>2a, <1>3, <1>5a
    <3>4. \A p \in Tabs \ {t} : tab[p].at = "mint" =>
             token'[tab'[p].sent].family = token[tab[p].sent].family
      BY <1>2a, <1>3
    <3> QED
      BY <1>3, <3>1, <3>2, <3>3, <3>4
  <2> QED
    BY <2>1
<1>11. f \notin {pair[1] : pair \in Good'} \cup Passing
  <2>1. f \notin Passing
    BY <1>5 DEF Passing
  <2>2. ASSUME NEW pair \in Good' PROVE pair[1] # f
    <3>1. PICK i \in DOMAIN token : ~token'[i].revoked /\ pair = <<token'[i].family, i>>
      BY <1>2a DEF Good, Live
    <3>2. Live(i) /\ i # n /\ token[i].family = pair[1]
      BY <1>2a, <3>1
    <3> QED
      BY <1>4b, <3>2
  <2> QED
    BY <2>1, <2>2
<1> QED
  BY <1>2, <1>8, <1>9, <1>10, <1>11 DEF Families!Take

(* The successor takes the place of the token that was claimed. *)
LEMMA MintKeepsOne ==
    ASSUME Inv, NEW t \in Tabs, Mint(t)
    PROVE  OneLivePerFamily' /\ \E family \in Passing : Families!Give(family)
PROOF
<1> DEFINE n == Len(token) + 1
<1> DEFINE f == token[tab[t].sent].family
<1>1. /\ TypeOK /\ OneLivePerFamily /\ token' = Append(token, Fresh(f))
      /\ tab[t].at = "mint" /\ tab[t].sent \in DOMAIN token
      /\ DOMAIN token = 1..Len(token) /\ Len(token) \in Nat
      /\ tab' = [tab EXCEPT ![t] = [tab[t] EXCEPT !.at = "user", !.got = n]]
  BY TokenList DEF Inv, Mint, TypeOK, Exchange
<1>2. f \in DOMAIN token /\ f \in 1..n
  BY <1>1 DEF TypeOK
<1>3. /\ Len(token') = n /\ DOMAIN token' = DOMAIN token \cup {n} /\ n \notin DOMAIN token
      /\ \A i \in DOMAIN token :
            token'[i].family = token[i].family /\ (~token'[i].revoked <=> Live(i))
      /\ token'[n].family = f /\ ~token'[n].revoked
  <2>1. DOMAIN token' = 1..n
    BY <1>1, <1>2, AppendedProperties
  <2> QED
    BY <1>1, <1>2, <2>1, AppendedProperties
<1>4. /\ \A p \in Tabs : tab[p].at = "mint" => tab[p].sent \in DOMAIN token
      /\ \A p \in Tabs \ {t} : tab'[p] = tab[p]
      /\ tab'[t].at = "user"
  BY <1>1 DEF TypeOK, Exchange
<1>5. \A i \in DOMAIN token : token[i].family = f => ~Live(i)
  BY <1>1 DEF OneLivePerFamily, Family
<1>6. \A p \in Tabs \ {t} : tab[p].at = "mint" => token[tab[p].sent].family # f
  BY <1>1 DEF OneLivePerFamily
<1> HIDE DEF n, f
<1>6a. f = token[tab[t].sent].family
  BY DEF f
<1>7. \A i, k \in DOMAIN token' :
         ~token'[i].revoked /\ ~token'[k].revoked /\ token'[i].family = token'[k].family => i = k
  BY <1>1, <1>3, <1>5 DEF OneLivePerFamily
<1>8. ASSUME NEW p \in Tabs, tab'[p].at = "mint"
      PROVE  /\ \A i \in DOMAIN token' :
                    token'[i].family = token'[tab'[p].sent].family => ~ ~token'[i].revoked
             /\ \A q \in Tabs \ {p} : tab'[q].at = "mint" =>
                    token'[tab'[q].sent].family # token'[tab'[p].sent].family
  <2>1. p # t /\ tab'[p] = tab[p] /\ tab[p].at = "mint" /\ tab[p].sent \in DOMAIN token
    BY <1>4, <1>8
  <2>2. \A i \in DOMAIN token : token[i].family = token[tab[p].sent].family => ~Live(i)
    BY <1>1, <2>1 DEF OneLivePerFamily, Family
  <2>3. \A q \in Tabs \ {p} : tab'[q].at = "mint" =>
            /\ tab'[q].sent \in DOMAIN token
            /\ token[tab'[q].sent].family # token[tab[p].sent].family
    BY <1>1, <1>4, <2>1 DEF OneLivePerFamily
  <2> QED
    BY <1>3, <1>6, <2>1, <2>2, <2>3
<1>9. OneLivePerFamily'
  BY <1>7, <1>8 DEF OneLivePerFamily, Live, Family
<1>10. Good' = Good \cup {<<f, n>>}
  BY <1>3 DEF Good, Live
<1>11. f \in Passing /\ Passing' = Passing \ {f}
  <2>1. f \in Passing
    BY <1>1, <1>6a DEF Passing
  <2>2. \A p \in Tabs : tab'[p].at = "mint" <=> p # t /\ tab[p].at = "mint"
    BY <1>4
  <2>3. Passing' = {token'[tab'[p].sent].family : p \in {q \in Tabs : q # t /\ tab[q].at = "mint"}}
    BY <2>2 DEF Passing
  <2>4. Passing' = {token[tab[p].sent].family : p \in {q \in Tabs : q # t /\ tab[q].at = "mint"}}
    BY <1>3, <1>4, <2>3
  <2> QED
    BY <1>6, <1>6a, <2>1, <2>4 DEF Passing
<1>12. f \notin {pair[1] : pair \in Good}
  BY <1>5 DEF Good
<1> QED
  BY <1>3, <1>9, <1>10, <1>11, <1>12 DEF Families!Give, n

(* Every step keeps one token to a family, and is a step of TokenFamily or *)
(* none of its own.                                                        *)
LEMMA FamilyStep ==
    ASSUME Inv, [Next]_vars
    PROVE  OneLivePerFamily' /\ [Families!Next]_(Families!vars)
PROOF
<1>0. TypeOK
  BY DEF Inv
<1>1. CASE UNCHANGED vars
  <2>1. Quiet
    BY <1>1 DEF vars, server, Quiet, Live
  <2> QED
    BY <2>1, QuietKeepsOne DEF Families!Next
<1>2. ASSUME Quiet PROVE OneLivePerFamily' /\ Families!Next
  BY <1>2, QuietKeepsOne DEF Families!Next
<1>3. ASSUME NEW t \in Tabs, Login(t) PROVE OneLivePerFamily' /\ Families!Next
  BY <1>3, LoginKeepsOne DEF Families!Next
<1>4. ASSUME NEW t \in Tabs, Mint(t) PROVE OneLivePerFamily' /\ Families!Next
  BY <1>4, MintKeepsOne DEF Families!Next
<1>5. ASSUME NEW t \in Tabs, Claim(t) PROVE OneLivePerFamily' /\ Families!Next
  <2>1. CASE Live(tab[t].sent)
    BY <1>5, <2>1, ClaimKeepsOne DEF Families!Next
  <2>2. CASE ~Live(tab[t].sent)
    <3>1. tab[t] \in Calls
      BY <1>0, AppType DEF Fits
    <3>2. [tab[t] EXCEPT !.at = "reuse"].at # "mint"
      BY <3>1 DEF Calls
    <3>3. UNCHANGED token /\ tab' = [tab EXCEPT ![t] = [tab[t] EXCEPT !.at = "reuse"]]
      BY <1>5, <2>2 DEF Claim, Go
    <3> QED
      BY <1>0, <1>2, <3>2, <3>3, QuietStep
  <2> QED
    BY <2>1, <2>2
<1>6. ASSUME NEW t \in Tabs, Rotate(t) \/ App(t) \/ SignOuts(t)
      PROVE  OneLivePerFamily' /\ Families!Next
  BY <1>0, <1>2, <1>3, <1>4, <1>5, <1>6, QuietSteps DEF Rotate, App
<1>7. ASSUME NEW i \in DOMAIN token, TokenExpires(i)
      PROVE  OneLivePerFamily' /\ Families!Next
  BY <1>0, <1>2, <1>7, QuietExpiry
<1> QED
  BY <1>1, <1>6, <1>7 DEF Next

(* At first nobody has signed in. *)
LEMMA InitInv == Init => Inv /\ Families!Init
PROOF
<1> SUFFICES ASSUME Init PROVE Inv /\ Families!Init
  OBVIOUS
<1>1. /\ token = <<>> /\ DOMAIN token = {} /\ Len(token) = 0
      /\ token \in Seq([family : Nat, revoked : BOOLEAN, expired : BOOLEAN])
      /\ \A t \in Tabs : tab[t] = Out
  BY EmptySeq DEF Init
<1>2. TypeOK
  BY <1>1 DEF Init, TypeOK, Out, Places, Exchange, NoAccess, Spending
<1>3. OneLivePerFamily
  BY <1>1 DEF OneLivePerFamily, Out
<1>4. Good = {} /\ Passing = {}
  BY <1>1 DEF Good, Passing, Out
<1> QED
  BY <1>1, <1>2, <1>3, <1>4 DEF Inv, Families!Init
-----------------------------------------------------------------------------
(* The types, and one good token to a family, hold together in every       *)
(* reachable state: the second needs of the first that a call about to     *)
(* mint has a token of its own (rotateRefreshToken).                       *)
THEOREM InvHolds == Spec => []Inv
PROOF
<1>1. Init => Inv
  BY InitInv
<1>2. Inv /\ [Next]_vars => Inv'
  BY TypeStep, FamilyStep DEF Inv
<1> QED
  BY <1>1, <1>2, PTL DEF Spec

(* Every variable keeps its type. *)
THEOREM TypeCorrect == Spec => []TypeOK
PROOF
<1>1. Inv => TypeOK
  BY DEF Inv
<1> QED
  BY <1>1, InvHolds, PTL

(* However many apps exchange a token of one family at a time, the family  *)
(* never has two good ones, the one being made included.                   *)
THEOREM OneLive == Spec => []OneLivePerFamily
PROOF
<1>1. Inv => OneLivePerFamily
  BY DEF Inv
<1> QED
  BY <1>1, InvHolds, PTL

(* The server, its devices and their faults implement TokenFamily: what a  *)
(* family hands on, it hands on once, and a family that has nothing left   *)
(* to hand on is gone for ever.                                            *)
THEOREM Implements == Spec => ImplementsFamilies
PROOF
<1>1. Init => Families!Init
  BY InitInv
<1>2. Inv /\ [Next]_vars => [Families!Next]_(Families!vars)
  BY FamilyStep
<1> QED
  BY <1>1, <1>2, InvHolds, PTL DEF Spec, ImplementsFamilies, Families!Spec
-----------------------------------------------------------------------------
(* What lies with a device: the token in its jar, and those its apps have  *)
(* in a call.                                                              *)
Hold(j) == {i \in DOMAIN token : jar[j] = i
               \/ \E t \in Tabs : JarOf[t] = j /\ (tab[t].sent = i \/ tab[t].got = i)}

(* A family belongs to one device: what two devices hold is never of one.  *)
Home ==
    /\ \A t \in Tabs : tab[t].got \in {0} \cup DOMAIN token
    /\ \A j, k \in Jars : \A i \in Hold(j), l \in Hold(k) :
           token[i].family = token[l].family => j = k

(* Two apps exchange the token of one jar only if the jar is hurt. *)
Alone == \A t \in Tabs : \A p \in Tabs \ {t} :
    JarOf[p] = JarOf[t] /\ Refreshing(t) /\ Refreshing(p) => JarOf[t] \in hurt

(* The token an exchange still relies on. *)
Wanted(c) ==
    IF c.at \in {"find", "claim"} THEN {c.sent} \ {0}
    ELSE IF c.at \in {"user", "granted"} THEN {c.got} ELSE {}

(* Of a call over a list of tokens: what it relies on is good, and it is   *)
(* refused only for want of a token or for its age.                        *)
Fair(c, list) ==
    /\ \A i \in Wanted(c) : ~list[i].revoked
    /\ c.at \notin {"reuse", "bump"}
    /\ c.at = "refused" => c.sent = 0 \/ list[c.sent].expired

Sound == \A t \in Tabs : JarOf[t] \notin hurt => Fair(tab[t], token)

(* The token kept in a jar is good, or about to be replaced. *)
Stocked == \A j \in Jars \ hurt : jar[j] # 0 =>
    Live(jar[j]) \/ \E t \in Tabs : JarOf[t] = j /\ Spending(t)

(* An app without an access token was let in out of reach of the server.   *)
BareCut == \A t \in Tabs : Bare(t) => JarOf[t] \in cut

Whole == Inv /\ Home /\ Alone /\ Sound /\ Stocked /\ BareCut
-----------------------------------------------------------------------------
(* A step keeps what tokens there are, with their families and their age.  *)
Onward ==
    /\ DOMAIN token \subseteq DOMAIN token'
    /\ \A i \in DOMAIN token :
           token'[i].family = token[i].family /\ (token[i].expired => token'[i].expired)

(* The step of one app, c what its call becomes: other jars stay as they   *)
(* are, and a jar ceases to be hurt only when no app of it is in a call.   *)
AppStep(t, c) ==
    /\ tab' = [tab EXCEPT ![t] = c]
    /\ Onward
    /\ \A j \in Jars \ {JarOf[t]} : jar'[j] = jar[j]
    /\ \A j \in hurt \ hurt' : j = JarOf[t] /\ \A p \in Tabs : JarOf[p] = j => ~Calling(p)

LEMMA OthersStay ==
    ASSUME TypeOK, NEW t \in Tabs, NEW c, tab' = [tab EXCEPT ![t] = c]
    PROVE  tab'[t] = c /\ \A p \in Tabs \ {t} : tab'[p] = tab[p]
PROOF
  BY DEF TypeOK

(* A token is made with a number of its own, from 1. *)
LEMMA NoZero ==
    ASSUME NEW list \in Seq(Record)
    PROVE  0 \notin DOMAIN list
PROOF
  BY LenProperties

(* Home is kept if what a step adds to a device is of a family there. *)
LEMMA HomeStep ==
    ASSUME TypeOK, TypeOK', Home, NEW t \in Tabs, NEW c, AppStep(t, c),
           c.got \in {0} \cup DOMAIN token',
           \A i \in {jar'[JarOf[t]], c.sent, c.got} \ {0} :
               \E l \in Hold(JarOf[t]) : token[l].family = token'[i].family
    PROVE  Home'
PROOF
<1>1. tab'[t] = c /\ (\A p \in Tabs \ {t} : tab'[p] = tab[p])
  BY OthersStay DEF AppStep
<1>2. /\ DOMAIN token \subseteq DOMAIN token'
      /\ \A i \in DOMAIN token : token'[i].family = token[i].family
      /\ \A j \in Jars \ {JarOf[t]} : jar'[j] = jar[j]
  BY DEF AppStep, Onward
<1>3. 0 \notin DOMAIN token'
  BY NoZero DEF TypeOK, Record
<1>4. /\ \A p \in Tabs : tab[p].sent \in {0} \cup DOMAIN token
      /\ \A p \in Tabs : tab[p].got \in {0} \cup DOMAIN token
      /\ \A j \in Jars : jar[j] \in {0} \cup DOMAIN token
  BY DEF TypeOK, Home
<1>5. ASSUME NEW j \in Jars, NEW i \in Hold(j)'
      PROVE  \E l \in Hold(j) : token[l].family = token'[i].family
  <2>1. /\ i \in DOMAIN token'
        /\ \/ jar'[j] = i
           \/ \E p \in Tabs : JarOf[p] = j /\ (tab'[p].sent = i \/ tab'[p].got = i)
    BY <1>5 DEF Hold
  <2>2. i # 0
    BY <1>3, <2>1
  <2>3. CASE jar'[j] = i /\ j # JarOf[t]
    <3>1. jar[j] = i /\ i \in DOMAIN token
      BY <1>2, <1>4, <2>2, <2>3
    <3>2. i \in Hold(j)
      BY <3>1 DEF Hold
    <3> QED
      BY <1>2, <3>1, <3>2
  <2>4. ASSUME NEW p \in Tabs \ {t}, JarOf[p] = j, tab'[p].sent = i \/ tab'[p].got = i
        PROVE  \E l \in Hold(j) : token[l].family = token'[i].family
    <3>1. i \in DOMAIN token /\ (tab[p].sent = i \/ tab[p].got = i)
      BY <1>1, <1>4, <2>2, <2>4
    <3>2. i \in Hold(j)
      BY <2>4, <3>1 DEF Hold
    <3> QED
      BY <1>2, <3>1, <3>2
  <2>5. CASE j = JarOf[t] /\ i \in {jar'[JarOf[t]], c.sent, c.got}
    BY <2>2, <2>5
  <2> QED
    BY <1>1, <2>1, <2>3, <2>4, <2>5
<1>6. \A p \in Tabs : tab'[p].got \in {0} \cup DOMAIN token'
  BY <1>1, <1>2, <1>4
<1>7. ASSUME NEW j \in Jars, NEW k \in Jars, NEW i \in Hold(j)', NEW l \in Hold(k)',
             token'[i].family = token'[l].family
      PROVE  j = k
  <2>1. PICK a \in Hold(j) : token[a].family = token'[i].family
    BY <1>5
  <2>2. PICK b \in Hold(k) : token[b].family = token'[l].family
    BY <1>5
  <2> QED
    BY <1>7, <2>1, <2>2 DEF Home
<1> QED
  BY <1>6, <1>7 DEF Home

(* What an app relies on lies with its device. *)
LEMMA WantedHeld ==
    ASSUME TypeOK, Home, NEW p \in Tabs, NEW i \in Wanted(tab[p])
    PROVE  i \in Hold(JarOf[p]) /\ i \in DOMAIN token /\ Refreshing(p)
PROOF
<1>1. /\ tab[p].sent \in {0} \cup DOMAIN token
      /\ tab[p].at \in {"user", "granted"} => tab[p].got \in DOMAIN token
  BY DEF TypeOK
<1>2. i \in DOMAIN token /\ (tab[p].sent = i \/ tab[p].got = i)
  BY <1>1 DEF Wanted
<1>3. Refreshing(p)
  BY DEF Wanted, Refreshing, Calling
<1> QED
  BY <1>2, <1>3 DEF Hold

(* The other apps' calls stay fair if nothing they rely on is revoked. *)
LEMMA SoundStep ==
    ASSUME TypeOK, Home, Sound, NEW t \in Tabs, NEW c, AppStep(t, c),
           \A p \in Tabs \ {t} : JarOf[p] \notin hurt' =>
               \A i \in Wanted(tab[p]) : Live(i) => ~token'[i].revoked,
           JarOf[t] \notin hurt' => Fair(c, token')
    PROVE  Sound'
PROOF
<1>1. tab'[t] = c /\ (\A p \in Tabs \ {t} : tab'[p] = tab[p])
  BY OthersStay DEF AppStep
<1>2. \A p \in Tabs : tab[p].sent \in {0} \cup DOMAIN token
  BY DEF TypeOK
<1>3. ASSUME NEW p \in Tabs \ {t}, JarOf[p] \notin hurt'
      PROVE  Fair(tab[p], token')
  <2>1. CASE JarOf[p] \in hurt
    <3>1. ~Calling(p)
      BY <1>3, <2>1 DEF AppStep
    <3> QED
      BY <3>1 DEF Calling, Fair, Wanted
  <2>2. CASE JarOf[p] \notin hurt
    <3>1. Fair(tab[p], token)
      BY <2>2 DEF Sound
    <3>2. \A i \in Wanted(tab[p]) : ~token'[i].revoked
      BY <1>3, <3>1 DEF Fair, Live
    <3>3. tab[p].at = "refused" => tab[p].sent = 0 \/ token'[tab[p].sent].expired
      BY <1>2, <3>1 DEF Fair, AppStep, Onward
    <3> QED
      BY <3>1, <3>2, <3>3 DEF Fair
  <2> QED
    BY <2>1, <2>2
<1>4. ASSUME NEW p \in Tabs, JarOf[p] \notin hurt'
      PROVE  Fair(tab'[p], token')
  BY <1>1, <1>3, <1>4
<1> QED
  BY <1>4 DEF Sound, Fair, Wanted

(* An app joins another one in an exchange only over a jar that is hurt. *)
LEMMA AloneStep ==
    ASSUME TypeOK, Alone, NEW t \in Tabs, NEW c, AppStep(t, c),
           c.at \notin {"out", "in", "raise", "sweep"} =>
               Refreshing(t) \/ \A p \in Sharing(t) \ {t} : Calling(p) => JarOf[t] \in hurt'
    PROVE  Alone'
PROOF
<1>1. tab'[t] = c /\ (\A p \in Tabs \ {t} : tab'[p] = tab[p])
  BY OthersStay DEF AppStep
<1>2. \A p \in Tabs \ {t} : Refreshing(p)' <=> Refreshing(p)
  BY <1>1 DEF Refreshing, Calling
<1>3. Refreshing(t)' => c.at \notin {"out", "in", "raise", "sweep"}
  BY <1>1 DEF Refreshing, Calling
<1>4. ASSUME NEW p \in Tabs, NEW q \in Tabs \ {p}, JarOf[q] = JarOf[p],
             Refreshing(p), Refreshing(q)
      PROVE  JarOf[p] \in hurt'
  BY <1>4 DEF Alone, AppStep, Refreshing
<1>5. ASSUME NEW p \in Tabs \ {t}, JarOf[p] = JarOf[t], Refreshing(p), Refreshing(t)'
      PROVE  JarOf[t] \in hurt'
  BY <1>3, <1>4, <1>5 DEF Sharing, Refreshing
<1>6. ASSUME NEW p \in Tabs, NEW q \in Tabs \ {p}, JarOf[q] = JarOf[p],
             Refreshing(p)', Refreshing(q)'
      PROVE  JarOf[p] \in hurt'
  BY <1>2, <1>4, <1>5, <1>6
<1> QED
  BY <1>6 DEF Alone

(* Jars stay stocked: those of other devices if their token is spared, the *)
(* app's own if the step leaves it a good token or an exchange under way.  *)
LEMMA StockedStep ==
    ASSUME TypeOK, Stocked, NEW t \in Tabs, NEW c, AppStep(t, c),
           \A j \in Jars \ hurt' : jar'[j] = jar[j] /\ jar[j] # 0 /\ Live(jar[j]) =>
               \/ ~token'[jar[j]].revoked
               \/ j = JarOf[t] /\ c.at \in {"mint", "user", "granted"},
           JarOf[t] \notin hurt' =>
               \/ jar'[JarOf[t]] = 0
               \/ ~token'[jar'[JarOf[t]]].revoked
               \/ c.at \in {"mint", "user", "granted"}
               \/ JarOf[t] \notin hurt /\ jar'[JarOf[t]] = jar[JarOf[t]] /\ ~Spending(t)
    PROVE  Stocked'
PROOF
<1>1. tab'[t] = c /\ (\A p \in Tabs \ {t} : tab'[p] = tab[p]) /\ JarOf[t] \in Jars
  BY OthersStay, AppType DEF AppStep
<1>2. \A p \in Tabs \ {t} : Spending(p)' <=> Spending(p)
  BY <1>1 DEF Spending
<1>3. c.at \in {"mint", "user", "granted"} => Spending(t)'
  BY <1>1 DEF Spending
<1>4. ASSUME NEW j \in Jars, j \notin hurt', jar'[j] # 0, j \notin hurt, jar'[j] = jar[j],
             j = JarOf[t] => ~Spending(t)
      PROVE  ~token'[jar'[j]].revoked \/ \E p \in Tabs : JarOf[p] = j /\ Spending(p)'
  <2>1. CASE Live(jar[j])
    BY <1>1, <1>3, <1>4, <2>1
  <2>2. CASE ~Live(jar[j])
    <3>1. PICK p \in Tabs : JarOf[p] = j /\ Spending(p)
      BY <1>4, <2>2 DEF Stocked
    <3>2. p # t
      BY <1>4, <3>1
    <3> QED
      BY <1>2, <3>1, <3>2
  <2> QED
    BY <2>1, <2>2
<1>5. ASSUME NEW j \in Jars, j \notin hurt', jar'[j] # 0
      PROVE  ~token'[jar'[j]].revoked \/ \E p \in Tabs : JarOf[p] = j /\ Spending(p)'
  <2>1. CASE j # JarOf[t]
    <3>1. jar'[j] = jar[j] /\ j \notin hurt
      BY <1>5, <2>1 DEF AppStep
    <3> QED
      BY <1>4, <1>5, <2>1, <3>1
  <2>2. CASE j = JarOf[t]
    BY <1>1, <1>3, <1>4, <1>5, <2>2
  <2> QED
    BY <2>1, <2>2
<1> QED
  BY <1>5 DEF Stocked, Live

(* An app is let in bare only out of reach. *)
LEMMA BareStep ==
    ASSUME TypeOK, BareCut, NEW t \in Tabs, NEW c, AppStep(t, c), cut \subseteq cut',
           c.at = "in" /\ c.access = NoAccess => Bare(t) \/ JarOf[t] \in cut'
    PROVE  BareCut'
PROOF
<1>1. tab'[t] = c /\ (\A p \in Tabs \ {t} : tab'[p] = tab[p])
  BY OthersStay DEF AppStep
<1>2. ASSUME NEW p \in Tabs, Bare(p)' PROVE JarOf[p] \in cut'
  BY <1>1, <1>2 DEF BareCut, Bare
<1> QED
  BY <1>2 DEF BareCut

(* A step of an app by which no token is made or revoked. *)
LEMMA StillStep ==
    ASSUME Whole, Inv', NEW t \in Tabs, NEW c,
           tab' = [tab EXCEPT ![t] = c], UNCHANGED token,
           hurt \subseteq hurt', cut \subseteq cut',
           \A j \in Jars \ {JarOf[t]} : jar'[j] = jar[j],
           jar'[JarOf[t]] \in {0, jar[JarOf[t]], tab[t].got},
           c.sent \in {0, tab[t].sent, jar[JarOf[t]]}, c.got \in {0, tab[t].got},
           JarOf[t] \notin hurt' => Fair(c, token),
           c.at \notin {"out", "in", "raise", "sweep"} =>
               Refreshing(t) \/ \A p \in Sharing(t) \ {t} : Calling(p) => JarOf[t] \in hurt',
           JarOf[t] \notin hurt' =>
               \/ jar'[JarOf[t]] = 0
               \/ Live(jar'[JarOf[t]])
               \/ c.at \in {"mint", "user", "granted"}
               \/ jar'[JarOf[t]] = jar[JarOf[t]] /\ ~Spending(t),
           c.at = "in" /\ c.access = NoAccess => Bare(t) \/ JarOf[t] \in cut'
    PROVE  Whole'
PROOF
<1>1. TypeOK /\ TypeOK' /\ Home /\ Alone /\ Sound /\ Stocked /\ BareCut
  BY DEF Whole, Inv
<1>2. AppStep(t, c)
  BY DEF AppStep, Onward
<1>3. JarOf[t] \in Jars /\ jar[JarOf[t]] \in {0} \cup DOMAIN token
      /\ tab[t].sent \in {0} \cup DOMAIN token /\ tab[t].got \in {0} \cup DOMAIN token
  BY <1>1, AppType DEF TypeOK, Home
<1>4. Home'
  <2>1. ASSUME NEW i \in {jar'[JarOf[t]], c.sent, c.got} \ {0}
        PROVE  \E l \in Hold(JarOf[t]) : token[l].family = token'[i].family
    <3>1. i \in DOMAIN token /\ i \in {jar[JarOf[t]], tab[t].sent, tab[t].got}
      BY <1>3, <2>1
    <3>2. i \in Hold(JarOf[t])
      BY <3>1 DEF Hold
    <3> QED
      BY <3>2
  <2>2. c.got \in {0} \cup DOMAIN token'
    BY <1>3
  <2> QED
    BY <1>1, <1>2, <2>1, <2>2, HomeStep
<1>5. Sound'
  <2>1. \A p \in Tabs \ {t} : JarOf[p] \notin hurt' =>
            \A i \in Wanted(tab[p]) : Live(i) => ~token'[i].revoked
    BY DEF Live
  <2> QED
    BY <1>1, <1>2, <2>1, SoundStep
<1>6. Alone'
  BY <1>1, <1>2, AloneStep
<1>7. Stocked'
  BY <1>1, <1>2, StockedStep DEF Live
<1>8. BareCut'
  BY <1>1, <1>2, BareStep
<1> QED
  BY <1>4, <1>5, <1>6, <1>7, <1>8 DEF Whole

(* An app leaves its call, or its sign-in, and no token is touched. *)
LEMMA LeaveStep ==
    ASSUME Whole, Inv', NEW t \in Tabs, NEW c,
           tab' = [tab EXCEPT ![t] = c], UNCHANGED token,
           c = Out \/ \E v : c = In(v) /\ (v = NoAccess => JarOf[t] \in cut'),
           UNCHANGED jar \/ jar' = [jar EXCEPT ![JarOf[t]] = 0],
           hurt \subseteq hurt', cut \subseteq cut',
           Spending(t) => JarOf[t] \in hurt'
    PROVE  Whole'
PROOF
<1>1. c.sent = 0 /\ c.got = 0 /\ c.at \in {"out", "in"}
      /\ (c.at = "in" /\ c.access = NoAccess => JarOf[t] \in cut')
  <2>1. Out.sent = 0 /\ Out.got = 0 /\ Out.at = "out"
    BY DEF Out
  <2>2. \A v : In(v).sent = 0 /\ In(v).got = 0 /\ In(v).at = "in" /\ In(v).access = v
    BY DEF Out, In
  <2> QED
    BY <2>1, <2>2
<1>2. Fair(c, token)
  BY <1>1 DEF Fair, Wanted
<1>3. TypeOK
  BY DEF Whole, Inv
<1>4. /\ \A j \in Jars \ {JarOf[t]} : jar'[j] = jar[j]
      /\ jar'[JarOf[t]] \in {0, jar[JarOf[t]]}
  BY <1>3, AppType DEF TypeOK
<1> QED
  BY <1>1, <1>2, <1>4, StillStep

(* The ways to sign out that revoke nothing. *)
LEMMA WholeLeaves ==
    ASSUME Whole, Inv', NEW t \in Tabs,
           Refused(t) \/ NoAnswer(t) \/ Reload(t) \/ CallBare(t) \/ LogoutAllLost(t)
    PROVE  Whole'
PROOF
<1>1. [jar EXCEPT ![JarOf[t]] = IF JarOf[t] \in Keychains THEN 0 ELSE @]
        \in {jar, [jar EXCEPT ![JarOf[t]] = 0]}
  BY AppType DEF Whole, Inv, TypeOK
<1>2. CASE Refused(t)
  BY <1>1, <1>2, LeaveStep DEF Refused, SignOut, server, Spending
<1>3. CASE NoAnswer(t)
  <2>1. /\ UNCHANGED token /\ hurt \subseteq hurt' /\ cut \subseteq cut'
        /\ JarOf[t] \in cut' /\ (Spending(t) => JarOf[t] \in hurt')
    BY <1>3 DEF NoAnswer, server
  <2>2. CASE tab[t].boot
    BY <1>1, <1>3, <2>1, <2>2, LeaveStep DEF NoAnswer
  <2>3. CASE ~tab[t].boot
    BY <1>1, <1>3, <2>1, <2>3, LeaveStep DEF NoAnswer, SignOut
  <2> QED
    BY <2>2, <2>3
<1>4. CASE Reload(t)
  BY <1>4, LeaveStep DEF Reload, server
<1>5. CASE CallBare(t)
  BY <1>1, <1>5, LeaveStep DEF CallBare, SignOut, server, Spending, Bare
<1>6. CASE LogoutAllLost(t)
  BY <1>1, <1>6, LeaveStep DEF LogoutAllLost, server, history, Spending
<1> QED
  BY <1>2, <1>3, <1>4, <1>5, <1>6

(* An app at rest, or that starts a call. *)
LEMMA WholeStarts ==
    ASSUME Whole, Inv', NEW t \in Tabs,
           \/ AccessExpires(t) \/ Work(t) \/ Sync(t) \/ Call(t) \/ Open(t)
           \/ LogoutAll(t) \/ RaiseVersion(t)
    PROVE  Whole'
PROOF
<1>0. TypeOK /\ tab[t] \in Calls /\ Sound /\ Stocked /\ JarOf[t] \in Jars
  BY AppType DEF Whole, Inv, Fits
<1>1. CASE AccessExpires(t)
  <2> DEFINE c == [tab[t] EXCEPT !.expired = TRUE]
  <2>1. tab' = [tab EXCEPT ![t] = c] /\ UNCHANGED <<token, jar, hurt, cut>>
        /\ tab[t].at = "in" /\ tab[t].access # NoAccess
    BY <1>1 DEF AccessExpires, server, history
  <2>2. c.sent = tab[t].sent /\ c.got = tab[t].got /\ c.at = "in" /\ c.access # NoAccess
    BY <1>0, <2>1 DEF Calls
  <2> HIDE DEF c
  <2>3. Fair(c, token)
    BY <2>2 DEF Fair, Wanted
  <2> QED
    BY <2>1, <2>2, <2>3, StillStep DEF Spending
<1>2. CASE Work(t) \/ Sync(t)
  <2>1. tab' = [tab EXCEPT ![t] = tab[t]] /\ UNCHANGED <<token, jar, hurt, cut>>
        /\ tab[t].at = "in"
    BY <1>0, <1>2 DEF Work, Sync, Valid, server, history, TypeOK
  <2>2. Fair(tab[t], token)
    BY <2>1 DEF Fair, Wanted
  <2> QED
    BY <2>1, <2>2, StillStep DEF Spending, Bare
<1>3. ASSUME NEW from \in Calls, StartRefresh(t, from), from.got \in {0, tab[t].got},
             ~Calling(t)
      PROVE  Whole'
  <2> DEFINE c == [from EXCEPT !.at = "find", !.sent = jar[JarOf[t]]]
  <2>1. tab' = [tab EXCEPT ![t] = c] /\ UNCHANGED <<token, jar, cut>> /\ hurt \subseteq hurt'
    BY <1>3 DEF StartRefresh, server
  <2>2. c.sent = jar[JarOf[t]] /\ c.got = from.got /\ c.at = "find"
    BY DEF Calls
  <2>3. \A p \in Sharing(t) \ {t} : Calling(p) => JarOf[t] \in hurt'
    BY <1>3 DEF StartRefresh
  <2>4. ~Spending(t)
    BY <1>3 DEF Calling, Spending
  <2>5. ASSUME JarOf[t] \notin hurt' PROVE Fair(c, token)
    <3>1. \A p \in Tabs : JarOf[p] = JarOf[t] => ~Spending(p)
      BY <2>3, <2>4, <2>5 DEF Sharing, Spending, Calling
    <3>2. jar[JarOf[t]] = 0 \/ Live(jar[JarOf[t]])
      BY <1>0, <2>1, <2>5, <3>1 DEF Stocked
    <3> QED
      BY <2>2, <3>2 DEF Fair, Wanted, Live
  <2> HIDE DEF c
  <2> QED
    BY <1>3, <2>1, <2>2, <2>3, <2>4, <2>5, StillStep
<1>4. CASE Call(t)
  <2>1. [tab[t] EXCEPT !.revoked = ~tab[t].expired] \in Calls
        /\ [tab[t] EXCEPT !.revoked = ~tab[t].expired].got = tab[t].got
    BY <1>0 DEF Calls
  <2> QED
    BY <1>3, <1>4, <2>1 DEF Call, Calling
<1>5. CASE Open(t)
  <2>1. [Out EXCEPT !.boot = TRUE] \in Calls /\ [Out EXCEPT !.boot = TRUE].got = 0
    BY DEF Out, Calls, Places, NoAccess
  <2> QED
    BY <1>3, <1>5, <2>1 DEF Open
<1>6. ASSUME NEW c, tab' = [tab EXCEPT ![t] = c], UNCHANGED <<token, jar, hurt, cut>>,
             c.sent = tab[t].sent, c.got = tab[t].got, c.at \in {"raise", "sweep"},
             tab[t].at \in {"in", "raise"}
      PROVE  Whole'
  <2>1. Fair(c, token)
    BY <1>6 DEF Fair, Wanted
  <2> QED
    BY <1>6, <2>1, StillStep DEF Spending
<1>7. CASE LogoutAll(t)
  <2> DEFINE c == [tab[t] EXCEPT !.at = "raise", !.seen = version]
  <2>1. c.sent = tab[t].sent /\ c.got = tab[t].got /\ c.at = "raise"
    BY <1>0 DEF Calls
  <2>2. tab' = [tab EXCEPT ![t] = c] /\ UNCHANGED <<token, jar, hurt, cut>> /\ tab[t].at = "in"
    BY <1>7 DEF LogoutAll, Valid, server, history
  <2> HIDE DEF c
  <2> QED
    BY <1>6, <2>1, <2>2
<1>8. CASE RaiseVersion(t)
  <2> DEFINE c == [tab[t] EXCEPT !.at = "sweep"]
  <2>1. c.sent = tab[t].sent /\ c.got = tab[t].got /\ c.at = "sweep"
    BY <1>0 DEF Calls
  <2>2. tab' = [tab EXCEPT ![t] = c] /\ UNCHANGED <<token, jar, hurt, cut>>
        /\ tab[t].at = "raise"
    BY <1>8 DEF RaiseVersion, Go, history
  <2> HIDE DEF c
  <2> QED
    BY <1>6, <2>1, <2>2
<1> QED
  BY <1>1, <1>2, <1>4, <1>5, <1>7, <1>8

(* The steps of the server that make and revoke no token, and the answer.  *)
LEMMA WholeServes ==
    ASSUME Whole, Inv', NEW t \in Tabs,
           \/ Find(t) \/ LoadUser(t) \/ Bump(t) \/ Granted(t)
           \/ Claim(t) /\ ~Live(tab[t].sent)
    PROVE  Whole'
PROOF
<1>0. TypeOK /\ tab[t] \in Calls /\ Sound /\ Stocked /\ JarOf[t] \in Jars
  BY AppType DEF Whole, Inv, Fits
<1>1. JarOf[t] \notin hurt => Fair(tab[t], token)
  BY <1>0 DEF Sound
<1>2. ASSUME NEW label, Go(t, label), UNCHANGED <<token, jar, cut>>, hurt \subseteq hurt',
             Refreshing(t), ~Spending(t), label # "in",
             JarOf[t] \notin hurt' => Fair([tab[t] EXCEPT !.at = label], token)
      PROVE  Whole'
  <2> DEFINE c == [tab[t] EXCEPT !.at = label]
  <2>1. tab' = [tab EXCEPT ![t] = c]
    BY <1>2 DEF Go
  <2>2. c.sent = tab[t].sent /\ c.got = tab[t].got /\ c.at = label
    BY <1>0 DEF Calls
  <2>3. JarOf[t] \notin hurt' => Fair(c, token)
    BY <1>2
  <2> HIDE DEF c
  <2> QED
    BY <1>2, <2>1, <2>2, <2>3, StillStep
<1>3. CASE Find(t)
  <2>1. tab[t].at = "find" /\ UNCHANGED <<token, jar, cut, hurt>>
    BY <1>3 DEF Find, server, history
  <2>2. PICK label \in {"refused", "reuse", "claim"} :
           /\ Go(t, label)
           /\ label = "reuse" => tab[t].sent # 0 /\ token[tab[t].sent].revoked
           /\ label = "refused" => \/ tab[t].sent = 0 \/ token[tab[t].sent].expired
           /\ label = "claim" => ~token[tab[t].sent].revoked
    BY <1>3 DEF Find
  <2>3. ASSUME JarOf[t] \notin hurt PROVE Fair([tab[t] EXCEPT !.at = label], token)
    <3> DEFINE c == [tab[t] EXCEPT !.at = label]
    <3>1. c.sent = tab[t].sent /\ c.got = tab[t].got /\ c.at = label
      BY <1>0 DEF Calls
    <3> HIDE DEF c
    <3>2. tab[t].sent # 0 => ~token[tab[t].sent].revoked
      BY <1>1, <2>1, <2>3 DEF Fair, Wanted
    <3>3. Fair(c, token)
      BY <2>2, <3>1, <3>2 DEF Fair, Wanted
    <3> QED
      BY <3>3 DEF c
  <2>4. Refreshing(t) /\ ~Spending(t) /\ label # "in"
    BY <2>1, <2>2 DEF Refreshing, Calling, Spending
  <2> QED
    BY <1>2, <2>1, <2>2, <2>3, <2>4
<1>4. CASE Bump(t)
  <2>1. tab[t].at = "bump" /\ Go(t, "refused") /\ UNCHANGED <<token, jar, cut, hurt>>
    BY <1>4 DEF Bump, history
  <2>2. JarOf[t] \in hurt
    BY <1>1, <2>1 DEF Fair
  <2> QED
    BY <1>2, <2>1, <2>2 DEF Refreshing, Calling, Spending
<1>5. CASE Claim(t) /\ ~Live(tab[t].sent)
  <2>1. tab[t].at = "claim" /\ Go(t, "reuse") /\ UNCHANGED <<token, jar, cut, hurt>>
    BY <1>5 DEF Claim, history
  <2>2. JarOf[t] \in hurt
    <3>1. tab[t].sent # 0
      BY <1>0, <2>1, NoZero DEF TypeOK, Exchange, Record
    <3> QED
      BY <1>1, <1>5, <2>1, <3>1 DEF Fair, Wanted, Live
  <2> QED
    BY <1>2, <2>1, <2>2 DEF Refreshing, Calling, Spending
<1>6. CASE LoadUser(t)
  <2> DEFINE c == [tab[t] EXCEPT !.at = "granted", !.seen = version]
  <2>1. c.sent = tab[t].sent /\ c.got = tab[t].got /\ c.at = "granted"
    BY <1>0 DEF Calls
  <2>2. tab' = [tab EXCEPT ![t] = c] /\ UNCHANGED <<token, jar, hurt, cut>>
        /\ tab[t].at = "user"
    BY <1>6 DEF LoadUser, server, history
  <2> HIDE DEF c
  <2>3. JarOf[t] \notin hurt => Fair(c, token)
    BY <1>1, <2>1, <2>2 DEF Fair, Wanted
  <2>4. Refreshing(t)
    BY <2>2 DEF Refreshing, Calling
  <2> QED
    BY <2>1, <2>2, <2>3, <2>4, StillStep
<1>7. CASE Granted(t)
  <2> DEFINE c == In(tab[t].seen)
  <2>1. c.sent = 0 /\ c.got = 0 /\ c.at = "in" /\ c.access = tab[t].seen
    BY DEF Out, In
  <2>2. c.access # NoAccess
    BY <1>0, <2>1 DEF Calls, NoAccess
  <2>3. tab' = [tab EXCEPT ![t] = c] /\ UNCHANGED <<token, cut>> /\ hurt \subseteq hurt'
        /\ tab[t].at = "granted"
    BY <1>7 DEF Granted, server
  <2> HIDE DEF c
  <2>4. Fair(c, token)
    BY <2>1 DEF Fair, Wanted
  <2>5. /\ \A j \in Jars \ {JarOf[t]} : jar'[j] = jar[j]
        /\ \/ jar'[JarOf[t]] = tab[t].got
           \/ jar'[JarOf[t]] = jar[JarOf[t]] /\ JarOf[t] \in hurt'
    BY <1>0, <1>7 DEF Granted, TypeOK
  <2>6. JarOf[t] \notin hurt' => Live(jar'[JarOf[t]])
    BY <1>1, <2>3, <2>5 DEF Fair, Wanted, Live
  <2> QED
    BY <2>1, <2>2, <2>3, <2>4, <2>5, <2>6, StillStep
<1> QED
  BY <1>3, <1>4, <1>5, <1>6, <1>7

(* A revocation leaves tokens their families and their age. *)
LEMMA RevokedOnward ==
    ASSUME TypeOK, NEW s, token' = Revoked(s)
    PROVE  /\ Onward /\ DOMAIN token' = DOMAIN token
           /\ \A i \in DOMAIN token : ~token'[i].revoked <=> Live(i) /\ i \notin s
PROOF
<1>1. /\ DOMAIN token' = DOMAIN token
      /\ \A i \in DOMAIN token :
            /\ token'[i].family = token[i].family
            /\ ~token'[i].revoked <=> Live(i) /\ i \notin s
  BY RevokedProperties
<1>2. ASSUME NEW i \in DOMAIN token PROVE token'[i].expired = token[i].expired
  <2>1. token'[i] = [token[i] EXCEPT !.revoked = @ \/ i \in s] /\ token[i] \in Record
    BY TokenList DEF Revoked
  <2> QED
    BY <2>1 DEF Record
<1> QED
  BY <1>1, <1>2 DEF Onward

(* So does a token that is made. *)
LEMMA AppendedOnward ==
    ASSUME TypeOK, NEW f \in 1..(Len(token) + 1), token' = Append(token, Fresh(f))
    PROVE  Onward /\ \A i \in DOMAIN token : ~token'[i].revoked <=> Live(i)
PROOF
<1>1. /\ DOMAIN token \subseteq DOMAIN token'
      /\ \A i \in DOMAIN token :
            token'[i].family = token[i].family /\ (~token'[i].revoked <=> Live(i))
  BY AppendedProperties
<1>2. ASSUME NEW i \in DOMAIN token PROVE token'[i] = token[i]
  BY TokenList, AppendProperties
<1> QED
  BY <1>1, <1>2 DEF Onward

(* A step of an app that revokes the tokens of a set s: whole, if an app   *)
(* that relies on one of them, or a jar that keeps one, is hurt by it.     *)
LEMMA RevokeStep ==
    ASSUME Whole, Inv', NEW t \in Tabs, NEW c, NEW s,
           tab' = [tab EXCEPT ![t] = c], token' = Revoked(s),
           hurt \subseteq hurt', cut \subseteq cut',
           \A j \in Jars \ {JarOf[t]} : jar'[j] = jar[j],
           jar'[JarOf[t]] \in {0, jar[JarOf[t]]},
           c.sent \in {0, tab[t].sent}, c.got \in {0, tab[t].got}, c.at # "in",
           \A p \in Tabs \ {t} : JarOf[p] \notin hurt' => \A i \in Wanted(tab[p]) : i \notin s,
           JarOf[t] \notin hurt' => Fair(c, token'),
           c.at \notin {"out", "raise", "sweep"} => Refreshing(t),
           \A j \in Jars \ hurt' : jar'[j] = jar[j] /\ jar[j] \in s \ {0} =>
               j = JarOf[t] /\ c.at \in {"mint", "user", "granted"},
           JarOf[t] \notin hurt' =>
               jar'[JarOf[t]] = 0 \/ c.at \in {"mint", "user", "granted"} \/ ~Spending(t)
    PROVE  Whole'
PROOF
<1>1. TypeOK /\ TypeOK' /\ Home /\ Alone /\ Sound /\ Stocked /\ BareCut
  BY DEF Whole, Inv
<1>2. /\ Onward /\ DOMAIN token' = DOMAIN token
      /\ \A i \in DOMAIN token : ~token'[i].revoked <=> Live(i) /\ i \notin s
  BY <1>1, RevokedOnward
<1>3. AppStep(t, c)
  BY <1>2 DEF AppStep
<1>4. JarOf[t] \in Jars /\ jar[JarOf[t]] \in {0} \cup DOMAIN token
      /\ tab[t].sent \in {0} \cup DOMAIN token /\ tab[t].got \in {0} \cup DOMAIN token
      /\ \A j \in Jars : jar[j] \in {0} \cup DOMAIN token
  BY <1>1, AppType DEF TypeOK, Home
<1>5. Home'
  <2>1. ASSUME NEW i \in {jar'[JarOf[t]], c.sent, c.got} \ {0}
        PROVE  \E l \in Hold(JarOf[t]) : token[l].family = token'[i].family
    <3>1. i \in DOMAIN token /\ i \in {jar[JarOf[t]], tab[t].sent, tab[t].got}
      BY <1>4, <2>1
    <3>2. i \in Hold(JarOf[t])
      BY <3>1 DEF Hold
    <3> QED
      BY <1>2, <3>1, <3>2 DEF Onward
  <2>2. c.got \in {0} \cup DOMAIN token'
    BY <1>2, <1>4
  <2> QED
    BY <1>1, <1>3, <2>1, <2>2, HomeStep
<1>6. Sound'
  <2>1. ASSUME NEW p \in Tabs \ {t}, JarOf[p] \notin hurt', NEW i \in Wanted(tab[p]), Live(i)
        PROVE  ~token'[i].revoked
    BY <1>1, <1>2, <2>1, WantedHeld
  <2> QED
    BY <1>1, <1>3, <2>1, SoundStep
<1>7. Alone'
  BY <1>1, <1>3, AloneStep
<1>8. Stocked'
  <2>1. \A j \in Jars \ hurt' : jar'[j] = jar[j] /\ jar[j] # 0 /\ Live(jar[j]) =>
               \/ ~token'[jar[j]].revoked
               \/ j = JarOf[t] /\ c.at \in {"mint", "user", "granted"}
    BY <1>2, <1>4
  <2> QED
    BY <1>1, <1>3, <2>1, StockedStep
<1>9. BareCut'
  BY <1>1, <1>3, BareStep
<1> QED
  BY <1>5, <1>6, <1>7, <1>8, <1>9 DEF Whole

(* An app that claims its token: another one that relies on that token has *)
(* it from the same jar.                                                   *)
LEMMA WholeClaim ==
    ASSUME Whole, Inv', NEW t \in Tabs, Claim(t), Live(tab[t].sent)
    PROVE  Whole'
PROOF
<1> DEFINE n == tab[t].sent
<1> DEFINE c == [tab[t] EXCEPT !.at = "mint"]
<1>1. TypeOK /\ Home /\ Alone /\ JarOf[t] \in Jars /\ tab[t] \in Calls
  BY AppType DEF Whole, Inv, Fits
<1>2. /\ tab[t].at = "claim" /\ token' = Revoked({n}) /\ tab' = [tab EXCEPT ![t] = c]
      /\ UNCHANGED <<jar, hurt, cut>>
  BY DEF Claim, Go, history
<1>3. c.at = "mint" /\ c.sent = tab[t].sent /\ c.got = tab[t].got
  BY <1>1 DEF Calls
<1>4. n \in DOMAIN token /\ n \in Hold(JarOf[t])
  BY <1>1, <1>2 DEF TypeOK, Exchange, Hold
<1>5. Refreshing(t)
  BY <1>2 DEF Refreshing, Calling
<1>6. ASSUME NEW p \in Tabs \ {t}, JarOf[p] \notin hurt, NEW i \in Wanted(tab[p])
      PROVE  i \notin {n}
  <2>1. i \in Hold(JarOf[p]) /\ Refreshing(p) /\ JarOf[p] \in Jars
    BY <1>1, WantedHeld, AppType
  <2>2. JarOf[p] # JarOf[t]
    BY <1>1, <1>5, <1>6, <2>1 DEF Alone
  <2> QED
    BY <1>1, <1>4, <2>1, <2>2 DEF Home
<1>7. ASSUME NEW j \in Jars, jar[j] \in {n} PROVE j = JarOf[t]
  <2>1. n \in Hold(j)
    BY <1>4, <1>7 DEF Hold
  <2> QED
    BY <1>1, <1>4, <2>1 DEF Home
<1>8. Fair(c, token')
  BY <1>3 DEF Fair, Wanted
<1> HIDE DEF n, c
<1> QED
  BY <1>1, <1>2, <1>3, <1>5, <1>6, <1>7, <1>8, RevokeStep DEF n

(* A family revoked for reuse: what holds a token of it is the jar of the  *)
(* app that sent one, and that jar is hurt.                                *)
LEMMA WholeReuse ==
    ASSUME Whole, Inv', NEW t \in Tabs, RevokeFamily(t)
    PROVE  Whole'
PROOF
<1> DEFINE s == Family(tab[t].sent)
<1> DEFINE c == [tab[t] EXCEPT !.at = "bump"]
<1>1. TypeOK /\ Home /\ Alone /\ Sound /\ JarOf[t] \in Jars /\ tab[t] \in Calls
  BY AppType DEF Whole, Inv, Fits
<1>2. /\ tab[t].at = "reuse" /\ token' = Revoked(s) /\ tab' = [tab EXCEPT ![t] = c]
      /\ UNCHANGED <<jar, cut>> /\ hurt' = hurt \cup Holding(s)
  BY DEF RevokeFamily, Go
<1>3. c.at = "bump" /\ c.sent = tab[t].sent /\ c.got = tab[t].got
  BY <1>1 DEF Calls
<1>4. JarOf[t] \in hurt
  BY <1>1, <1>2 DEF Sound, Fair
<1>5. tab[t].sent \in DOMAIN token /\ tab[t].sent \in Hold(JarOf[t])
  BY <1>1, <1>2 DEF TypeOK, Exchange, Hold
<1>6. ASSUME NEW p \in Tabs \ {t}, JarOf[p] \notin hurt', NEW i \in Wanted(tab[p])
      PROVE  i \notin s
  <2>1. i \in Hold(JarOf[p]) /\ JarOf[p] \in Jars
    BY <1>1, WantedHeld, AppType
  <2>2. JarOf[p] # JarOf[t]
    BY <1>2, <1>4, <1>6
  <2>3. token[i].family # token[tab[t].sent].family
    BY <1>1, <1>5, <2>1, <2>2 DEF Home
  <2> QED
    BY <2>3 DEF Family
<1>7. \A j \in Jars \ hurt' : jar[j] \notin s
  BY <1>2 DEF Holding
<1>8. Refreshing(t) /\ hurt \subseteq hurt' /\ JarOf[t] \in hurt'
  BY <1>2, <1>4 DEF Refreshing, Calling
<1> HIDE DEF s, c
<1> QED
  BY <1>2, <1>3, <1>6, <1>7, <1>8, RevokeStep

(* A sign-out revokes the token of its jar: an app that relies on it is of *)
(* that jar too, and the jar is hurt.                                      *)
LEMMA WholeLogout ==
    ASSUME Whole, Inv', NEW t \in Tabs, Logout(t)
    PROVE  Whole'
PROOF
<1>1. TypeOK /\ Home /\ JarOf[t] \in Jars
  BY AppType DEF Whole, Inv
<1>2. /\ tab[t].at = "in" /\ tab' = [tab EXCEPT ![t] = Out] /\ UNCHANGED cut
      /\ Out.sent = 0 /\ Out.got = 0 /\ Out.at = "out" /\ ~Spending(t)
  BY DEF Logout, Out, Spending
<1>3. CASE UNCHANGED <<token, hurt>> /\ jar' = [jar EXCEPT ![JarOf[t]] = IF JarOf[t] \in Keychains THEN 0 ELSE @]
  <2>1. UNCHANGED jar \/ jar' = [jar EXCEPT ![JarOf[t]] = 0]
    BY <1>1, <1>3 DEF TypeOK
  <2> QED
    BY <1>2, <1>3, <2>1, LeaveStep
<1>4. CASE /\ token' = Revoked({jar[JarOf[t]]})
           /\ jar' = [jar EXCEPT ![JarOf[t]] = 0]
           /\ hurt' = IF \E p \in Sharing(t) : Calling(p) THEN hurt \cup {JarOf[t]} ELSE hurt
  <2> DEFINE n == jar[JarOf[t]]
  <2>1. (\A j \in Jars \ {JarOf[t]} : jar'[j] = jar[j]) /\ jar'[JarOf[t]] = 0
    BY <1>1, <1>4 DEF TypeOK
  <2>2. \A i \in DOMAIN token : i = n => i \in Hold(JarOf[t])
    BY DEF Hold
  <2>3. ASSUME NEW p \in Tabs \ {t}, JarOf[p] \notin hurt', NEW i \in Wanted(tab[p])
        PROVE  i \notin {n}
    <3>1. i \in Hold(JarOf[p]) /\ i \in DOMAIN token /\ Calling(p) /\ JarOf[p] \in Jars
      BY <1>1, WantedHeld, AppType DEF Refreshing
    <3>2. JarOf[p] # JarOf[t]
      BY <1>4, <2>3, <3>1 DEF Sharing
    <3> QED
      BY <1>1, <2>2, <3>1, <3>2 DEF Home
  <2>4. ASSUME NEW j \in Jars, jar'[j] = jar[j], jar[j] \in {n} PROVE n = 0
    <3>1. CASE j = JarOf[t]
      BY <2>1, <2>4, <3>1
    <3>2. CASE j # JarOf[t] /\ n # 0
      <4>1. n \in DOMAIN token
        BY <1>1, <3>2 DEF TypeOK
      <4>2. n \in Hold(j) /\ n \in Hold(JarOf[t])
        BY <2>4, <4>1 DEF Hold
      <4> QED
        BY <1>1, <3>2, <4>2 DEF Home
    <3> QED
      BY <3>1, <3>2
  <2>5. Fair(Out, token')
    BY <1>2 DEF Fair, Wanted
  <2>6. /\ token' = Revoked({n}) /\ hurt \subseteq hurt'
        /\ \A j \in Jars : jar'[j] = jar[j] /\ jar[j] \in {n} \ {0} => FALSE
    BY <1>4, <2>4
  <2> HIDE DEF n
  <2> QED
    BY <1>2, <2>1, <2>3, <2>5, <2>6, RevokeStep
<1> QED
  BY <1>3, <1>4 DEF Logout

(* Everything is revoked: whatever keeps or carries a token is hurt. *)
LEMMA WholeSweep ==
    ASSUME Whole, Inv', NEW t \in Tabs, RevokeAll(t)
    PROVE  Whole'
PROOF
<1> DEFINE s == DOMAIN token
<1>1. TypeOK /\ Home /\ JarOf[t] \in Jars
  BY AppType DEF Whole, Inv
<1>2. /\ tab[t].at = "sweep" /\ tab' = [tab EXCEPT ![t] = Out] /\ UNCHANGED cut
      /\ token' = Revoked(s) /\ hurt' = hurt \cup Holding(s) \cup Carrying(s)
      /\ jar' = [jar EXCEPT ![JarOf[t]] = 0]
      /\ Out.sent = 0 /\ Out.got = 0 /\ Out.at = "out" /\ ~Spending(t)
  BY DEF RevokeAll, Out, Spending
<1>3. (\A j \in Jars \ {JarOf[t]} : jar'[j] = jar[j]) /\ jar'[JarOf[t]] = 0
  BY <1>1, <1>2 DEF TypeOK
<1>4. ASSUME NEW p \in Tabs \ {t}, JarOf[p] \notin hurt', NEW i \in Wanted(tab[p])
      PROVE  i \notin s
  <2>1. tab[p].sent \in DOMAIN token
    BY <1>1, <1>4 DEF TypeOK, Wanted, Exchange
  <2>2. JarOf[p] \in Carrying(s)
    BY <2>1 DEF Carrying
  <2> QED
    BY <1>2, <1>4, <2>2
<1>5. ASSUME NEW j \in Jars \ hurt' PROVE jar[j] \notin s
  BY <1>2 DEF Holding
<1>6. Fair(Out, token') /\ hurt \subseteq hurt'
  BY <1>2 DEF Fair, Wanted
<1> HIDE DEF s
<1> QED
  BY <1>2, <1>3, <1>4, <1>5, <1>6, RevokeStep

(* The successor is of the family of the token it replaces, and good. *)
LEMMA WholeMint ==
    ASSUME Whole, Inv', NEW t \in Tabs, Mint(t)
    PROVE  Whole'
PROOF
<1> DEFINE n == Len(token) + 1
<1> DEFINE f == token[tab[t].sent].family
<1> DEFINE c == [tab[t] EXCEPT !.at = "user", !.got = n]
<1>1. TypeOK /\ TypeOK' /\ Home /\ Alone /\ Sound /\ Stocked /\ BareCut
      /\ JarOf[t] \in Jars /\ tab[t] \in Calls
  BY AppType DEF Whole, Inv, Fits
<1>2. /\ tab[t].at = "mint" /\ token' = Append(token, Fresh(f))
      /\ tab' = [tab EXCEPT ![t] = c] /\ UNCHANGED <<jar, hurt, cut>>
  BY DEF Mint, history
<1>3. c.at = "user" /\ c.sent = tab[t].sent /\ c.got = n
  BY <1>1, TokenList DEF Calls
<1>4. tab[t].sent \in DOMAIN token /\ f \in 1..n
  <2>1. tab[t].sent \in DOMAIN token /\ f \in DOMAIN token
    BY <1>1, <1>2 DEF TypeOK, Exchange
  <2> QED
    BY <1>1, <2>1, TokenList
<1>5. /\ n \in DOMAIN token' /\ token'[n].family = f /\ ~token'[n].revoked
      /\ Onward /\ \A i \in DOMAIN token : ~token'[i].revoked <=> Live(i)
  BY <1>1, <1>2, <1>4, AppendedProperties, AppendedOnward
<1>6. AppStep(t, c)
  BY <1>2, <1>5 DEF AppStep
<1>7. Refreshing(t) /\ Spending(t)
  BY <1>2 DEF Refreshing, Calling, Spending
<1>8. jar[JarOf[t]] \in {0} \cup DOMAIN token /\ \A j \in Jars : jar[j] \in {0} \cup DOMAIN token
  BY <1>1 DEF TypeOK
<1>9. f = token[tab[t].sent].family
  OBVIOUS
<1> HIDE DEF n, f, c
<1>10. Home'
  <2>1. tab[t].sent \in Hold(JarOf[t])
    BY <1>4 DEF Hold
  <2>2. ASSUME NEW i \in {jar'[JarOf[t]], c.sent, c.got} \ {0}
        PROVE  \E l \in Hold(JarOf[t]) : token[l].family = token'[i].family
    <3>1. CASE i = n
      BY <1>5, <1>9, <2>1, <3>1
    <3>2. CASE i = tab[t].sent
      BY <1>4, <1>5, <2>1, <3>2 DEF Onward
    <3>3. CASE i = jar[JarOf[t]]
      <4>1. i \in DOMAIN token
        BY <1>8, <2>2, <3>3
      <4>2. i \in Hold(JarOf[t])
        BY <3>3, <4>1 DEF Hold
      <4> QED
        BY <1>5, <4>1, <4>2 DEF Onward
    <3> QED
      BY <1>2, <1>3, <2>2, <3>1, <3>2, <3>3
  <2> QED
    BY <1>1, <1>3, <1>5, <1>6, <2>2, HomeStep
<1>11. Sound'
  <2>1. \A p \in Tabs \ {t} : \A i \in Wanted(tab[p]) : Live(i) => ~token'[i].revoked
    BY <1>1, <1>5, WantedHeld
  <2>2. Fair(c, token')
    BY <1>3, <1>5 DEF Fair, Wanted
  <2> QED
    BY <1>1, <1>6, <2>1, <2>2, SoundStep
<1>12. Alone'
  BY <1>1, <1>6, <1>7, AloneStep
<1>13. Stocked'
  <2>1. \A j \in Jars \ hurt' : jar'[j] = jar[j] /\ jar[j] # 0 /\ Live(jar[j]) =>
               \/ ~token'[jar[j]].revoked
               \/ j = JarOf[t] /\ c.at \in {"mint", "user", "granted"}
    BY <1>5, <1>8
  <2> QED
    BY <1>1, <1>3, <1>6, <2>1, StockedStep
<1>14. BareCut'
  BY <1>1, <1>2, <1>3, <1>6, BareStep
<1> QED
  BY <1>10, <1>11, <1>12, <1>13, <1>14 DEF Whole

(* A sign-in begins a family that nothing held is of, and if no app of the *)
(* jar is in a call nothing of an older family is left there to spend.     *)
LEMMA WholeLogin ==
    ASSUME Whole, Inv', NEW t \in Tabs, Login(t)
    PROVE  Whole'
PROOF
<1> DEFINE n == Len(token) + 1
<1> DEFINE c == In(version)
<1>1. TypeOK /\ TypeOK' /\ Home /\ Alone /\ Sound /\ Stocked /\ BareCut
      /\ JarOf[t] \in Jars /\ version \in Nat
  BY AppType DEF Whole, Inv, TypeOK
<1>2. /\ tab[t].at = "out" /\ token' = Append(token, Fresh(n))
      /\ tab' = [tab EXCEPT ![t] = c] /\ UNCHANGED cut
      /\ hurt' = IF \E p \in Sharing(t) : Calling(p) THEN hurt ELSE hurt \ {JarOf[t]}
      /\ (\A j \in Jars \ {JarOf[t]} : jar'[j] = jar[j]) /\ jar'[JarOf[t]] = n
  BY <1>1 DEF Login, TypeOK
<1>3. c.at = "in" /\ c.sent = 0 /\ c.got = 0 /\ c.access # NoAccess
  BY <1>1 DEF In, Out, NoAccess
<1>4. n \in 1..n /\ n \notin DOMAIN token /\ n # 0
  BY <1>1, TokenList
<1>5. /\ DOMAIN token' = DOMAIN token \cup {n} /\ token'[n].family = n /\ ~token'[n].revoked
      /\ Onward /\ \A i \in DOMAIN token : ~token'[i].revoked <=> Live(i)
  <2>1. DOMAIN token' = 1..n /\ DOMAIN token = 1..Len(token) /\ Len(token) \in Nat
    BY <1>1, <1>2, <1>4, AppendedProperties, TokenList
  <2> QED
    BY <1>1, <1>2, <1>4, <2>1, AppendedProperties, AppendedOnward
<1>6. \A j \in hurt \ hurt' : j = JarOf[t] /\ \A p \in Tabs : JarOf[p] = j => ~Calling(p)
  BY <1>2 DEF Sharing
<1>7. AppStep(t, c)
  BY <1>2, <1>5, <1>6 DEF AppStep
<1>8. \A j \in Jars : jar[j] \in {0} \cup DOMAIN token
  BY <1>1 DEF TypeOK
<1>9. tab'[t] = c /\ \A p \in Tabs \ {t} : tab'[p] = tab[p]
  BY <1>1, <1>2, OthersStay
<1> HIDE DEF n, c
<1>10. Home'
  <2>1. /\ \A p \in Tabs : tab[p].sent \in {0} \cup DOMAIN token
        /\ \A p \in Tabs : tab[p].got \in {0} \cup DOMAIN token
        /\ \A i \in DOMAIN token : token[i].family \in DOMAIN token
    BY <1>1 DEF TypeOK, Home
  <2>2. \A p \in Tabs : tab'[p].got \in {0} \cup DOMAIN token'
    BY <1>3, <1>5, <1>9, <2>1
  <2>3. 0 \notin DOMAIN token'
    BY <1>1, NoZero DEF TypeOK, Record
  <2>4. ASSUME NEW j \in Jars, NEW i \in Hold(j)'
        PROVE  \/ i = n /\ j = JarOf[t]
               \/ /\ i \in Hold(j) /\ token'[i].family = token[i].family
                  /\ token'[i].family # n
    <3>1. /\ i \in DOMAIN token' /\ i # 0
          /\ \/ jar'[j] = i
             \/ \E p \in Tabs : JarOf[p] = j /\ (tab'[p].sent = i \/ tab'[p].got = i)
      BY <2>3, <2>4 DEF Hold
    <3>2. CASE i \notin DOMAIN token
      <4>1. i = n
        BY <1>5, <3>1, <3>2
      <4>2. ~ \E p \in Tabs : tab'[p].sent = i \/ tab'[p].got = i
        BY <1>3, <1>9, <2>1, <3>1, <3>2
      <4>3. j = JarOf[t]
        BY <1>2, <1>8, <3>1, <3>2, <4>2
      <4> QED
        BY <4>1, <4>3
    <3>3. CASE i \in DOMAIN token
      <4>1. \/ jar[j] = i
            \/ \E p \in Tabs : JarOf[p] = j /\ (tab[p].sent = i \/ tab[p].got = i)
        BY <1>2, <1>3, <1>4, <1>9, <3>1, <3>3
      <4>2. token'[i].family = token[i].family /\ token'[i].family # n
        BY <1>4, <1>5, <2>1, <3>3 DEF Onward
      <4> QED
        BY <3>3, <4>1, <4>2 DEF Hold
    <3> QED
      BY <3>2, <3>3
  <2>5. ASSUME NEW j \in Jars, NEW k \in Jars, NEW i \in Hold(j)', NEW l \in Hold(k)',
               token'[i].family = token'[l].family
        PROVE  j = k
    <3>1. \/ i = n /\ j = JarOf[t]
          \/ /\ i \in Hold(j) /\ token'[i].family = token[i].family
             /\ token'[i].family # n
      BY <2>4
    <3>2. \/ l = n /\ k = JarOf[t]
          \/ /\ l \in Hold(k) /\ token'[l].family = token[l].family
             /\ token'[l].family # n
      BY <2>4
    <3> QED
      BY <1>1, <1>5, <2>5, <3>1, <3>2 DEF Home
  <2> QED
    BY <2>2, <2>5 DEF Home
<1>11. Sound'
  <2>1. \A p \in Tabs \ {t} : \A i \in Wanted(tab[p]) : Live(i) => ~token'[i].revoked
    BY <1>1, <1>5, WantedHeld
  <2>2. Fair(c, token')
    BY <1>3 DEF Fair, Wanted
  <2> QED
    BY <1>1, <1>7, <2>1, <2>2, SoundStep
<1>12. Alone'
  BY <1>1, <1>3, <1>7, AloneStep
<1>13. Stocked'
  <2>1. \A j \in Jars \ hurt' : jar'[j] = jar[j] /\ jar[j] # 0 /\ Live(jar[j]) =>
               \/ ~token'[jar[j]].revoked
               \/ j = JarOf[t] /\ c.at \in {"mint", "user", "granted"}
    BY <1>5, <1>8
  <2> QED
    BY <1>1, <1>2, <1>5, <1>7, <2>1, StockedStep
<1>14. BareCut'
  BY <1>1, <1>2, <1>3, <1>7, BareStep
<1> QED
  BY <1>10, <1>11, <1>12, <1>13, <1>14 DEF Whole

(* A token that ages changes nothing but its age. *)
LEMMA WholeAges ==
    ASSUME Whole, Inv', NEW i \in DOMAIN token, TokenExpires(i)
    PROVE  Whole'
PROOF
<1>1. TypeOK /\ Home /\ Alone /\ Sound /\ Stocked /\ BareCut
  BY DEF Whole, Inv
<1>2. UNCHANGED <<tab, jar, hurt, cut>> /\ token' = [token EXCEPT ![i].expired = TRUE]
  BY DEF TokenExpires, history
<1>3. /\ DOMAIN token' = DOMAIN token
      /\ \A k \in DOMAIN token :
            /\ token'[k].family = token[k].family /\ token'[k].revoked = token[k].revoked
            /\ token[k].expired => token'[k].expired
  BY <1>1, <1>2, TokenList DEF Record
<1>4. \A j : Hold(j)' = Hold(j)
  BY <1>2, <1>3 DEF Hold
<1>5. Home'
  <2>1. \A j : Hold(j) \subseteq DOMAIN token
    BY DEF Hold
  <2> QED
    BY <1>1, <1>2, <1>3, <1>4, <2>1 DEF Home
<1>6. Alone' /\ BareCut'
  BY <1>1, <1>2 DEF Alone, BareCut, Refreshing, Calling, Bare
<1>7. Sound'
  <2>1. ASSUME NEW p \in Tabs, JarOf[p] \notin hurt PROVE Fair(tab[p], token')
    <3>1. Fair(tab[p], token) /\ tab[p].sent \in {0} \cup DOMAIN token
      BY <1>1, <2>1 DEF Sound, TypeOK
    <3>2. \A k \in Wanted(tab[p]) : k \in DOMAIN token
      BY <1>1, WantedHeld
    <3> QED
      BY <1>3, <3>1, <3>2 DEF Fair
  <2> QED
    BY <1>2, <2>1 DEF Sound, Fair, Wanted
<1>8. Stocked'
  <2>1. \A j \in Jars : jar[j] \in {0} \cup DOMAIN token
    BY <1>1 DEF TypeOK
  <2> QED
    BY <1>1, <1>2, <1>3, <2>1 DEF Stocked, Live, Spending
<1> QED
  BY <1>5, <1>6, <1>7, <1>8 DEF Whole

(* At first nobody holds a token, and no app is in a call. *)
LEMMA InitWhole == Init => Whole
PROOF
<1> SUFFICES ASSUME Init PROVE Whole
  OBVIOUS
<1>1. Inv /\ token = <<>> /\ DOMAIN token = {} /\ \A j \in Jars : jar[j] = 0
  BY InitInv DEF Init
<1>2. \A t \in Tabs : tab[t].at = "out" /\ tab[t].got = 0
  BY DEF Init, Out
<1>3. Home
  BY <1>1, <1>2 DEF Home, Hold
<1>4. Alone /\ BareCut
  BY <1>2 DEF Alone, BareCut, Refreshing, Calling, Bare
<1>5. Sound
  BY <1>2 DEF Sound, Fair, Wanted
<1>6. Stocked
  BY <1>1 DEF Stocked
<1> QED
  BY <1>1, <1>3, <1>4, <1>5, <1>6 DEF Whole

(* No step disturbs any of it. *)
LEMMA WholeStep ==
    ASSUME Whole, [Next]_vars
    PROVE  Whole'
PROOF
<1>0. Inv'
  BY TypeStep, FamilyStep DEF Whole, Inv
<1>1. CASE UNCHANGED vars
  BY <1>1 DEF vars, server, history, local, Whole, Inv, TypeOK, OneLivePerFamily, Home, Hold,
     Alone, Sound, Fair, Wanted, Stocked, BareCut, Refreshing, Calling, Spending, Bare, Live,
     Family
<1>2. ASSUME NEW t \in Tabs, Rotate(t) PROVE Whole'
  <2>1. CASE Claim(t)
    BY <1>0, <2>1, WholeClaim, WholeServes
  <2> QED
    BY <1>0, <1>2, <2>1, WholeServes, WholeMint, WholeReuse DEF Rotate
<1>3. ASSUME NEW t \in Tabs, App(t) PROVE Whole'
  BY <1>0, <1>3, WholeLogin, WholeStarts, WholeServes, WholeLeaves DEF App
<1>4. ASSUME NEW t \in Tabs, SignOuts(t) PROVE Whole'
  BY <1>0, <1>4, WholeLogout, WholeStarts, WholeSweep, WholeLeaves DEF SignOuts
<1>5. ASSUME NEW i \in DOMAIN token, TokenExpires(i) PROVE Whole'
  BY <1>0, <1>5, WholeAges
<1> QED
  BY <1>1, <1>2, <1>3, <1>4, <1>5 DEF Next

(* All of that holds together in every reachable state: a token is good    *)
(* for as long as it lies with one device, that no two apps spend at once, *)
(* and whose answers arrive (rotateRefreshToken, detectReuse).             *)
THEOREM WholeHolds == Spec => []Whole
PROOF
<1> QED
  BY InitWhole, WholeStep, PTL DEF Spec

(* A token is taken for reused only where the jar of the app is hurt.      *)
THEOREM ReuseCaused == Spec => []ReuseHasCause
PROOF
<1>1. Whole => ReuseHasCause
  BY DEF Whole, Sound, Fair, ReuseHasCause
<1> QED
  BY <1>1, WholeHolds, PTL

-----------------------------------------------------------------------------
(* What a step of any app but its own, or of time, leaves of an app.       *)
LEMMA OwnStep ==
    ASSUME TypeOK, NEW t \in Tabs, Next, tab'[t] # tab[t]
    PROVE  Rotate(t) \/ App(t) \/ SignOuts(t)
PROOF
<1>1. ASSUME NEW i \in DOMAIN token, TokenExpires(i) PROVE FALSE
  BY <1>1 DEF TokenExpires
<1>2. ASSUME NEW p \in Tabs \ {t}, Rotate(p) \/ App(p) \/ SignOuts(p) PROVE FALSE
  <2> USE <1>2 DEF TypeOK
  <2>1. CASE Rotate(p)
    BY <2>1 DEF Rotate, Find, Claim, Mint, LoadUser, RevokeFamily, Bump, Go
  <2>2. CASE App(p)
    <3>1. ASSUME NEW from, StartRefresh(p, from) PROVE tab'[t] = tab[t]
      BY <3>1 DEF StartRefresh
    <3>2. ASSUME NEW offered, SignOut(p, offered) PROVE tab'[t] = tab[t]
      BY <3>2 DEF SignOut
    <3> QED
      BY <2>2, <3>1, <3>2 DEF App, Login, AccessExpires, Work, Sync, Call, Open, Granted,
         Refused, NoAnswer, Reload, CallBare
  <2>3. CASE SignOuts(p)
    BY <2>3 DEF SignOuts, Logout, LogoutAll, RaiseVersion, RevokeAll, LogoutAllLost, Go
  <2> QED
    BY <1>2, <2>1, <2>2, <2>3
<1> QED
  BY <1>1, <1>2 DEF Next

(* That the server was out of reach is not forgotten. *)
LEMMA CutGrows ==
    ASSUME NEW t \in Tabs, Rotate(t) \/ App(t) \/ SignOuts(t)
    PROVE  cut \subseteq cut'
PROOF
<1> USE DEF history
<1>1. CASE Rotate(t)
  BY <1>1 DEF Rotate, Find, Claim, Mint, LoadUser, RevokeFamily, Bump
<1>2. CASE App(t)
  BY <1>2 DEF App, Login, AccessExpires, Work, Sync, Call, Open, StartRefresh, Granted,
     Refused, NoAnswer, Reload, CallBare
<1>3. CASE SignOuts(t)
  BY <1>3 DEF SignOuts, Logout, LogoutAll, RaiseVersion, RevokeAll, LogoutAllLost
<1> QED
  BY <1>1, <1>2, <1>3

(* An app in an exchange, or bare, is out after a step of its own only.    *)
LEMMA SignOutStep ==
    ASSUME Whole, [Next]_vars, NEW t \in Tabs, Refreshing(t) \/ Bare(t), tab'[t] = Out
    PROVE  \/ JarOf[t] \notin cached \ cached'
           \/ JarOf[t] \in hurt \cup cut' \/ tab[t].sent = 0
           \/ token[tab[t].sent].expired
PROOF
<1>0. TypeOK /\ Sound /\ BareCut /\ tab[t] \in Calls
  BY AppType DEF Whole, Inv, Fits
<1>1. tab[t] # Out
  BY DEF Refreshing, Calling, Bare, Out
<1>2. Rotate(t) \/ App(t) \/ SignOuts(t)
  BY <1>0, <1>1, OwnStep DEF vars
<1>3. Out.at = "out" /\ \A v : In(v).at = "in"
  BY DEF Out, In
<1>4. tab'[t].at = "out"
  BY <1>3
<1>5. ASSUME NEW c, tab' = [tab EXCEPT ![t] = c], c.at # "out" PROVE FALSE
  BY <1>0, <1>4, <1>5, OthersStay
<1>6. ASSUME NEW label, Go(t, label), label # "out" PROVE FALSE
  <2>1. [tab[t] EXCEPT !.at = label].at # "out"
    BY <1>0, <1>6 DEF Calls
  <2> QED
    BY <1>5, <1>6, <2>1 DEF Go
<1>7. CASE Rotate(t)
  <2>1. CASE Mint(t)
    <3>1. tab' = [tab EXCEPT ![t] = [tab[t] EXCEPT !.at = "user", !.got = Len(token) + 1]]
      BY <2>1 DEF Mint
    <3>2. [tab[t] EXCEPT !.at = "user", !.got = Len(token) + 1].at # "out"
      BY <1>0 DEF Calls
    <3> QED
      BY <1>5, <3>1, <3>2
  <2>2. CASE LoadUser(t)
    <3>1. tab' = [tab EXCEPT ![t] = [tab[t] EXCEPT !.at = "granted", !.seen = version]]
      BY <2>2 DEF LoadUser
    <3>2. [tab[t] EXCEPT !.at = "granted", !.seen = version].at # "out"
      BY <1>0 DEF Calls
    <3> QED
      BY <1>5, <3>1, <3>2
  <2> QED
    BY <1>6, <1>7, <2>1, <2>2 DEF Rotate, Find, Claim, RevokeFamily, Bump
<1>8. CASE Refused(t)
  <2>1. tab[t].at = "refused"
    BY <1>8 DEF Refused
  <2>2. JarOf[t] \notin hurt => Fair(tab[t], token)
    BY <1>0 DEF Sound
  <2> QED
    BY <2>1, <2>2 DEF Fair
<1>9. CASE NoAnswer(t)
  BY <1>9 DEF NoAnswer
<1>10. CASE Reload(t)
  BY <1>10 DEF Reload, local
<1>11. CASE Bare(t)
  <2>1. JarOf[t] \in cut
    BY <1>0, <1>11 DEF BareCut
  <2>2. cut \subseteq cut'
    BY <1>2, CutGrows
  <2> QED
    BY <2>1, <2>2
<1>12. CASE Granted(t)
  BY <1>3, <1>5, <1>12 DEF Granted
<1>13. CASE Refreshing(t) /\ App(t)
  <2>1. tab[t].at \notin {"out", "in"} /\ ~Bare(t) /\ Calling(t)
    BY <1>13 DEF Refreshing, Calling, Bare
  <2> QED
    BY <1>8, <1>9, <1>10, <1>12, <1>13, <2>1
    DEF App, Login, AccessExpires, Work, Sync, Valid, Call, Open, CallBare
<1>14. CASE Refreshing(t) /\ SignOuts(t)
  BY <1>14
  DEF Refreshing, Calling, SignOuts, Logout, LogoutAll, Valid, RaiseVersion, RevokeAll, LogoutAllLost
<1> QED
  BY <1>2, <1>7, <1>11, <1>13, <1>14

(* A device gives up its user, against the will of that user, for cause.   *)
THEOREM SignedOut == Spec => SignedOutForCause
PROOF
<1>1. Whole /\ [Next]_vars =>
         [\A t \in Tabs : Refreshing(t) \/ Bare(t) =>
           \/ tab'[t] # Out \/ JarOf[t] \notin cached \ cached'
           \/ JarOf[t] \in hurt \cup cut' \/ tab[t].sent = 0
           \/ token[tab[t].sent].expired]_vars
  BY SignOutStep
<1> QED
  BY <1>1, WholeHolds, PTL DEF Spec, SignedOutForCause
=============================================================================
