---------------------------- MODULE AdminProofs -----------------------------
(***************************************************************************)
(* Theorems about AdminConsole, AdminCaches and EvalRuns: for every number *)
(* of browsers, requests, faults and all lifetimes of tokens; for every    *)
(* number of admins, readers, versions and failed calls; and for every set *)
(* of cases.                                                               *)
(***************************************************************************)
EXTENDS AdminConsole, AdminCaches, EvalRuns, FiniteSetTheorems, TLAPS

-----------------------------------------------------------------------------
(* AdminConsole: types, then that whatever is accepted is warranted. *)

(***************************************************************************)
(* What the fields that change keep of their types.                        *)
(***************************************************************************)
LEMMA Bounds ==
  /\ AccessTTL \in Nat /\ RefreshTTL \in Nat /\ LastTick \in Nat /\ MaxRequests \in Nat
  /\ MaxAdminFaults \in Nat
  /\ AccessTTL >= 1 /\ Long = AccessTTL + 1 /\ Long \in Nat /\ NoStep = -1 /\ NoSecret = -1
BY ConsoleAssumption DEF Long, NoStep, NoSecret

LEMMA FaultCounted ==
  ASSUME adminFaults \in 0 .. MaxAdminFaults, AdminFault \/ NoAdminFault
  PROVE  adminFaults' \in 0 .. MaxAdminFaults
BY Bounds DEF AdminFault, NoAdminFault

LEMMA IdleIsRequest == NoRequest \in ConRequests
BY Bounds DEF NoRequest, ConRequests, ConStages, Numbers

LEMMA RequestMoves ==
  ASSUME NEW r \in ConRequests, NEW at \in ConStages
  PROVE  /\ [r EXCEPT !.at = at] \in ConRequests
         /\ [r EXCEPT !.at = at, !.mfa = TRUE] \in ConRequests
         /\ \A roles \in SUBSET AdminRoles :
              [r EXCEPT !.at = at, !.roles = roles] \in ConRequests
BY DEF ConRequests

\* A request that begins is of the type, if what it starts from is.
LEMMA RequestBegins ==
  ASSUME ConsoleTypeOK, NEW c \in Consoles, NEW r \in ConRequests, ConBegins(c, r)
  PROVE  ConsoleTypeOK'
<1>1. [r EXCEPT !.n = requests + 1, !.began = tick] \in ConRequests
  <2>1. requests + 1 \in Numbers
    BY Bounds DEF ConBegins, ConsoleTypeOK, Numbers
  <2>2. tick \in 0 .. LastTick
    BY DEF ConsoleTypeOK
  <2> QED
    BY <2>1, <2>2 DEF ConRequests
<1>2. con' \in [Consoles -> ConRequests]
  BY <1>1 DEF ConBegins, ConsoleTypeOK
<1>3. crossed' \in BOOLEAN
  BY Zenon DEF ConBegins
<1>4. requests' \in 0 .. MaxRequests
  BY Bounds DEF ConBegins, ConsoleTypeOK
<1> QED
  BY <1>2, <1>3, <1>4 DEF ConBegins, NoAdminFault, ConsoleTypeOK

LEMMA ConsoleTypeStep == ConsoleTypeOK /\ [ConsoleNext]_consoleVars => ConsoleTypeOK'
<1> SUFFICES ASSUME ConsoleTypeOK, [ConsoleNext]_consoleVars PROVE ConsoleTypeOK'
  OBVIOUS
<1>1. ASSUME NEW c \in Consoles, LoginReads(c) PROVE ConsoleTypeOK'
  <2>1. ASSUME NEW at \in ConStages, NEW step \in NoStep .. LastTick,
               NEW using \in SUBSET Factors, NEW rest \in SUBSET Codes
        PROVE  /\ SignsIn(at) \in ConRequests
               /\ [SignsIn(at) EXCEPT !.step = step] \in ConRequests
               /\ [SignsIn(at) EXCEPT !.using = using, !.rest = rest] \in ConRequests
    BY IdleIsRequest DEF SignsIn, ConRequests, ConsoleTypeOK, AdminAccounts
  <2>2. CASE ConBegins(c, SignsIn("issuing"))
    <3>1. SignsIn("issuing") \in ConRequests
      BY IdleIsRequest DEF SignsIn, ConRequests, ConsoleTypeOK, AdminAccounts, ConStages
    <3> QED
      BY <2>2, <3>1, RequestBegins
  <2>3. ASSUME NEW step \in {tick - 1, tick} \cap Nat,
               ConBegins(c, [SignsIn("marking") EXCEPT !.step = step])
        PROVE  ConsoleTypeOK'
    <3>1. step \in NoStep .. LastTick
      BY Bounds DEF ConsoleTypeOK
    <3>2. [SignsIn("marking") EXCEPT !.step = step] \in ConRequests
      BY <3>1, IdleIsRequest DEF SignsIn, ConRequests, ConsoleTypeOK, AdminAccounts, ConStages
    <3> QED
      BY <2>3, <3>2, RequestBegins
  <2>4. ASSUME NEW code \in acc.codes,
               ConBegins(c, [SignsIn("consuming") EXCEPT
                               !.using = {code}, !.rest = acc.codes \ {code}])
        PROVE  ConsoleTypeOK'
    <3>1. acc.codes \subseteq Codes /\ {code} \subseteq Factors
      BY DEF ConsoleTypeOK, AdminAccounts, Factors
    <3>2. [SignsIn("consuming") EXCEPT
             !.using = {code}, !.rest = acc.codes \ {code}] \in ConRequests
      BY <3>1, IdleIsRequest DEF SignsIn, ConRequests, ConsoleTypeOK, AdminAccounts, ConStages
    <3> QED
      BY <2>4, <3>2, RequestBegins
  <2> QED
    BY <1>1, <2>2, <2>3, <2>4 DEF LoginReads
<1>2. ASSUME NEW c \in Consoles, LoginMarks(c) PROVE ConsoleTypeOK'
  <2>1. con[c].step \in NoStep .. LastTick
    BY DEF ConsoleTypeOK, ConRequests
  <2>2. acc' \in AdminAccounts
    BY <1>2, <2>1 DEF LoginMarks, ConsoleTypeOK, AdminAccounts
  <2>3. con' \in [Consoles -> ConRequests]
    BY <1>2, IdleIsRequest DEF LoginMarks, ConEnds, ConsoleTypeOK, ConRequests, ConStages
  <2>4. adminFaults' \in 0 .. MaxAdminFaults
    BY <1>2, FaultCounted DEF LoginMarks, ConsoleTypeOK
  <2> QED
    BY <1>2, <2>2, <2>3, <2>4 DEF LoginMarks, ConsoleTypeOK
<1>3. ASSUME NEW c \in Consoles, LoginConsumes(c) PROVE ConsoleTypeOK'
  <2>1. con[c].rest \in SUBSET Codes
    BY DEF ConsoleTypeOK, ConRequests
  <2>2. acc' \in AdminAccounts
    BY <1>3, <2>1 DEF LoginConsumes, Consumes, ConsoleTypeOK, AdminAccounts
  <2>3. con' \in [Consoles -> ConRequests]
    <3>1. [con[c] EXCEPT !.at = "issuing", !.mfa = TRUE] \in ConRequests
      BY RequestMoves DEF ConsoleTypeOK, ConStages
    <3>2. con' = [con EXCEPT ![c] = [con[c] EXCEPT !.at = "issuing", !.mfa = TRUE]]
      BY <1>3 DEF LoginConsumes, Consumes, ConsoleTypeOK
    <3> QED
      BY <3>1, <3>2 DEF ConsoleTypeOK
  <2>4. adminFaults' \in 0 .. MaxAdminFaults
    BY <1>3, FaultCounted DEF LoginConsumes, Consumes, ConsoleTypeOK
  <2> QED
    BY <1>3, <2>2, <2>3, <2>4 DEF LoginConsumes, Consumes, ConsoleTypeOK
<1>4. ASSUME NEW c \in Consoles, Issues(c) PROVE ConsoleTypeOK'
  <2>1. con[c] \in ConRequests
    BY DEF ConsoleTypeOK
  <2>2. con' \in [Consoles -> ConRequests]
    BY <1>4, IdleIsRequest DEF Issues, ConEnds, ConsoleTypeOK
  <2>3. valid' \subseteq [n : Numbers, made : 0 .. LastTick]
    BY <1>4, <2>1 DEF Issues, ConsoleTypeOK, ConRequests
  <2>4. access' \in [Consoles -> AccessTokens]
    <3>1. [made |-> tick, roles |-> con[c].roles, mfa |-> con[c].mfa] \in AccessTokens
      BY <2>1, Bounds DEF AccessTokens, ConRequests, ConsoleTypeOK
    <3> QED
      BY <3>1, <1>4 DEF Issues, ConsoleTypeOK
  <2>5. shown' \in -Long .. LastTick
    BY <1>4, <2>1, Bounds DEF Issues, ConRequests, ConsoleTypeOK
  <2>6. spent' \subseteq Factors
    BY <1>4, <2>1 DEF Issues, ConRequests, ConsoleTypeOK
  <2>7. twice' \in BOOLEAN
    BY <1>4, Zenon DEF Issues, ConsoleTypeOK
  <2>8. adminFaults' \in 0 .. MaxAdminFaults
    BY <1>4, FaultCounted DEF Issues, ConsoleTypeOK
  <2> QED
    BY <1>4, <2>2, <2>3, <2>4, <2>5, <2>6, <2>7, <2>8 DEF Issues, ConsoleTypeOK
<1>5. ASSUME NEW c \in Consoles, RefreshFinds(c) PROVE ConsoleTypeOK'
  <2>1. PICK t \in valid :
          ConBegins(c, [NoRequest EXCEPT !.at = "reading", !.using = {RefreshOf(t.n)}])
    BY <1>5 DEF RefreshFinds
  <2>2. {RefreshOf(t.n)} \subseteq Factors
    BY DEF ConsoleTypeOK, Factors
  <2>3. [NoRequest EXCEPT !.at = "reading", !.using = {RefreshOf(t.n)}] \in ConRequests
    BY <2>2, IdleIsRequest DEF ConRequests, ConStages
  <2> QED
    BY <2>1, <2>3, RequestBegins
<1>6. ASSUME NEW c \in Consoles, RefreshReads(c) PROVE ConsoleTypeOK'
  <2>1. con' \in [Consoles -> ConRequests]
    BY <1>6, IdleIsRequest
       DEF RefreshReads, FoundAdmin, ConEnds, ConsoleTypeOK, ConRequests, ConStages, AdminAccounts
  <2>2. adminFaults' \in 0 .. MaxAdminFaults
    BY <1>6, FaultCounted DEF RefreshReads, FoundAdmin, ConsoleTypeOK
  <2> QED
    BY <1>6, <2>1, <2>2 DEF RefreshReads, FoundAdmin, ConsoleTypeOK
<1>7. ASSUME NEW c \in Consoles, Revokes(c) PROVE ConsoleTypeOK'
  <2>1. con' \in [Consoles -> ConRequests]
    BY <1>7, IdleIsRequest DEF Revokes, ConGoes, ConEnds, ConsoleTypeOK, ConRequests, ConStages
  <2>2. adminFaults' \in 0 .. MaxAdminFaults
    BY <1>7, FaultCounted DEF Revokes, ConsoleTypeOK
  <2>3. valid' \subseteq [n : Numbers, made : 0 .. LastTick]
    BY <1>7 DEF Revokes, ConsoleTypeOK
  <2> QED
    BY <1>7, <2>1, <2>2, <2>3 DEF Revokes, ConsoleTypeOK
<1>8. ASSUME NEW c \in Consoles, EnrollReads(c) PROVE ConsoleTypeOK'
  <2>1. [NoRequest EXCEPT !.at = "enrolling"] \in ConRequests
    BY IdleIsRequest, RequestMoves DEF ConStages
  <2> QED
    BY <1>8, <2>1, RequestBegins DEF EnrollReads
<1>9. ASSUME NEW c \in Consoles, EnrollWrites(c) PROVE ConsoleTypeOK'
  <2>1. con[c].n \in Numbers
    BY DEF ConsoleTypeOK, ConRequests
  <2>2. [acc EXCEPT !.secret = con[c].n, !.codes = {con[c].n} \X CodeNames] \in AdminAccounts
    <3>1. {con[c].n} \X CodeNames \in SUBSET Codes
      BY <2>1 DEF Codes
    <3>2. con[c].n \in NoSecret .. MaxRequests
      BY <2>1, Bounds DEF Numbers
    <3> QED
      BY <3>1, <3>2 DEF ConsoleTypeOK, AdminAccounts
  <2>3. con' \in [Consoles -> ConRequests]
    BY <1>9, IdleIsRequest DEF EnrollWrites, ConEnds, ConsoleTypeOK
  <2>4. adminFaults' \in 0 .. MaxAdminFaults
    BY <1>9, FaultCounted DEF EnrollWrites, ConsoleTypeOK
  <2>5. acc' \in AdminAccounts
    BY <1>9, <2>2 DEF EnrollWrites, ConsoleTypeOK
  <2> QED
    BY <1>9, <2>3, <2>4, <2>5 DEF EnrollWrites, ConsoleTypeOK
<1>10. CASE Operates
  <2>1. acc' \in AdminAccounts
    <3>1. [acc EXCEPT !.disabled = TRUE] \in AdminAccounts
      BY DEF ConsoleTypeOK, AdminAccounts
    <3>2. "readonly" \in AdminRoles
      BY DEF AdminRoles, RolePermissions
    <3>3. [acc EXCEPT !.roles = {"readonly"}] \in AdminAccounts
      BY <3>2 DEF ConsoleTypeOK, AdminAccounts
    <3>4. DisableMFA \in AdminAccounts
      <4>1. NoSecret \in NoSecret .. MaxRequests
        BY Bounds
      <4> HIDE DEF NoSecret
      <4> QED
        BY <4>1 DEF DisableMFA, ConsoleTypeOK, AdminAccounts
    <3> QED
      BY <1>10, <3>1, <3>3, <3>4 DEF Operates
  <2>2. was' \in [roles : SUBSET AdminRoles, at : -Long .. LastTick]
    BY <1>10, Bounds DEF Operates, ConsoleTypeOK, AdminAccounts
  <2> QED
    BY <1>10, <2>1, <2>2 DEF Operates, NoAdminFault, ConsoleTypeOK
<1>11. CASE ConsoleTick
  BY <1>11, Bounds DEF ConsoleTick, NoAdminFault, ConsoleTypeOK
<1>12. CASE UNCHANGED consoleVars
  BY <1>12 DEF consoleVars, ConsoleTypeOK
<1> QED
  BY <1>1, <1>2, <1>3, <1>4, <1>5, <1>6, <1>7, <1>8, <1>9, <1>10, <1>11, <1>12
     DEF ConsoleNext, ConsoleStep

(***************************************************************************)
(* The account, the requests and the tokens keep their types.              *)
(***************************************************************************)
THEOREM ConsoleTypeCorrect == ConsoleSpec => []ConsoleTypeOK
<1>1. ConsoleInit => ConsoleTypeOK
  <2> SUFFICES ASSUME ConsoleInit PROVE ConsoleTypeOK
    OBVIOUS
  <2>1. acc \in AdminAccounts
    <3>1. PICK r \in StartRoles :
            acc = [roles |-> r, disabled |-> FALSE, secret |-> 0, codes |-> {0} \X CodeNames,
                   lastStep |-> NoStep]
      BY DEF ConsoleInit
    <3>2. r \in SUBSET AdminRoles
      BY ConsoleAssumption DEF AdminRoles, RolePermissions
    <3>3. {0} \X CodeNames \in SUBSET Codes
      BY Bounds DEF Codes, Numbers
    <3>4. 0 \in NoSecret .. MaxRequests /\ NoStep \in NoStep .. LastTick
      BY Bounds
    <3> QED
      BY <3>1, <3>2, <3>3, <3>4 DEF AdminAccounts
  <2>2. con \in [Consoles -> ConRequests]
    BY IdleIsRequest DEF ConsoleInit
  <2>3. access \in [Consoles -> AccessTokens]
    BY Bounds DEF ConsoleInit, NoToken, AccessTokens
  <2>4. was \in [roles : SUBSET AdminRoles, at : -Long .. LastTick]
    BY Bounds DEF ConsoleInit
  <2>5. shown \in -Long .. LastTick /\ tick \in 0 .. LastTick /\ requests \in 0 .. MaxRequests
    BY Bounds DEF ConsoleInit
  <2>6. adminFaults \in 0 .. MaxAdminFaults
    BY Bounds DEF ConsoleInit
  <2>7. twice \in BOOLEAN /\ crossed \in BOOLEAN
    BY Zenon DEF ConsoleInit
  <2> QED
    BY <2>1, <2>2, <2>3, <2>4, <2>5, <2>6, <2>7 DEF ConsoleInit, ConsoleTypeOK
<1> QED
  BY <1>1, ConsoleTypeStep, PTL DEF ConsoleSpec

-----------------------------------------------------------------------------
(***************************************************************************)
(* What the roles in a request or a token owe the account: they are its    *)
(* roles, or were when the operator acted, not before `when`.              *)
(***************************************************************************)
Had(roles, when) ==
  \/ ~acc.disabled /\ roles = acc.roles
  \/ was.at >= when /\ roles = was.roles

Deciding == {"marking", "consuming", "issuing", "revoking"}

OperatedOnce == IF was.at = -Long THEN ~acc.disabled ELSE was.at \in 0 .. tick

RequestHad(c) ==
  /\ Busy(c) => con[c].began <= tick /\ tick <= con[c].began + 1
  /\ con[c].at \in Deciding => Had(con[c].roles, con[c].began)

TokenHad(c) ==
  access[c].made # -Long =>
    /\ access[c].made \in 0 .. tick
    /\ Had(access[c].roles, access[c].made - 1)
    /\ access[c].mfa => shown >= access[c].made - 1

ConsoleInv ==
  /\ ConsoleTypeOK /\ OperatedOnce
  /\ \A c \in Consoles : RequestHad(c) /\ TokenHad(c)

\* Only the operator takes roles or disables the account.
LEMMA AccountStands ==
  ASSUME ConsoleTypeOK, ~Operates, [ConsoleNext]_consoleVars
  PROVE  acc'.disabled = acc.disabled /\ acc'.roles = acc.roles /\ was' = was
<1>1. acc \in AdminAccounts
  BY DEF ConsoleTypeOK
<1>2. ASSUME NEW c \in Consoles, LoginMarks(c)
      PROVE  acc'.disabled = acc.disabled /\ acc'.roles = acc.roles /\ was' = was
  BY <1>1, <1>2 DEF LoginMarks, AdminAccounts
<1>3. ASSUME NEW c \in Consoles, LoginConsumes(c)
      PROVE  acc'.disabled = acc.disabled /\ acc'.roles = acc.roles /\ was' = was
  BY <1>1, <1>3 DEF LoginConsumes, Consumes, AdminAccounts
<1>4. ASSUME NEW c \in Consoles, EnrollWrites(c)
      PROVE  acc'.disabled = acc.disabled /\ acc'.roles = acc.roles /\ was' = was
  BY <1>1, <1>4 DEF EnrollWrites, AdminAccounts
<1>5. ASSUME NEW c \in Consoles,
             \/ LoginReads(c) \/ Issues(c) \/ RefreshFinds(c) \/ RefreshReads(c)
             \/ Revokes(c) \/ EnrollReads(c)
      PROVE  acc' = acc /\ was' = was
  BY <1>5 DEF LoginReads, Issues, RefreshFinds, RefreshReads, FoundAdmin, Revokes, EnrollReads,
              ConBegins
<1>6. ConsoleTick \/ UNCHANGED consoleVars => acc' = acc /\ was' = was
  BY DEF ConsoleTick, consoleVars
<1> QED
  BY <1>2, <1>3, <1>4, <1>5, <1>6 DEF ConsoleNext, ConsoleStep

\* No step takes it back.
LEMMA HadStays ==
  ASSUME ConsoleTypeOK, OperatedOnce, [ConsoleNext]_consoleVars,
         NEW roles, NEW when \in Int, -1 <= when, when <= tick, Had(roles, when)
  PROVE  Had(roles, when)'
<1>1. CASE Operates
  <2>1. was.at = -Long /\ ~(was.at >= when)
    BY <1>1, Bounds DEF Operates
  <2>2. roles = acc.roles
    BY <2>1 DEF Had
  <2>3. was'.roles = acc.roles /\ was'.at = tick
    BY <1>1 DEF Operates
  <2> QED
    BY <2>2, <2>3, Bounds DEF Had, ConsoleTypeOK
<1>2. CASE ~Operates
  <2>1. acc'.disabled = acc.disabled /\ acc'.roles = acc.roles /\ was' = was
    BY <1>2, AccountStands
  <2> QED
    BY <2>1 DEF Had
<1> QED
  BY <1>1, <1>2

LEMMA OperatedOnceStep ==
  ConsoleTypeOK /\ OperatedOnce /\ [ConsoleNext]_consoleVars => OperatedOnce'
<1> SUFFICES ASSUME ConsoleTypeOK, OperatedOnce, [ConsoleNext]_consoleVars
             PROVE  OperatedOnce'
  OBVIOUS
<1>1. CASE Operates
  <2>1. was'.at = tick /\ tick' = tick
    BY <1>1 DEF Operates
  <2>2. tick \in Nat /\ tick # -Long
    BY Bounds DEF ConsoleTypeOK
  <2>3. was'.at \in 0 .. tick' /\ was'.at # -Long
    BY <2>1, <2>2
  <2> QED
    BY <2>3 DEF OperatedOnce
<1>2. CASE ~Operates
  <2>1. acc'.disabled = acc.disabled /\ was' = was
    BY <1>2, AccountStands
  <2>2. tick' \in {tick, tick + 1}
    BY <1>2 DEF ConsoleNext, ConsoleStep, consoleVars, LoginReads, LoginMarks, LoginConsumes,
                Consumes, Issues, RefreshFinds, RefreshReads, FoundAdmin, Revokes, EnrollReads,
                EnrollWrites, ConsoleTick, ConBegins
  <2> QED
    BY <2>1, <2>2, Bounds DEF OperatedOnce, ConsoleTypeOK
<1> QED
  BY <1>1, <1>2

\* A request that is not touched, while the clock stands still.
LEMMA RequestKept ==
  ASSUME ConsoleInv, [ConsoleNext]_consoleVars, NEW d \in Consoles,
         con'[d].at \in Deciding => con[d].at \in Deciding,
         Busy(d)' => Busy(d),
         con'[d].began = con[d].began, con'[d].roles = con[d].roles, tick' = tick
  PROVE  RequestHad(d)'
<1>1. con[d].began \in Nat /\ tick \in Nat
  BY Bounds DEF ConsoleInv, ConsoleTypeOK, ConRequests
<1>2. ASSUME con'[d].at \in Deciding PROVE Had(con[d].roles, con[d].began)'
  <2>1. Busy(d) /\ Had(con[d].roles, con[d].began)
    BY <1>2 DEF ConsoleInv, RequestHad, Busy, Deciding
  <2>2. con[d].began <= tick
    BY <2>1 DEF ConsoleInv, RequestHad
  <2>3. ASSUME NEW roles, NEW when \in Int, -1 <= when, when <= tick, Had(roles, when)
        PROVE  Had(roles, when)'
    BY <2>3, HadStays DEF ConsoleInv
  <2>4. -1 <= con[d].began
    BY <1>1
  <2>5. \/ ~acc'.disabled /\ con[d].roles = acc'.roles
        \/ was'.at >= con[d].began /\ con[d].roles = was'.roles
    BY <1>1, <2>1, <2>2, <2>3, <2>4 DEF Had
  <2> QED
    BY <2>5 DEF Had
<1> QED
  BY <1>1, <1>2 DEF RequestHad, Busy, ConsoleInv

\* Every step keeps the requests short and their roles explained.
LEMMA RequestsStep ==
  ASSUME ConsoleInv, [ConsoleNext]_consoleVars, NEW d \in Consoles
  PROVE  RequestHad(d)'
<1>1. con \in [Consoles -> ConRequests] /\ tick \in Nat /\ acc \in AdminAccounts
  BY Bounds DEF ConsoleInv, ConsoleTypeOK
<1>2. "idle" \notin Deciding
  BY DEF Deciding
<1>3. ASSUME con'[d] = NoRequest PROVE RequestHad(d)'
  BY <1>2, <1>3 DEF RequestHad, Busy, NoRequest
<1>4. ASSUME con'[d] = con[d], tick' = tick PROVE RequestHad(d)'
  BY <1>4, RequestKept DEF Busy
<1>5. ASSUME con[d].at \in Deciding, con'[d].began = con[d].began,
             con'[d].roles = con[d].roles, tick' = tick
      PROVE  RequestHad(d)'
  BY <1>2, <1>5, RequestKept DEF Busy
\* A request that begins has read the account, or has not yet.
<1>6. ASSUME NEW c \in Consoles, NEW r \in ConRequests, ConBegins(c, r),
             r.at \in Deciding => ~acc.disabled /\ r.roles = acc.roles
      PROVE  RequestHad(d)'
  <2>1. con' = [con EXCEPT ![c] = [r EXCEPT !.n = requests + 1, !.began = tick]]
        /\ tick' = tick /\ acc' = acc
    BY <1>6 DEF ConBegins
  <2>2. CASE d = c
    <3>1. con'[d].at = r.at /\ con'[d].roles = r.roles /\ con'[d].began = tick
      BY <1>1, <2>1, <2>2 DEF ConRequests
    <3>2. con'[d].at \in Deciding => Had(con[d].roles, con[d].began)'
      BY <1>6, <2>1, <3>1 DEF Had
    <3> QED
      BY <1>1, <2>1, <3>1, <3>2 DEF RequestHad, Busy
  <2>3. CASE d # c
    BY <1>1, <1>4, <2>1, <2>3
  <2> QED
    BY <2>2, <2>3
<1>7. ASSUME NEW c \in Consoles, LoginReads(c) PROVE RequestHad(d)'
  <2>1. \A at : SignsIn(at) = [NoRequest EXCEPT !.at = at, !.roles = acc.roles]
    BY DEF SignsIn
  <2>2. CASE ConBegins(c, SignsIn("issuing"))
    <3>1. SignsIn("issuing") \in ConRequests /\ SignsIn("issuing").roles = acc.roles
      BY <1>1, IdleIsRequest DEF SignsIn, ConRequests, AdminAccounts, ConStages
    <3> QED
      BY <1>6, <1>7, <2>2, <3>1 DEF LoginReads
  <2>3. ASSUME NEW step \in {tick - 1, tick} \cap Nat,
               ConBegins(c, [SignsIn("marking") EXCEPT !.step = step])
        PROVE  RequestHad(d)'
    <3> DEFINE r == [SignsIn("marking") EXCEPT !.step = step]
    <3>1. step \in NoStep .. LastTick
      BY Bounds DEF ConsoleInv, ConsoleTypeOK
    <3>2. r \in ConRequests /\ r.roles = acc.roles
      BY <1>1, <3>1, IdleIsRequest DEF SignsIn, ConRequests, AdminAccounts, ConStages
    <3>3. ConBegins(c, r)
      BY <2>3
    <3> HIDE DEF r
    <3> QED
      BY <1>6, <1>7, <3>2, <3>3 DEF LoginReads
  <2>4. ASSUME NEW code \in acc.codes,
               ConBegins(c, [SignsIn("consuming") EXCEPT
                               !.using = {code}, !.rest = acc.codes \ {code}])
        PROVE  RequestHad(d)'
    <3> DEFINE r == [SignsIn("consuming") EXCEPT !.using = {code}, !.rest = acc.codes \ {code}]
    <3>1. acc.codes \subseteq Codes /\ {code} \subseteq Factors
      BY <1>1 DEF AdminAccounts, Factors
    <3>2. r \in ConRequests /\ r.roles = acc.roles
      BY <1>1, <3>1, IdleIsRequest DEF SignsIn, ConRequests, AdminAccounts, ConStages
    <3>3. ConBegins(c, r)
      BY <2>4
    <3> HIDE DEF r
    <3> QED
      BY <1>6, <1>7, <3>2, <3>3 DEF LoginReads
  <2> QED
    BY <1>7, <2>2, <2>3, <2>4 DEF LoginReads
<1>8. ASSUME NEW c \in Consoles, LoginMarks(c) PROVE RequestHad(d)'
  BY <1>1, <1>3, <1>4, <1>5, <1>8 DEF LoginMarks, ConEnds, ConRequests, Deciding
<1>9. ASSUME NEW c \in Consoles, LoginConsumes(c) PROVE RequestHad(d)'
  BY <1>1, <1>4, <1>5, <1>9 DEF LoginConsumes, Consumes, ConRequests, Deciding
<1>10. ASSUME NEW c \in Consoles, Issues(c) PROVE RequestHad(d)'
  BY <1>1, <1>3, <1>4, <1>10 DEF Issues, ConEnds
<1>11. ASSUME NEW c \in Consoles, RefreshFinds(c) PROVE RequestHad(d)'
  <2>1. PICK t \in valid :
          ConBegins(c, [NoRequest EXCEPT !.at = "reading", !.using = {RefreshOf(t.n)}])
    BY <1>11 DEF RefreshFinds
  <2> DEFINE r == [NoRequest EXCEPT !.at = "reading", !.using = {RefreshOf(t.n)}]
  <2>2. {RefreshOf(t.n)} \subseteq Factors
    BY DEF ConsoleInv, ConsoleTypeOK, Factors
  <2>3. r \in ConRequests /\ r.at = "reading"
    BY <2>2, IdleIsRequest DEF ConRequests, ConStages
  <2>4. ConBegins(c, r)
    BY <2>1
  <2> HIDE DEF r
  <2> QED
    BY <1>6, <2>3, <2>4 DEF Deciding
<1>12. ASSUME NEW c \in Consoles, RefreshReads(c) PROVE RequestHad(d)'
  <2>1. CASE con' = [con EXCEPT ![c].at = "revoking", ![c].roles = acc.roles] /\ ~acc.disabled
    <3>1. acc' = acc /\ tick' = tick /\ con[c].at = "reading"
      BY <1>12 DEF RefreshReads, FoundAdmin
    <3>2. CASE d = c
      <4>1. con'[d].roles = acc.roles /\ con'[d].began = con[d].began
        BY <1>1, <2>1, <3>2 DEF ConRequests
      <4>2. Busy(d)
        BY <3>1, <3>2 DEF Busy
      <4>3. con[d].began <= tick /\ tick <= con[d].began + 1
        BY <4>2 DEF ConsoleInv, RequestHad
      <4>4. Had(con[d].roles, con[d].began)'
        BY <2>1, <3>1, <4>1 DEF Had
      <4> QED
        BY <3>1, <4>1, <4>3, <4>4 DEF RequestHad
    <3>3. CASE d # c
      BY <1>1, <1>4, <2>1, <3>1, <3>3
    <3> QED
      BY <3>2, <3>3
  <2>2. CASE ConEnds(c) /\ tick' = tick
    BY <1>1, <1>3, <1>4, <2>2 DEF ConEnds
  <2> QED
    BY <1>12, <2>1, <2>2 DEF RefreshReads, FoundAdmin
<1>13. ASSUME NEW c \in Consoles, Revokes(c) PROVE RequestHad(d)'
  BY <1>1, <1>3, <1>4, <1>5, <1>13 DEF Revokes, ConGoes, ConEnds, ConRequests, Deciding
<1>14. ASSUME NEW c \in Consoles, EnrollReads(c) PROVE RequestHad(d)'
  <2> DEFINE r == [NoRequest EXCEPT !.at = "enrolling"]
  <2>1. r \in ConRequests /\ r.at = "enrolling"
    BY IdleIsRequest DEF ConRequests, ConStages
  <2>2. ConBegins(c, r)
    BY <1>14 DEF EnrollReads
  <2> HIDE DEF r
  <2> QED
    BY <1>6, <2>1, <2>2 DEF Deciding
<1>15. ASSUME NEW c \in Consoles, EnrollWrites(c) PROVE RequestHad(d)'
  BY <1>1, <1>3, <1>4, <1>15 DEF EnrollWrites, ConEnds
<1>16. CASE Operates
  BY <1>4, <1>16 DEF Operates
<1>17. CASE ConsoleTick
  <2>1. Busy(d) => con[d].began = tick
    BY <1>17 DEF ConsoleTick
  <2>2. con' = con /\ acc' = acc /\ was' = was /\ tick' = tick + 1
    BY <1>17 DEF ConsoleTick
  <2> QED
    BY <1>1, <2>1, <2>2 DEF ConsoleInv, RequestHad, Busy, Had
<1>18. CASE UNCHANGED consoleVars
  BY <1>4, <1>18 DEF consoleVars
<1> QED
  BY <1>7, <1>8, <1>9, <1>10, <1>11, <1>12, <1>13, <1>14, <1>15, <1>16, <1>17, <1>18
     DEF ConsoleNext, ConsoleStep

\* Every step keeps the tokens explained.
LEMMA TokensStep ==
  ASSUME ConsoleInv, [ConsoleNext]_consoleVars, NEW d \in Consoles
  PROVE  TokenHad(d)'
<1>1. access \in [Consoles -> AccessTokens] /\ con \in [Consoles -> ConRequests] /\ tick \in Nat
      /\ shown \in Int
  BY Bounds DEF ConsoleInv, ConsoleTypeOK
<1>2. access[d].made \in Int /\ Long >= 2
  BY <1>1, Bounds DEF AccessTokens
\* A token that is kept, whatever becomes of the second factor shown last.
<1>3. ASSUME access'[d] = access[d], tick' \in {tick, tick + 1},
             shown' = shown \/ (shown' >= tick - 1 /\ shown' \in Int)
      PROVE  TokenHad(d)'
  <2>1. SUFFICES ASSUME access[d].made # -Long
                 PROVE  /\ access[d].made \in 0 .. tick'
                        /\ \/ ~acc'.disabled /\ access[d].roles = acc'.roles
                           \/ was'.at >= access[d].made - 1 /\ access[d].roles = was'.roles
                        /\ access[d].mfa => shown' >= access[d].made - 1
    BY <1>3 DEF TokenHad, Had
  <2>2. access[d].made \in 0 .. tick /\ Had(access[d].roles, access[d].made - 1)
        /\ (access[d].mfa => shown >= access[d].made - 1)
    BY <2>1 DEF ConsoleInv, TokenHad
  <2>3. ASSUME NEW roles, NEW when \in Int, -1 <= when, when <= tick, Had(roles, when)
        PROVE  Had(roles, when)'
    BY <2>3, HadStays DEF ConsoleInv
  <2> DEFINE since == access[d].made - 1
  <2>4. since \in Int /\ -1 <= since /\ since <= tick
    BY <1>1, <2>2
  <2>5. \/ ~acc'.disabled /\ access[d].roles = acc'.roles
        \/ was'.at >= since /\ access[d].roles = was'.roles
    <3> HIDE DEF since
    <3>1. Had(access[d].roles, since)
      BY <2>2 DEF since
    <3> QED
      BY <2>3, <2>4, <3>1 DEF Had
  <2>6. access[d].made \in 0 .. tick'
    BY <1>1, <1>3, <2>2
  <2>7. access[d].mfa => shown' >= access[d].made - 1
    BY <1>1, <1>2, <1>3, <2>2
  <2> QED
    BY <2>5, <2>6, <2>7
<1>4. ASSUME NEW c \in Consoles, Issues(c) PROVE TokenHad(d)'
  <2>1. tick' = tick /\ acc' = acc /\ was' = was /\ con[c].at = "issuing"
    BY <1>4 DEF Issues
  <2>2. con[c].began \in Nat /\ con[c].began >= tick - 1 /\ con[c].began <= tick
        /\ Had(con[c].roles, con[c].began)
    <3>1. Busy(c) /\ con[c].at \in Deciding
      BY <2>1 DEF Busy, Deciding
    <3>2. RequestHad(c) /\ con[c].began \in 0 .. LastTick
      BY <1>1 DEF ConsoleInv, ConRequests
    <3> QED
      BY <1>1, <3>1, <3>2, Bounds DEF RequestHad
  <2>3. CASE access' = access /\ shown' = shown
    BY <1>1, <1>3, <2>1, <2>3
  <2>4. CASE /\ access' = [access EXCEPT ![c] =
                            [made |-> tick, roles |-> con[c].roles, mfa |-> con[c].mfa]]
             /\ shown' = IF con[c].mfa THEN con[c].began ELSE shown
    <3>1. CASE d = c
      <4>1. access'[d].made = tick /\ access'[d].roles = con[c].roles
            /\ access'[d].mfa = con[c].mfa
        BY <1>1, <2>4, <3>1
      <4>2. access'[d].mfa => shown' >= tick - 1
        BY <2>2, <2>4, <4>1
      <4>3. \/ ~acc'.disabled /\ con[c].roles = acc'.roles
            \/ was'.at >= tick - 1 /\ con[c].roles = was'.roles
        <5>1. was.at \in Int
          BY Bounds DEF ConsoleInv, ConsoleTypeOK
        <5> QED
          BY <1>1, <2>1, <2>2, <5>1 DEF Had
      <4>4. access'[d].made \in 0 .. tick'
        BY <1>1, <2>1, <4>1
      <4> QED
        BY <4>1, <4>2, <4>3, <4>4 DEF TokenHad, Had
    <3>2. CASE d # c
      BY <1>1, <1>3, <2>1, <2>2, <2>4, <3>2
    <3> QED
      BY <3>1, <3>2
  <2> QED
    BY <1>4, <2>3, <2>4 DEF Issues
<1>5. ASSUME access' = access, shown' = shown, tick' \in {tick, tick + 1}
      PROVE  TokenHad(d)'
  BY <1>1, <1>3, <1>5
<1>6. ASSUME NEW c \in Consoles, ConsoleStep(c), ~Issues(c)
      PROVE  access' = access /\ shown' = shown /\ tick' = tick
  BY <1>6 DEF ConsoleStep, LoginReads, LoginMarks, LoginConsumes, Consumes, RefreshFinds,
              RefreshReads, FoundAdmin, Revokes, EnrollReads, EnrollWrites, ConBegins
<1>7. CASE Operates \/ ConsoleTick
  BY <1>5, <1>7 DEF Operates, ConsoleTick
<1>8. CASE UNCHANGED consoleVars
  BY <1>5, <1>8 DEF consoleVars
<1> QED
  BY <1>4, <1>5, <1>6, <1>7, <1>8 DEF ConsoleNext

(***************************************************************************)
(* The inductive invariant: requests end within a tick, and the roles in   *)
(* every decision and every token were the account's when it was made.     *)
(***************************************************************************)
THEOREM ConsoleInvariant == ConsoleSpec => []ConsoleInv
<1>1. ConsoleInit => OperatedOnce /\ \A c \in Consoles : RequestHad(c) /\ TokenHad(c)
  BY DEF ConsoleInit, OperatedOnce, RequestHad, TokenHad, Busy, NoRequest, NoToken, Deciding
<1>2. ConsoleTypeOK' /\ ConsoleInv /\ [ConsoleNext]_consoleVars => ConsoleInv'
  BY OperatedOnceStep, RequestsStep, TokensStep DEF ConsoleInv
<1>3. ConsoleSpec => []ConsoleTypeOK
  BY ConsoleTypeCorrect
<1>4. ConsoleTypeOK /\ ConsoleInit => ConsoleInv
  BY <1>1 DEF ConsoleInv
<1> QED
  BY <1>2, <1>3, <1>4, PTL DEF ConsoleSpec

-----------------------------------------------------------------------------
LEMMA GrantedGrows ==
  ASSUME NEW roles, NEW more, roles \subseteq more, NEW op, Granted(roles, op)
  PROVE  Granted(more, op)
BY DEF Granted

(***************************************************************************)
(* An operation is only accepted from an account that was enabled and had  *)
(* the permission within the life of a token, and one that asks for a      *)
(* second factor only if a sign-in showed one within it.                   *)
(***************************************************************************)
THEOREM WarrantedAlways == ConsoleSpec => []AcceptedIsWarranted
<1>1. ASSUME ConsoleInv, NEW c \in Consoles, NEW op \in Operations, Accepted(c, op)
      PROVE  /\ Granted((IF acc.disabled THEN {} ELSE acc.roles)
                        \cup (IF tick - was.at <= AccessTTL THEN was.roles ELSE {}), op)
             /\ op.mfa => tick - shown <= AccessTTL
  <2>1. access[c].made \in Int /\ tick \in Nat /\ was.at \in Int /\ shown \in Int
    BY <1>1, Bounds DEF ConsoleInv, ConsoleTypeOK, AccessTokens
  <2>2. tick - access[c].made < AccessTTL
    BY <1>1 DEF Accepted, Live
  <2>3. access[c].made # -Long
    BY <2>1, <2>2, Bounds
  <2>4. Had(access[c].roles, access[c].made - 1)
        /\ (access[c].mfa => shown >= access[c].made - 1)
    BY <1>1, <2>3 DEF ConsoleInv, TokenHad
  <2>5. access[c].roles \subseteq
          (IF acc.disabled THEN {} ELSE acc.roles)
          \cup (IF tick - was.at <= AccessTTL THEN was.roles ELSE {})
    <3>1. CASE ~acc.disabled /\ access[c].roles = acc.roles
      BY <3>1
    <3>2. CASE was.at >= access[c].made - 1 /\ access[c].roles = was.roles
      <4>1. tick - was.at <= AccessTTL
        BY <2>1, <2>2, <3>2, Bounds
      <4> QED
        BY <3>2, <4>1
    <3> QED
      BY <2>4, <3>1, <3>2 DEF Had
  <2>6. Granted(access[c].roles, op) /\ (op.mfa => access[c].mfa)
    BY <1>1 DEF Accepted
  <2>7. op.mfa => tick - shown <= AccessTTL
    BY <2>1, <2>2, <2>4, <2>6, Bounds
  <2> QED
    BY <2>5, <2>6, <2>7, GrantedGrows
<1>2. ConsoleInv => AcceptedIsWarranted
  BY <1>1 DEF AcceptedIsWarranted
<1> QED
  BY <1>2, ConsoleInvariant, PTL

-----------------------------------------------------------------------------
(***************************************************************************)
(* That codes and refresh tokens are spent once, and that the codes of an  *)
(* enrolled account are those of its secret.  As long as requests do not   *)
(* overlap and writes succeed: the one request under way has a number that *)
(* nothing was issued or spent with; what it uses is not spent, and when   *)
(* it is answered is gone from the account and the tokens; and the codes   *)
(* it will write back are neither used nor spent.                          *)
(***************************************************************************)
Alone == \A c, d \in Consoles : Busy(c) /\ Busy(d) => c = d

Numbered ==
  (\A t \in valid : t.n <= requests) /\ \A f \in spent \cup acc.codes : f[1] <= requests

Unspent ==
  ~twice /\ acc.codes \cap spent = {} /\ \A t \in valid : RefreshOf(t.n) \notin spent

CodesCurrent == Enrolled => \A code \in acc.codes : code[1] = acc.secret

\* The number of the request under way.
Fresh(r) ==
  r.at # "idle" =>
    /\ r.n = requests /\ (\A t \in valid : t.n # requests)
    /\ \A f \in spent : f[1] # requests
    /\ \A f \in r.using \cup r.rest : f[1] < requests

\* What it uses and writes back.
UsesUnspent(r) ==
  r.at # "idle" =>
    /\ r.using \cap spent = {}
    /\ r.at \in {"reading", "revoking", "issuing"} => acc.codes \cap r.using = {}
    /\ r.at \in {"consuming", "issuing"} => \A t \in valid : RefreshOf(t.n) \notin r.using
    /\ r.at = "consuming" =>
         /\ r.rest \cap (spent \cup r.using) = {}
         /\ Enrolled => \A code \in r.rest : code[1] = acc.secret
    /\ r.at \in {"marking", "enrolling"} => r.using = {}

Settled == Numbered /\ Unspent /\ CodesCurrent

SpentOnce ==
  Alone /\ Settled /\ \A c \in Consoles : Fresh(con[c]) /\ UsesUnspent(con[c])

FactorsInv == ~crossed /\ adminFaults = 0 => SpentOnce

\* A refresh token is not a recovery code.
LEMMA RefreshIsNoCode == \A n : RefreshOf(n) \notin Codes /\ RefreshOf(n)[1] = n
BY ConsoleAssumption DEF RefreshOf, Codes

\* A step of the one request there is.
LEMMA OnlyRequest ==
  ASSUME ConsoleTypeOK, NEW c \in Consoles, NEW r, con' = [con EXCEPT ![c] = r],
         \A d \in Consoles \ {c} : ~Busy(d), Settled', Fresh(r)', UsesUnspent(r)'
  PROVE  SpentOnce'
<1>1. con'[c] = r /\ \A d \in Consoles \ {c} : con'[d] = con[d] /\ con'[d].at = "idle"
  BY DEF ConsoleTypeOK, Busy
<1>2. Alone'
  BY <1>1 DEF Alone, Busy
<1>3. ASSUME NEW d \in Consoles PROVE Fresh(con[d])' /\ UsesUnspent(con[d])'
  <2>1. CASE d = c
    BY <1>1, <2>1 DEF Fresh, UsesUnspent, Enrolled, RefreshOf
  <2>2. CASE d # c
    BY <1>1, <2>2 DEF Fresh, UsesUnspent
  <2> QED
    BY <2>1, <2>2
<1> QED
  BY <1>2, <1>3 DEF SpentOnce

\* A request begins while none is under way.
LEMMA FactorBegins ==
  ASSUME ConsoleTypeOK, SpentOnce, NEW c \in Consoles, NEW r \in ConRequests, ConBegins(c, r),
         ~crossed', \A f \in r.using \cup r.rest : f[1] <= requests, UsesUnspent(r)
  PROVE  SpentOnce'
<1>s. PICK s : s = [r EXCEPT !.n = requests + 1, !.began = tick]
  OBVIOUS
<1>1. /\ con' = [con EXCEPT ![c] = s] /\ requests' = requests + 1
      /\ UNCHANGED <<acc, valid, spent, twice>>
  BY <1>s DEF ConBegins
<1>2. /\ s.at = r.at /\ s.using = r.using /\ s.rest = r.rest /\ s.n = requests + 1
  BY <1>s DEF ConRequests
<1>3. \A d \in Consoles : ~Busy(d)
  <2>1. crossed' = (crossed \/ \E d \in Consoles : Busy(d))
    BY DEF ConBegins
  <2> QED
    BY <2>1, Zenon
<1>4. requests \in Int /\ requests' \in Int /\ requests < requests'
  BY <1>1, Bounds DEF ConsoleTypeOK
<1>5. /\ \A t \in valid : t.n \in Int /\ t.n <= requests
      /\ \A f \in spent \cup acc.codes : f[1] \in Int /\ f[1] <= requests
      /\ \A f \in r.using \cup r.rest : f[1] \in Int
  <2>1. \A f \in Factors : f[1] \in Int
    BY Bounds, RefreshIsNoCode DEF Factors, Codes, Numbers
  <2>2. /\ acc.codes \subseteq Factors /\ spent \subseteq Factors
        /\ r.using \cup r.rest \subseteq Factors
    BY DEF ConsoleTypeOK, AdminAccounts, ConRequests, Factors
  <2>3. \A t \in valid : t.n \in Int
    BY Bounds DEF ConsoleTypeOK, Numbers
  <2> QED
    BY <2>1, <2>2, <2>3 DEF SpentOnce, Settled, Numbered
<1>6. Settled'
  <2>1. Numbered'
    BY <1>1, <1>4, <1>5 DEF Numbered
  <2>2. Unspent' /\ CodesCurrent'
    BY <1>1 DEF SpentOnce, Settled, Unspent, CodesCurrent, Enrolled
  <2> QED
    BY <2>1, <2>2 DEF Settled
<1>7. Fresh(s)'
  BY <1>1, <1>2, <1>4, <1>5 DEF Fresh
<1>8. UsesUnspent(s)'
  BY <1>1, <1>2 DEF UsesUnspent, Enrolled
<1> QED
  BY <1>1, <1>3, <1>6, <1>7, <1>8, OnlyRequest

LEMMA LoginReadsOnce ==
  ASSUME ConsoleTypeOK, SpentOnce, NEW c \in Consoles, LoginReads(c), ~crossed'
  PROVE  SpentOnce'
<1>1. /\ acc.codes \subseteq Codes /\ acc.roles \in SUBSET AdminRoles
      /\ \A code \in acc.codes : code[1] <= requests
      /\ acc.codes \cap spent = {}
  BY DEF ConsoleTypeOK, AdminAccounts, SpentOnce, Settled, Numbered, Unspent
\* Without a second factor, or with a code of the authenticator.
<1>2. ASSUME NEW r \in ConRequests, ConBegins(c, r), r.at \in {"issuing", "marking"},
             r.using = {}, r.rest = {}
      PROVE  SpentOnce'
  BY <1>2, FactorBegins DEF UsesUnspent
<1>3. ASSUME ConBegins(c, SignsIn("issuing")) PROVE SpentOnce'
  <2>1. /\ SignsIn("issuing") \in ConRequests /\ SignsIn("issuing").at = "issuing"
        /\ SignsIn("issuing").using = {} /\ SignsIn("issuing").rest = {}
    BY <1>1, IdleIsRequest DEF SignsIn, ConRequests, ConStages, NoRequest
  <2> QED
    BY <1>2, <1>3, <2>1
<1>4. ASSUME NEW step \in {tick - 1, tick} \cap Nat,
             ConBegins(c, [SignsIn("marking") EXCEPT !.step = step])
      PROVE  SpentOnce'
  <2>1. step \in NoStep .. LastTick
    BY Bounds DEF ConsoleTypeOK
  <2>2. LET r == [SignsIn("marking") EXCEPT !.step = step]
        IN  r \in ConRequests /\ r.at = "marking" /\ r.using = {} /\ r.rest = {}
    BY <1>1, <2>1, IdleIsRequest DEF SignsIn, ConRequests, ConStages, NoRequest
  <2> QED
    BY <1>2, <1>4, <2>2
<1>5. ASSUME NEW code \in acc.codes,
             ConBegins(c, [SignsIn("consuming") EXCEPT
                             !.using = {code}, !.rest = acc.codes \ {code}]),
             Enrolled
      PROVE  SpentOnce'
  <2>1. PICK r : r = [SignsIn("consuming") EXCEPT !.using = {code}, !.rest = acc.codes \ {code}]
    OBVIOUS
  <2>2. {code} \in SUBSET Factors /\ acc.codes \ {code} \in SUBSET Codes
    BY <1>1 DEF Factors
  <2>3. /\ r \in ConRequests /\ r.at = "consuming" /\ r.using = {code}
        /\ r.rest = acc.codes \ {code}
    BY <1>1, <2>1, <2>2, IdleIsRequest DEF SignsIn, ConRequests, ConStages, NoRequest
  <2>4. \A f \in r.using \cup r.rest : f[1] <= requests
    BY <1>1, <2>3
  <2>5. \A t \in valid : RefreshOf(t.n) # code
    BY <1>1, RefreshIsNoCode
  <2>6. UsesUnspent(r)
    BY <1>1, <2>3, <2>5 DEF UsesUnspent, SpentOnce, Settled, CodesCurrent
  <2> QED
    BY <1>5, <2>1, <2>3, <2>4, <2>6, FactorBegins
<1> QED
  BY <1>3, <1>4, <1>5 DEF LoginReads

LEMMA OthersBegin ==
  ASSUME ConsoleTypeOK, SpentOnce, NEW c \in Consoles, RefreshFinds(c) \/ EnrollReads(c),
         ~crossed'
  PROVE  SpentOnce'
<1>1. CASE RefreshFinds(c)
  <2>1. PICK t \in valid :
          ConBegins(c, [NoRequest EXCEPT !.at = "reading", !.using = {RefreshOf(t.n)}])
    BY <1>1 DEF RefreshFinds
  <2>2. PICK r : r = [NoRequest EXCEPT !.at = "reading", !.using = {RefreshOf(t.n)}]
    OBVIOUS
  <2>3. {RefreshOf(t.n)} \in SUBSET Factors
    BY DEF ConsoleTypeOK, Factors
  <2>4. /\ r \in ConRequests /\ r.at = "reading" /\ r.using = {RefreshOf(t.n)} /\ r.rest = {}
    BY <2>2, <2>3, IdleIsRequest DEF ConRequests, ConStages, NoRequest
  <2>5. RefreshOf(t.n)[1] <= requests /\ RefreshOf(t.n) \notin spent
    BY RefreshIsNoCode DEF SpentOnce, Settled, Numbered, Unspent
  <2>6. acc.codes \cap {RefreshOf(t.n)} = {}
    BY RefreshIsNoCode DEF ConsoleTypeOK, AdminAccounts
  <2>7. UsesUnspent(r)
    BY <2>4, <2>5, <2>6 DEF UsesUnspent
  <2> QED
    BY <2>1, <2>2, <2>4, <2>5, <2>7, FactorBegins
<1>2. CASE EnrollReads(c)
  <2>1. PICK r : r = [NoRequest EXCEPT !.at = "enrolling"]
    OBVIOUS
  <2>2. /\ r \in ConRequests /\ r.at = "enrolling" /\ r.using = {} /\ r.rest = {}
    BY <2>1, IdleIsRequest DEF ConRequests, ConStages, NoRequest
  <2>3. UsesUnspent(r)
    BY <2>2 DEF UsesUnspent
  <2> QED
    BY <1>2, <2>1, <2>2, <2>3, FactorBegins DEF EnrollReads
<1> QED
  BY <1>1, <1>2

\* The request under way takes a step: it was the only one.
LEMMA OnlyOneBusy ==
  ASSUME SpentOnce, NEW c \in Consoles, Busy(c)
  PROVE  \A d \in Consoles \ {c} : ~Busy(d)
BY DEF SpentOnce, Alone

\* It moves on, or ends, and leaves the account, the tokens and the history alone.
LEMMA StageMoves ==
  ASSUME ConsoleTypeOK, SpentOnce, NEW c \in Consoles, NEW r, Busy(c),
         con' = [con EXCEPT ![c] = r], UNCHANGED <<valid, spent, twice, requests>>,
         acc'.codes = acc.codes, acc'.secret = acc.secret,
         r.at # "idle" => /\ r.n = con[c].n /\ r.using = con[c].using /\ r.rest = con[c].rest
                          /\ UsesUnspent(r)
  PROVE  SpentOnce'
<1>1. \A d \in Consoles \ {c} : ~Busy(d)
  BY OnlyOneBusy
<1>2. Settled'
  BY DEF SpentOnce, Settled, Numbered, Unspent, CodesCurrent, Enrolled
<1>3. Fresh(r)'
  BY DEF SpentOnce, Fresh, Busy
<1>4. UsesUnspent(r)'
  BY DEF UsesUnspent, Enrolled
<1> QED
  BY <1>1, <1>2, <1>3, <1>4, OnlyRequest

LEMMA UnderWayGoesOn ==
  ASSUME ConsoleTypeOK, SpentOnce, NEW c \in Consoles, adminFaults' = 0, adminFaults = 0,
         LoginMarks(c) \/ LoginConsumes(c) \/ RefreshReads(c) \/ Revokes(c)
  PROVE  SpentOnce'
<1>0. /\ acc \in AdminAccounts /\ con[c] \in ConRequests /\ NoRequest.at = "idle"
      /\ ~AdminFault
  BY DEF ConsoleTypeOK, NoRequest, AdminFault
<1>1. /\ Fresh(con[c]) /\ UsesUnspent(con[c]) /\ Settled
  BY DEF SpentOnce
<1>2. CASE LoginMarks(c)
  <2>1. /\ Busy(c) /\ con[c].using = {} /\ UNCHANGED <<valid, spent, twice, requests>>
    BY <1>1, <1>2 DEF LoginMarks, Busy, UsesUnspent
  <2>2. acc'.codes = acc.codes /\ acc'.secret = acc.secret
    BY <1>0, <1>2 DEF LoginMarks, AdminAccounts
  <2>3. \/ con' = [con EXCEPT ![c] = NoRequest]
        \/ con' = [con EXCEPT ![c] = [con[c] EXCEPT !.at = "issuing", !.mfa = TRUE]]
    BY <1>0, <1>2 DEF LoginMarks, ConEnds, ConsoleTypeOK
  <2>4. PICK r : /\ r = NoRequest \/ r = [con[c] EXCEPT !.at = "issuing", !.mfa = TRUE]
                 /\ con' = [con EXCEPT ![c] = r]
    BY <2>3
  <2>5. r.at # "idle" => /\ r.n = con[c].n /\ r.using = con[c].using /\ r.rest = con[c].rest
                         /\ r.at = "issuing"
    BY <1>0, <2>4 DEF ConRequests
  <2>6. r.at # "idle" => UsesUnspent(r)
    BY <2>1, <2>5 DEF UsesUnspent
  <2> QED
    BY <2>1, <2>2, <2>4, <2>5, <2>6, StageMoves
<1>3. CASE LoginConsumes(c)
  <2>1. /\ Busy(c) /\ con[c].at = "consuming"
        /\ UNCHANGED <<valid, spent, twice, requests>>
    BY <1>3 DEF LoginConsumes, Consumes, Busy
  <2>2. acc'.codes = con[c].rest /\ acc'.secret = acc.secret
    BY <1>0, <1>3 DEF LoginConsumes, Consumes, AdminAccounts
  <2>3. PICK r : /\ r = [con[c] EXCEPT !.at = "issuing", !.mfa = TRUE]
                 /\ con' = [con EXCEPT ![c] = r]
    BY <1>3 DEF LoginConsumes, Consumes, ConsoleTypeOK
  <2>4. r.n = con[c].n /\ r.using = con[c].using /\ r.rest = con[c].rest /\ r.at = "issuing"
    BY <1>0, <2>3 DEF ConRequests
  <2>a. \A f \in con[c].rest : f[1] <= requests
    <3>1. \A f \in con[c].rest : f[1] \in Int
      BY <1>0, Bounds DEF ConRequests, Codes, Numbers
    <3>2. \A f \in con[c].rest : f[1] < requests
      BY <1>1, <2>1 DEF Fresh
    <3> QED
      BY <3>1, <3>2, Bounds DEF ConsoleTypeOK
  <2>5. Settled'
    BY <1>1, <2>1, <2>2, <2>a
       DEF Settled, Numbered, Unspent, CodesCurrent, Enrolled, UsesUnspent, Fresh
  <2>6. Fresh(r)'
    BY <1>1, <2>1, <2>4 DEF Fresh
  <2>7. UsesUnspent(r)'
    BY <1>1, <2>1, <2>2, <2>4 DEF UsesUnspent
  <2> QED
    BY <2>1, <2>3, <2>5, <2>6, <2>7, OnlyOneBusy, OnlyRequest
<1>4. CASE RefreshReads(c)
  <2>1. /\ Busy(c) /\ con[c].at = "reading" /\ acc' = acc
        /\ UNCHANGED <<valid, spent, twice, requests>>
    BY <1>4 DEF RefreshReads, FoundAdmin, Busy
  <2>2. \/ con' = [con EXCEPT ![c] = NoRequest]
        \/ con' = [con EXCEPT ![c] = [con[c] EXCEPT !.at = "revoking", !.roles = acc.roles]]
    BY <1>4 DEF RefreshReads, FoundAdmin, ConEnds, ConsoleTypeOK
  <2>3. PICK r : /\ \/ r = NoRequest
                    \/ r = [con[c] EXCEPT !.at = "revoking", !.roles = acc.roles]
                 /\ con' = [con EXCEPT ![c] = r]
    BY <2>2
  <2>4. r.at # "idle" => /\ r.n = con[c].n /\ r.using = con[c].using /\ r.rest = con[c].rest
                         /\ r.at = "revoking"
    BY <1>0, <2>3 DEF ConRequests
  <2>5. r.at # "idle" => UsesUnspent(r)
    BY <1>1, <2>1, <2>4 DEF UsesUnspent
  <2> QED
    BY <2>1, <2>3, <2>4, <2>5, StageMoves
<1>5. CASE Revokes(c)
  <2>1. /\ Busy(c) /\ con[c].at = "revoking" /\ acc' = acc
        /\ valid' = {t \in valid : RefreshOf(t.n) \notin con[c].using}
        /\ UNCHANGED <<spent, twice, requests>>
    BY <1>0, <1>5 DEF Revokes, Busy
  <2>2. PICK r : r = [con[c] EXCEPT !.at = "issuing"] /\ con' = [con EXCEPT ![c] = r]
    BY <1>0, <1>5 DEF Revokes, ConGoes, ConsoleTypeOK
  <2>3. r.n = con[c].n /\ r.using = con[c].using /\ r.rest = con[c].rest /\ r.at = "issuing"
    BY <1>0, <2>2 DEF ConRequests
  <2>4. Settled'
    BY <1>1, <2>1 DEF Settled, Numbered, Unspent, CodesCurrent, Enrolled
  <2>5. Fresh(r)'
    BY <1>1, <2>1, <2>3 DEF Fresh
  <2>6. UsesUnspent(r)'
    BY <1>1, <2>1, <2>3 DEF UsesUnspent
  <2> QED
    BY <2>1, <2>2, <2>4, <2>5, <2>6, OnlyOneBusy, OnlyRequest
<1> QED
  BY <1>2, <1>3, <1>4, <1>5

LEMMA IssuesOnce ==
  ASSUME ConsoleTypeOK, SpentOnce, NEW c \in Consoles, adminFaults' = 0, adminFaults = 0,
         Issues(c)
  PROVE  SpentOnce'
<1>1. /\ Fresh(con[c]) /\ UsesUnspent(con[c]) /\ Settled
  BY DEF SpentOnce
<1>2. /\ Busy(c) /\ con[c].at = "issuing" /\ con' = [con EXCEPT ![c] = NoRequest]
      /\ valid' = valid \cup {[n |-> con[c].n, made |-> tick]}
      /\ spent' = spent \cup con[c].using /\ UNCHANGED <<acc, requests>>
  BY DEF Issues, Busy, ConEnds, AdminFault
<1>3. twice' = (twice \/ con[c].using \cap spent # {})
  BY DEF Issues, AdminFault
<1>4. ~twice'
  <2>1. con[c].using \cap spent = {} /\ ~twice
    BY <1>1, <1>2, Zenon DEF UsesUnspent, Settled, Unspent
  <2> QED
    BY <1>3, <2>1, Zenon
<1>5. /\ con[c].n = requests /\ (\A f \in spent : f[1] # requests)
      /\ \A f \in con[c].using \cup con[c].rest : f[1] < requests
  BY <1>1, <1>2 DEF Fresh
<1>6. requests \in Nat
  BY Bounds DEF ConsoleTypeOK
<1>7. Numbered'
  <2>1. \A f \in con[c].using : f[1] <= requests
    <3>1. \A f \in con[c].using : f[1] \in Int
      BY Bounds, RefreshIsNoCode DEF ConsoleTypeOK, ConRequests, Factors, Codes, Numbers
    <3> QED
      BY <1>5, <1>6, <3>1
  <2> QED
    BY <1>1, <1>2, <1>5, <1>6, <2>1 DEF Settled, Numbered
<1>8. acc'.codes \cap spent' = {}
  BY <1>1, <1>2 DEF Settled, Unspent, UsesUnspent
<1>9. ASSUME NEW t \in valid' PROVE RefreshOf(t.n) \notin spent'
  <2>1. CASE t \in valid
    BY <1>1, <1>2, <2>1 DEF Settled, Unspent, UsesUnspent
  <2>2. CASE t.n = requests
    <3>1. \A f \in con[c].using : f[1] # requests
      BY <1>5, <1>6
    <3> QED
      BY <1>2, <1>5, <2>2, <3>1, RefreshIsNoCode
  <2> QED
    BY <1>2, <1>5, <2>1, <2>2
<1>10. Settled'
  BY <1>1, <1>2, <1>4, <1>7, <1>8, <1>9 DEF Settled, Unspent, CodesCurrent, Enrolled
<1>11. Fresh(NoRequest)' /\ UsesUnspent(NoRequest)'
  BY DEF Fresh, UsesUnspent, NoRequest
<1> QED
  BY <1>2, <1>10, <1>11, OnlyOneBusy, OnlyRequest

LEMMA EnrollsOnce ==
  ASSUME ConsoleTypeOK, SpentOnce, NEW c \in Consoles, adminFaults' = 0, adminFaults = 0,
         EnrollWrites(c)
  PROVE  SpentOnce'
<1>1. /\ Fresh(con[c]) /\ Settled /\ acc \in AdminAccounts
  BY DEF SpentOnce, ConsoleTypeOK
<1>2. /\ Busy(c) /\ con' = [con EXCEPT ![c] = NoRequest]
      /\ acc' = [acc EXCEPT !.secret = con[c].n, !.codes = {con[c].n} \X CodeNames]
      /\ UNCHANGED <<valid, spent, twice, requests>>
  BY DEF EnrollWrites, Busy, ConEnds, AdminFault
<1>3. acc'.secret = requests /\ acc'.codes = {requests} \X CodeNames
  BY <1>1, <1>2 DEF AdminAccounts, Fresh, Busy
<1>4. requests \in Nat
  BY Bounds DEF ConsoleTypeOK
<1>5. Settled'
  BY <1>1, <1>2, <1>3, <1>4 DEF Settled, Numbered, Unspent, CodesCurrent, Fresh, Busy
<1>6. Fresh(NoRequest)' /\ UsesUnspent(NoRequest)'
  BY DEF Fresh, UsesUnspent, NoRequest
<1> QED
  BY <1>2, <1>5, <1>6, OnlyOneBusy, OnlyRequest

\* The operator removes codes, and with them the secret, or neither.
LEMMA OperatesOnce ==
  ASSUME ConsoleTypeOK, SpentOnce, Operates
  PROVE  SpentOnce'
<1>1. acc \in AdminAccounts /\ UNCHANGED <<valid, con, spent, twice, requests>>
  BY DEF ConsoleTypeOK, Operates
<1>2. \/ acc'.codes = acc.codes /\ acc'.secret = acc.secret
      \/ acc'.codes = {} /\ acc'.secret = NoSecret
  BY <1>1 DEF Operates, DisableMFA, AdminAccounts
<1>3. Settled'
  BY <1>1, <1>2 DEF SpentOnce, Settled, Numbered, Unspent, CodesCurrent, Enrolled
<1>4. ASSUME NEW c \in Consoles PROVE Fresh(con[c])' /\ UsesUnspent(con[c])'
  BY <1>1, <1>2 DEF SpentOnce, Fresh, UsesUnspent, Enrolled
<1>5. Alone'
  BY <1>1 DEF SpentOnce, Alone, Busy
<1> QED
  BY <1>3, <1>4, <1>5 DEF SpentOnce

LEMMA FactorsStep == ConsoleTypeOK /\ FactorsInv /\ [ConsoleNext]_consoleVars => FactorsInv'
<1> SUFFICES ASSUME ConsoleTypeOK, FactorsInv, [ConsoleNext]_consoleVars, ~crossed',
                    adminFaults' = 0
             PROVE  SpentOnce'
  BY DEF FactorsInv
<1>1. adminFaults = 0
  <2>1. adminFaults' = adminFaults \/ adminFaults' = adminFaults + 1
    BY DEF ConsoleNext, ConsoleStep, consoleVars, LoginReads, LoginMarks, LoginConsumes,
           Consumes, Issues, RefreshFinds, RefreshReads, FoundAdmin, Revokes, EnrollReads,
           EnrollWrites, Operates, ConsoleTick, ConBegins, AdminFault, NoAdminFault
  <2> QED
    BY <2>1 DEF ConsoleTypeOK
<1>2. ~crossed
  <2>1. crossed' = crossed \/ crossed' = (crossed \/ \E d \in Consoles : Busy(d))
    BY Zenon
       DEF ConsoleNext, ConsoleStep, consoleVars, LoginReads, LoginMarks, LoginConsumes,
           Consumes, Issues, RefreshFinds, RefreshReads, FoundAdmin, Revokes, EnrollReads,
           EnrollWrites, Operates, ConsoleTick, ConBegins
  <2> QED
    BY <2>1, Zenon
<1>3. SpentOnce
  BY <1>1, <1>2 DEF FactorsInv
<1>4. ASSUME NEW c \in Consoles, ConsoleStep(c) PROVE SpentOnce'
  BY <1>1, <1>3, <1>4, LoginReadsOnce, OthersBegin, UnderWayGoesOn, IssuesOnce, EnrollsOnce
     DEF ConsoleStep
<1>5. CASE Operates
  BY <1>3, <1>5, OperatesOnce
<1>6. CASE ConsoleTick \/ UNCHANGED consoleVars
  <2>1. UNCHANGED <<acc, valid, con, spent, twice, requests>>
    BY <1>6 DEF ConsoleTick, consoleVars
  <2> QED
    BY <1>3, <2>1 DEF SpentOnce, Settled, Numbered, Unspent, CodesCurrent, Enrolled, Alone, Busy,
                      Fresh, UsesUnspent
<1> QED
  BY <1>4, <1>5, <1>6 DEF ConsoleNext

LEMMA FactorsInit == ConsoleInit => FactorsInv
<1> SUFFICES ASSUME ConsoleInit PROVE SpentOnce
  BY DEF FactorsInv
<1>1. /\ valid = {} /\ spent = {} /\ requests = 0 /\ acc.codes = {0} \X CodeNames
      /\ acc.secret = 0
  BY DEF ConsoleInit
<1>2. ~twice
  BY Zenon DEF ConsoleInit
<1>3. \A c \in Consoles : con[c].at = "idle"
  BY DEF ConsoleInit, NoRequest
<1> QED
  BY <1>1, <1>2, <1>3 DEF SpentOnce, Settled, Numbered, Unspent, CodesCurrent, Alone, Busy, Fresh,
                          UsesUnspent

\* Recovery codes and refresh tokens are answered once, and the codes of an enrolled account
\* are those of its present secret, as long as requests do not overlap and writes succeed
\* (handler.go:369, totp.go:137); the operator may act in between.
THEOREM FactorsAreSpentOnce == ConsoleSpec => []FactorsSpentOnce
<1>1. FactorsInv => FactorsSpentOnce
  BY DEF FactorsInv, SpentOnce, Settled, Unspent, CodesCurrent, FactorsSpentOnce
<1> QED
  BY <1>1, ConsoleTypeCorrect, FactorsInit, FactorsStep, PTL DEF ConsoleSpec

-----------------------------------------------------------------------------
(* AdminCaches. *)

\* The type invariant without its Boolean; a promotion under way is of a version that
\* exists.
RequestType ==
  [at : {"idle", "listed", "tx", "counted", "demoted", "written"},
   v : Versions, snap : SUBSET Versions, lost : BOOLEAN, met : BOOLEAN]

WellTyped ==
  /\ kind \in {"prompt", "routing"} /\ top \in Versions /\ prod \subseteq 1 .. top
  /\ adm \in [Admins -> RequestType]
  /\ cache \in Versions \cup {Fallback, Stale} /\ lock \in Readers \cup {Free}
  /\ rdr \in [Readers -> [at : {"idle", "missed", "fetching", "fetched"},
                          got : Versions \cup {Fallback}]]
  /\ cacheFaults \in 0 .. MaxCacheFaults
  /\ \A a \in Admins : adm[a].at \in {"tx", "counted", "demoted"} => adm[a].v <= top

LEMMA RequestTypes ==
  ASSUME NEW at \in {"idle", "listed", "tx", "counted", "demoted", "written"}, NEW v \in Versions
  PROVE  /\ Request(at, v) \in RequestType /\ Request(at, v).at = at /\ Request(at, v).v = v
         /\ Request(at, v).snap = {} /\ ~Request(at, v).met /\ ~Request(at, v).lost
  BY DEF Request, RequestType

LEMMA Snapshots ==
  ASSUME NEW v \in Versions, NEW snap \in SUBSET Versions
  PROVE  /\ [Request("tx", v) EXCEPT !.snap = snap] \in RequestType
         /\ [Request("tx", v) EXCEPT !.snap = snap].at = "tx"
         /\ [Request("tx", v) EXCEPT !.snap = snap].v = v
         /\ [Request("tx", v) EXCEPT !.snap = snap].snap = snap
  BY DEF Request, RequestType

LEMMA RestingType == Resting \in RequestType /\ Resting.at = "idle"
<1>1. 1 \in Versions
  BY CacheAssumption DEF Versions
<1> QED
  BY <1>1, RequestTypes DEF Resting

\* What another's write makes of a request: it keeps its place, version and snapshot, it
\* has met another, and a transaction that has not lost was to write none of the documents.
LEMMA NotedRequest ==
  ASSUME NEW p \in RequestType, NEW docs
  PROVE  /\ Noted(p, docs) \in RequestType
         /\ Noted(p, docs).at = p.at /\ Noted(p, docs).v = p.v /\ Noted(p, docs).snap = p.snap
         /\ p.at \in {"tx", "demoted", "written"} => Noted(p, docs).met
         /\ p.at = "tx" /\ ~Noted(p, docs).lost => ~p.lost /\ docs \cap (p.snap \cup {p.v}) = {}
<1> DEFINE loses == p.lost \/ (p.at = "tx" /\ docs \cap (p.snap \cup {p.v}) # {})
<1>1. loses \in BOOLEAN
  BY DEF RequestType
<1>2. CASE p.at \in {"tx", "demoted", "written"}
  <2>1. Noted(p, docs) = [p EXCEPT !.met = TRUE, !.lost = loses]
    BY <1>2, Zenon DEF Noted
  <2>2. /\ [p EXCEPT !.met = TRUE, !.lost = loses] \in RequestType
        /\ [p EXCEPT !.met = TRUE, !.lost = loses].at = p.at
        /\ [p EXCEPT !.met = TRUE, !.lost = loses].v = p.v
        /\ [p EXCEPT !.met = TRUE, !.lost = loses].snap = p.snap
        /\ [p EXCEPT !.met = TRUE, !.lost = loses].met
        /\ [p EXCEPT !.met = TRUE, !.lost = loses].lost <=> loses
    <3> HIDE DEF loses
    <3> QED
      BY <1>1 DEF RequestType
  <2> QED
    BY <2>1, <2>2, Zenon
<1>3. CASE p.at \notin {"tx", "demoted", "written"}
  BY <1>3 DEF Noted
<1> QED
  BY <1>2, <1>3

\* What a write leaves of the requests.
Met(a, docs) ==
  \A b \in Admins \ {a} :
    /\ adm'[b].at = adm[b].at /\ adm'[b].v = adm[b].v /\ adm'[b].snap = adm[b].snap
    /\ adm[b].at \in {"tx", "demoted", "written"} => adm'[b].met
    /\ adm[b].at = "tx" /\ ~adm'[b].lost =>
         ~adm[b].lost /\ docs \cap (adm[b].snap \cup {adm[b].v}) = {}

LEMMA WritesAre ==
  ASSUME WellTyped, NEW a \in Admins, NEW docs, NEW request \in RequestType,
         AdmWrites(a, docs, request)
  PROVE  adm' \in [Admins -> RequestType] /\ adm'[a] = request /\ Met(a, docs)
<1>1. \A b \in Admins : adm[b] \in RequestType
  BY DEF WellTyped
<1>2. adm' = [b \in Admins |-> IF b = a THEN request ELSE Noted(adm[b], docs)]
  BY DEF AdmWrites
<1>3. \A b \in Admins : (IF b = a THEN request ELSE Noted(adm[b], docs)) \in RequestType
  BY <1>1, NotedRequest
<1>4. adm' \in [Admins -> RequestType] /\ adm'[a] = request
  BY <1>2, <1>3
<1>5. \A b \in Admins \ {a} : adm'[b] = Noted(adm[b], docs)
  BY <1>2
<1>6. Met(a, docs)
  <2> SUFFICES ASSUME NEW b \in Admins \ {a}
               PROVE  /\ adm'[b].at = adm[b].at /\ adm'[b].v = adm[b].v
                      /\ adm'[b].snap = adm[b].snap
                      /\ adm[b].at \in {"tx", "demoted", "written"} => adm'[b].met
                      /\ adm[b].at = "tx" /\ ~adm'[b].lost =>
                           ~adm[b].lost /\ docs \cap (adm[b].snap \cup {adm[b].v}) = {}
    BY Zenon DEF Met
  <2> DEFINE p == adm[b]
             q == Noted(adm[b], docs)
  <2>1. p \in RequestType /\ adm'[b] = q
    BY <1>1, <1>5
  <2>2. /\ q.at = p.at /\ q.v = p.v /\ q.snap = p.snap
        /\ p.at \in {"tx", "demoted", "written"} => q.met
        /\ p.at = "tx" /\ ~q.lost => ~p.lost /\ docs \cap (p.snap \cup {p.v}) = {}
    BY <2>1, NotedRequest, Zenon
  <2> HIDE DEF q
  <2> QED
    BY <2>1, <2>2, Zenon
<1> QED
  BY <1>4, <1>6

LEMMA GoesAre ==
  ASSUME WellTyped, NEW a \in Admins, NEW request \in RequestType, AdmGoes(a, request)
  PROVE  /\ adm' \in [Admins -> RequestType] /\ adm'[a] = request
         /\ \A b \in Admins \ {a} : adm'[b] = adm[b]
  BY DEF WellTyped, AdmGoes

LEMMA CacheTypeInit == CacheInit => WellTyped /\ CacheTypeOK
<1> SUFFICES ASSUME CacheInit PROVE WellTyped /\ CacheTypeOK
  OBVIOUS
<1>1. tangled \in BOOLEAN
  BY DEF CacheInit
<1>2. 1 \in Versions /\ Fallback \in Int
  BY CacheAssumption DEF Versions, Fallback
<1>3. adm \in [Admins -> RequestType] /\ \A a \in Admins : adm[a].at = "idle"
  BY RestingType DEF CacheInit
<1> QED
  BY <1>1, <1>2, <1>3, CacheAssumption DEF CacheInit, CacheTypeOK, WellTyped, RequestType

LEMMA CommitsAre ==
  ASSUME WellTyped, NEW a \in Admins, CommitsTx(a)
  PROVE  /\ adm' \in [Admins -> RequestType] /\ adm'[a].v = adm[a].v
         /\ Met(a, adm[a].snap \cup {adm[a].v})
         /\ \/ adm'[a].at = "written" /\ (adm'[a].met <=> adm[a].met) /\ cacheFaults' = cacheFaults
            \/ adm'[a].at = "counted" /\ ~adm'[a].met /\ cacheFaults' # 0
<1> DEFINE p == adm[a]
           docs == p.snap \cup {p.v}
           done == [p EXCEPT !.at = "written", !.snap = {}]
<1>1. p \in RequestType
  BY DEF WellTyped
<1>2. /\ done \in RequestType /\ done.at = "written" /\ done.v = p.v
      /\ done.met <=> p.met
  BY <1>1 DEF RequestType
<1>3. CASE AdmWrites(a, docs, done) /\ NoCacheFault
  <2>1. adm' \in [Admins -> RequestType] /\ adm'[a] = done /\ Met(a, docs)
    <3> HIDE DEF done, docs
    <3> QED
      BY <1>2, <1>3, WritesAre
  <2> QED
    BY <1>2, <1>3, <2>1, Zenon DEF NoCacheFault
<1>4. CASE AdmWrites(a, docs, Request("counted", p.v)) /\ CacheFault
  <2>1. p.v \in Versions
    BY <1>1 DEF RequestType
  <2>2. /\ Request("counted", p.v) \in RequestType /\ Request("counted", p.v).at = "counted"
        /\ Request("counted", p.v).v = p.v /\ ~Request("counted", p.v).met
    BY <2>1, RequestTypes
  <2>3. adm' \in [Admins -> RequestType] /\ adm'[a] = Request("counted", p.v) /\ Met(a, docs)
    <3> HIDE DEF docs
    <3> QED
      BY <1>4, <2>2, WritesAre
  <2>4. cacheFaults' # 0
    BY <1>4 DEF CacheFault, WellTyped
  <2> QED
    BY <2>2, <2>3, <2>4, Zenon
<1> QED
  BY <1>3, <1>4, Zenon DEF CommitsTx

LEMMA DemotesAre ==
  ASSUME WellTyped, NEW a \in Admins, Demotes(a)
  PROVE  /\ adm' \in [Admins -> RequestType]
         /\ \/ /\ adm'[a].at = "demoted" /\ adm'[a].v = adm[a].v
               /\ Met(a, prod) /\ prod' = {} /\ cacheFaults' = cacheFaults
            \/ /\ adm'[a].at = "idle" /\ (\A b \in Admins \ {a} : adm'[b] = adm[b])
               /\ prod' = prod /\ cacheFaults' # 0
<1>1. adm[a].v \in Versions
  BY DEF WellTyped, RequestType
<1>2. CASE prod' = {} /\ AdmWrites(a, prod, Request("demoted", adm[a].v)) /\ NoCacheFault
  BY <1>1, <1>2, RequestTypes, WritesAre DEF NoCacheFault
<1>3. CASE CacheFault /\ AdmGoes(a, Resting) /\ UNCHANGED prod
  BY <1>3, RestingType, GoesAre DEF CacheFault, WellTyped
<1> QED
  BY <1>2, <1>3 DEF Demotes

LEMMA PromotesAloneIs ==
  ASSUME WellTyped, NEW a \in Admins, PromotesAlone(a)
  PROVE  /\ adm' \in [Admins -> RequestType]
         /\ \/ /\ adm'[a].at = "written" /\ adm'[a].v = adm[a].v /\ (adm'[a].met <=> adm[a].met)
               /\ Met(a, {adm[a].v} \ prod) /\ prod' = prod \cup {adm[a].v}
               /\ cacheFaults' = cacheFaults /\ tangled' = (tangled \/ OthersBaseless(a))
            \/ /\ adm'[a].at = "idle" /\ (\A b \in Admins \ {a} : adm'[b] = adm[b])
               /\ UNCHANGED <<prod, tangled>> /\ cacheFaults' # 0
<1> DEFINE done == [adm[a] EXCEPT !.at = "written"]
<1>1. adm[a] \in RequestType
  BY DEF WellTyped
<1>2. /\ done \in RequestType /\ done.at = "written" /\ done.v = adm[a].v
      /\ done.met <=> adm[a].met
  BY <1>1 DEF RequestType
<1>3. CASE /\ prod' = prod \cup {adm[a].v} /\ NoCacheFault
           /\ AdmWrites(a, {adm[a].v} \ prod, done)
           /\ tangled' = (tangled \/ OthersBaseless(a))
  <2>1. adm' \in [Admins -> RequestType] /\ adm'[a] = done /\ Met(a, {adm[a].v} \ prod)
    <3> HIDE DEF done
    <3> QED
      BY <1>2, <1>3, WritesAre
  <2> QED
    BY <1>2, <1>3, <2>1, Zenon DEF NoCacheFault
<1>4. CASE CacheFault /\ AdmGoes(a, Resting) /\ UNCHANGED <<prod, tangled>>
  <2>1. /\ adm' \in [Admins -> RequestType] /\ adm'[a].at = "idle"
        /\ \A b \in Admins \ {a} : adm'[b] = adm[b]
    BY <1>4, RestingType, GoesAre
  <2>2. cacheFaults' # 0 /\ prod' = prod
    BY <1>4 DEF CacheFault, WellTyped
  <2> QED
    BY <1>4, <2>1, <2>2, Zenon
<1> QED
  BY <1>3, <1>4, Zenon DEF PromotesAlone

LEMMA WellTypedStep == WellTyped /\ [CacheNext]_cacheVars => WellTyped'
<1> SUFFICES ASSUME WellTyped, [CacheNext]_cacheVars PROVE WellTyped'
  OBVIOUS
<1> USE CacheAssumption
    DEF WellTyped, CacheFault, NoCacheFault, Versions, Fallback, Stale, AdmAt
<1>1. ASSUME NEW a \in Admins, ListsVersions(a) PROVE WellTyped'
  <2>1. top + 1 \in Versions /\ Request("listed", top + 1) \in RequestType
    <3>1. top + 1 \in Versions
      BY <1>1 DEF ListsVersions
    <3> QED
      BY <3>1, RequestTypes
  <2>2. /\ adm' \in [Admins -> RequestType] /\ adm'[a].at = "listed"
        /\ \A b \in Admins \ {a} : adm'[b] = adm[b]
    BY <1>1, <2>1, GoesAre, RequestTypes DEF ListsVersions
  <2> QED
    BY <1>1, <2>2 DEF ListsVersions
<1>2. ASSUME NEW a \in Admins, InsertsVersion(a) PROVE WellTyped'
  <2>1. /\ adm' \in [Admins -> RequestType] /\ adm'[a].at = "idle"
        /\ \A b \in Admins \ {a} : adm'[b] = adm[b]
    BY <1>2, RestingType, GoesAre DEF InsertsVersion
  <2>2. top' \in Versions /\ top <= top'
    BY <1>2 DEF InsertsVersion, RequestType
  <2>3. prod' \subseteq 1 .. top'
    BY <1>2, <2>2 DEF InsertsVersion
  <2>4. \A b \in Admins : adm'[b].at \in {"tx", "counted", "demoted"} => adm'[b].v <= top'
    BY <2>1, <2>2 DEF RequestType
  <2> QED
    BY <1>2, <2>1, <2>2, <2>3, <2>4 DEF InsertsVersion
<1>3. ASSUME NEW a \in Admins, BeginsTx(a) PROVE WellTyped'
  <2>1. PICK v \in 1 .. top : AdmGoes(a, [Request("tx", v) EXCEPT !.snap = prod])
    BY <1>3 DEF BeginsTx, RequestType, Versions
  <2>2. v \in Versions /\ prod \in SUBSET Versions
    OBVIOUS
  <2>3. /\ adm' \in [Admins -> RequestType] /\ adm'[a].at = "tx" /\ adm'[a].v = v
        /\ \A b \in Admins \ {a} : adm'[b] = adm[b]
    <3> DEFINE begun == [Request("tx", v) EXCEPT !.snap = prod]
    <3>1. begun \in RequestType /\ begun.at = "tx" /\ begun.v = v /\ begun.snap = prod
      BY <2>2, Snapshots, Zenon
    <3>2. AdmGoes(a, begun)
      BY <2>1
    <3> HIDE DEF begun
    <3> QED
      BY <3>1, <3>2, GoesAre
  <2> QED
    BY <1>3, <2>3 DEF BeginsTx
<1>4. ASSUME NEW a \in Admins, CommitsTx(a) PROVE WellTyped'
  <2>1. adm[a].v \in 1 .. top /\ adm[a] \in RequestType
    BY <1>4 DEF CommitsTx, RequestType
  <2>2. /\ prod' = (prod \ adm[a].snap) \cup {adm[a].v} /\ UNCHANGED <<kind, top, cache, lock, rdr>>
        /\ cacheFaults' \in 0 .. MaxCacheFaults
    BY <1>4 DEF CommitsTx
  <2>3. /\ adm' \in [Admins -> RequestType] /\ adm'[a].v = adm[a].v
        /\ Met(a, adm[a].snap \cup {adm[a].v})
    BY <1>4, <2>1, CommitsAre
  <2>4. prod' \subseteq 1 .. top'
    BY <2>1, <2>2
  <2>5. \A b \in Admins : adm'[b].at \in {"tx", "counted", "demoted"} => adm'[b].v <= top'
    BY <2>1, <2>2, <2>3 DEF Met
  <2> QED
    BY <2>2, <2>3, <2>4, <2>5
<1>5. ASSUME NEW a \in Admins, CountsVersion(a) PROVE WellTyped'
  <2>1. PICK v \in 1 .. top : AdmGoes(a, Request("counted", v))
    BY <1>5 DEF CountsVersion, RequestType, Versions
  <2>2. v \in Versions
    OBVIOUS
  <2>3. /\ adm' \in [Admins -> RequestType] /\ adm'[a].at = "counted" /\ adm'[a].v = v
        /\ \A b \in Admins \ {a} : adm'[b] = adm[b]
    BY <2>1, <2>2, GoesAre, RequestTypes
  <2> QED
    BY <1>5, <2>3 DEF CountsVersion
<1>6. ASSUME NEW a \in Admins, Demotes(a) PROVE WellTyped'
  <2>1. adm[a].v \in 1 .. top
    BY <1>6 DEF Demotes, RequestType
  <2>2. prod' \in {prod, {}} /\ UNCHANGED <<kind, top, cache, lock, rdr>>
    BY <1>6 DEF Demotes
  <2>3. cacheFaults' \in 0 .. MaxCacheFaults
    BY <1>6 DEF Demotes
  <2>4. \/ /\ adm' \in [Admins -> RequestType] /\ adm'[a].v = adm[a].v /\ Met(a, prod)
        \/ /\ adm' \in [Admins -> RequestType] /\ adm'[a].at = "idle"
           /\ \A b \in Admins \ {a} : adm'[b] = adm[b]
    BY <1>6, DemotesAre
  <2> QED
    BY <2>1, <2>2, <2>3, <2>4 DEF Met
<1>7. ASSUME NEW a \in Admins, PromotesAlone(a) PROVE WellTyped'
  <2>1. adm[a].v \in 1 .. top
    BY <1>7 DEF PromotesAlone, RequestType
  <2>2. prod' \in {prod, prod \cup {adm[a].v}} /\ UNCHANGED <<kind, top, cache, lock, rdr>>
    BY <1>7 DEF PromotesAlone
  <2>3. cacheFaults' \in 0 .. MaxCacheFaults
    BY <1>7 DEF PromotesAlone
  <2>4. \/ /\ adm' \in [Admins -> RequestType] /\ adm'[a].at = "written"
           /\ Met(a, {adm[a].v} \ prod)
        \/ /\ adm' \in [Admins -> RequestType] /\ adm'[a].at = "idle"
           /\ \A b \in Admins \ {a} : adm'[b] = adm[b]
    BY <1>7, PromotesAloneIs
  <2> QED
    BY <2>1, <2>2, <2>3, <2>4 DEF Met
<1>8. ASSUME NEW a \in Admins, ReplacesRouting(a) PROVE WellTyped'
  <2>1. top + 1 \in Versions
    BY <1>8 DEF ReplacesRouting
  <2>2. /\ adm' \in [Admins -> RequestType] /\ adm'[a].at = "written" /\ Met(a, {})
    BY <1>8, <2>1, WritesAre, RequestTypes DEF ReplacesRouting
  <2>3. top' = top + 1 /\ prod' = {top + 1}
    BY <1>8 DEF ReplacesRouting
  <2>4. \A b \in Admins : adm'[b].at \in {"tx", "counted", "demoted"} => adm'[b].v <= top'
    BY <2>2, <2>3 DEF Met, RequestType
  <2> QED
    BY <1>8, <2>1, <2>2, <2>3, <2>4 DEF ReplacesRouting
<1>9. ASSUME NEW a \in Admins, Invalidates(a) PROVE WellTyped'
  <2>1. /\ adm' \in [Admins -> RequestType] /\ adm'[a].at = "idle"
        /\ \A b \in Admins \ {a} : adm'[b] = adm[b]
    BY <1>9, RestingType, GoesAre DEF Invalidates
  <2> QED
    BY <1>9, <2>1 DEF Invalidates
<1>10. ASSUME NEW r \in Readers, Misses(r) PROVE WellTyped'
  BY <1>10 DEF Misses, RdrGoes
<1>11. ASSUME NEW r \in Readers, Locks(r) PROVE WellTyped'
  BY <1>11 DEF Locks, RdrGoes
<1>12. ASSUME NEW r \in Readers, Fetches(r) PROVE WellTyped'
  BY <1>12 DEF Fetches, RdrGoes
<1>13. ASSUME NEW r \in Readers, Stores(r) PROVE WellTyped'
  BY <1>13 DEF Stores, RdrGoes
<1>14. CASE Expires
  BY <1>14 DEF Expires
<1>15. CASE UNCHANGED cacheVars
  BY <1>15 DEF cacheVars
<1> QED
  BY <1>1, <1>2, <1>3, <1>4, <1>5, <1>6, <1>7, <1>8, <1>9, <1>10, <1>11, <1>12, <1>13,
     <1>14, <1>15 DEF CacheNext

LEMMA TangledStep == tangled \in BOOLEAN /\ [CacheNext]_cacheVars => tangled' \in BOOLEAN
<1> SUFFICES ASSUME tangled \in BOOLEAN, [CacheNext]_cacheVars PROVE tangled' \in BOOLEAN
  OBVIOUS
<1>1. \/ tangled' = tangled
      \/ \E a \in Admins : tangled' = (tangled \/ OthersBaseless(a))
  BY Zenon
     DEF CacheNext, cacheVars, ListsVersions, InsertsVersion, BeginsTx, CommitsTx, CountsVersion,
         Demotes, PromotesAlone, ReplacesRouting, Invalidates, Misses, Locks, Fetches, Stores,
         Expires
<1> QED
  BY <1>1, Zenon

(***************************************************************************)
(* Readers, writers, the stored documents and the cache keep their types.  *)
(***************************************************************************)
THEOREM CacheTypeCorrect == CacheSpec => []CacheTypeOK
<1> DEFINE Typed == WellTyped /\ tangled \in BOOLEAN
<1>1. CacheInit => Typed
  BY CacheTypeInit DEF CacheTypeOK
<1>2. Typed /\ [CacheNext]_cacheVars => Typed'
  BY WellTypedStep, TangledStep
<1>3. Typed => CacheTypeOK
  BY DEF CacheTypeOK, WellTyped, RequestType
<1> QED
  BY <1>1, <1>2, <1>3, PTL DEF CacheSpec

-----------------------------------------------------------------------------
(***************************************************************************)
(* What a promotion knows of the production version: all of it while it    *)
(* met no other; and, while nothing is tangled, what its snapshot has for  *)
(* as long as it can commit, for whatever changes that writes a document   *)
(* of the snapshot, unless the snapshot has none.                          *)
(***************************************************************************)
OfPrompts == \A a \in Admins : adm[a].at \in {"listed", "tx", "counted", "demoted"} => kind = "prompt"

KnowsAlone ==
  \A a \in Admins : ~adm[a].met =>
    /\ adm[a].at = "tx" => prod = adm[a].snap
    /\ adm[a].at = "demoted" => prod = {}
    /\ adm[a].at = "written" => prod = {adm[a].v}

KnowsAmong ==
  ~tangled =>
    /\ \A a \in Admins : adm[a].at = "tx" /\ ~adm[a].lost => prod = adm[a].snap
    /\ \A a \in Admins : adm[a].at = "demoted" => prod = {}
    /\ \A v, w \in prod : v = w
    /\ cacheFaults = 0 /\ (\A a \in Admins : adm[a].at # "demoted") => prod # {}

OneIsOpen == OfPrompts /\ KnowsAlone /\ KnowsAmong

(***************************************************************************)
(* What a refill has fetched is as current as the cache, for it holds the  *)
(* lock that an invalidation waits for.                                    *)
(***************************************************************************)
Current(x) == x \in prod \/ (x = Fallback /\ prod = {})

FetchIsCurrent ==
  /\ \A r \in Readers : rdr[r].at \in {"fetching", "fetched"} => lock = r
  /\ cacheFaults = 0 /\ (\A a \in Admins : ~Changing(a)) =>
       /\ cache = Stale \/ Current(cache)
       /\ \A r \in Readers : rdr[r].at = "fetched" => Current(rdr[r].got)

CacheIInv == WellTyped /\ OneIsOpen /\ FetchIsCurrent

LEMMA CacheIInvInit == CacheInit => CacheIInv
<1> SUFFICES ASSUME CacheInit PROVE CacheIInv
  OBVIOUS
<1>1. WellTyped /\ \A a \in Admins : adm[a].at = "idle"
  BY CacheTypeInit, RestingType DEF CacheInit
<1>2. OneIsOpen
  BY <1>1 DEF CacheInit, OneIsOpen, OfPrompts, KnowsAlone, KnowsAmong
<1> QED
  BY <1>1, <1>2 DEF CacheInit, CacheIInv, FetchIsCurrent, Current

LEMMA OneIsOpenStep == CacheIInv /\ [CacheNext]_cacheVars => OneIsOpen'
<1> SUFFICES ASSUME CacheIInv, [CacheNext]_cacheVars PROVE OneIsOpen'
  OBVIOUS
<1> USE CacheAssumption
    DEF CacheIInv, WellTyped, OneIsOpen, CacheFault, NoCacheFault, AdmAt
<1>1. ASSUME NEW a \in Admins, ListsVersions(a) PROVE OneIsOpen'
  <2>1. top + 1 \in Versions
    BY <1>1 DEF ListsVersions, Versions
  <2>2. adm'[a].at = "listed" /\ \A b \in Admins \ {a} : adm'[b] = adm[b]
    BY <1>1, <2>1, GoesAre, RequestTypes DEF ListsVersions
  <2> QED
    BY <1>1, <2>2 DEF ListsVersions, OfPrompts, KnowsAlone, KnowsAmong
<1>2. ASSUME NEW a \in Admins, InsertsVersion(a) PROVE OneIsOpen'
  <2>1. adm'[a].at = "idle" /\ \A b \in Admins \ {a} : adm'[b] = adm[b]
    BY <1>2, RestingType, GoesAre DEF InsertsVersion
  <2> QED
    BY <1>2, <2>1 DEF InsertsVersion, OfPrompts, KnowsAlone, KnowsAmong
<1>3. ASSUME NEW a \in Admins, BeginsTx(a) PROVE OneIsOpen'
  <2>1. PICK v \in 1 .. top : AdmGoes(a, [Request("tx", v) EXCEPT !.snap = prod])
    BY <1>3 DEF BeginsTx, RequestType, Versions
  <2>2. v \in Versions /\ prod \in SUBSET Versions
    BY DEF Versions
  <2>3. /\ adm'[a].at = "tx" /\ adm'[a].snap = prod
        /\ \A b \in Admins \ {a} : adm'[b] = adm[b]
    <3> DEFINE begun == [Request("tx", v) EXCEPT !.snap = prod]
    <3>1. begun \in RequestType /\ begun.at = "tx" /\ begun.v = v /\ begun.snap = prod
      BY <2>2, Snapshots, Zenon
    <3>2. AdmGoes(a, begun)
      BY <2>1
    <3> HIDE DEF begun
    <3> QED
      BY <3>1, <3>2, GoesAre
  <2> QED
    BY <1>3, <2>3 DEF BeginsTx, OfPrompts, KnowsAlone, KnowsAmong
<1>4. ASSUME NEW a \in Admins, CommitsTx(a) PROVE OneIsOpen'
  <2> DEFINE docs == adm[a].snap \cup {adm[a].v}
  <2>1. /\ adm[a].at = "tx" /\ ~adm[a].lost /\ prod' = (prod \ adm[a].snap) \cup {adm[a].v}
        /\ kind' = kind
    BY <1>4 DEF CommitsTx
  <2>2. /\ adm'[a].v = adm[a].v /\ Met(a, docs)
        /\ \/ adm'[a].at = "written" /\ (adm'[a].met <=> adm[a].met) /\ cacheFaults' = cacheFaults
           \/ adm'[a].at = "counted" /\ ~adm'[a].met /\ cacheFaults' # 0
    BY <1>4, CommitsAre
  <2>3. ~tangled' => ~tangled /\ ~OthersBaseless(a)
    BY <1>4, Zenon DEF CommitsTx
  <2>4. OfPrompts'
    BY <2>1, <2>2 DEF Met, OfPrompts
  <2>5. KnowsAlone'
    <3>1. ASSUME adm'[a].at = "written", ~adm'[a].met PROVE prod' = {adm'[a].v}
      BY <2>1, <2>2, <3>1 DEF KnowsAlone
    <3> QED
      BY <2>2, <3>1 DEF Met, KnowsAlone
  <2>6. KnowsAmong'
    <3> SUFFICES ASSUME ~tangled' PROVE KnowsAmong'
      BY Zenon DEF KnowsAmong
    <3>1. /\ prod = adm[a].snap /\ prod' = {adm[a].v}
          /\ \A b \in Admins \ {a} : adm[b].at # "demoted"
          /\ \A b \in Admins \ {a} : adm[b].at = "tx" => adm[b].snap # {}
      BY <2>1, <2>3 DEF KnowsAmong, OthersBaseless
    <3>2. ASSUME NEW b \in Admins \ {a}, adm'[b].at = "tx", ~adm'[b].lost PROVE FALSE
      <4>1. adm[b].at = "tx" /\ ~adm[b].lost /\ docs \cap (adm[b].snap \cup {adm[b].v}) = {}
        BY <2>2, <3>2 DEF Met
      <4>2. prod = adm[b].snap /\ adm[b].snap # {}
        BY <2>3, <3>1, <4>1 DEF KnowsAmong
      <4> QED
        BY <3>1, <4>1, <4>2
    <3>3. \A b \in Admins : adm'[b].at # "demoted"
      BY <2>2, <3>1 DEF Met
    <3>4. \A b \in Admins : ~(adm'[b].at = "tx" /\ ~adm'[b].lost)
      BY <2>2, <3>2
    <3> QED
      BY <3>1, <3>3, <3>4 DEF KnowsAmong
  <2> QED
    BY <2>4, <2>5, <2>6
<1>5. ASSUME NEW a \in Admins, CountsVersion(a) PROVE OneIsOpen'
  <2>1. PICK v \in 1 .. top : AdmGoes(a, Request("counted", v))
    BY <1>5 DEF CountsVersion, RequestType, Versions
  <2>2. v \in Versions
    BY DEF Versions
  <2>3. adm'[a].at = "counted" /\ \A b \in Admins \ {a} : adm'[b] = adm[b]
    BY <2>1, <2>2, GoesAre, RequestTypes
  <2> QED
    BY <1>5, <2>3 DEF CountsVersion, OfPrompts, KnowsAlone, KnowsAmong
<1>6. ASSUME NEW a \in Admins, Demotes(a) PROVE OneIsOpen'
  <2>1. adm[a].at = "counted" /\ kind' = kind /\ tangled' = tangled
    BY <1>6 DEF Demotes
  <2>2. CASE /\ adm'[a].at = "demoted" /\ adm'[a].v = adm[a].v
             /\ Met(a, prod) /\ prod' = {} /\ cacheFaults' = cacheFaults
    <3>1. OfPrompts'
      BY <2>1, <2>2 DEF Met, OfPrompts
    <3>2. KnowsAlone'
      BY <2>2 DEF Met, KnowsAlone
    <3>3. ASSUME ~tangled, NEW b \in Admins \ {a}, adm'[b].at = "tx", ~adm'[b].lost
          PROVE  adm'[b].snap = {}
      BY <2>2, <3>3 DEF Met, KnowsAmong
    <3> QED
      BY <2>1, <2>2, <3>1, <3>2, <3>3 DEF KnowsAmong
  <2>3. CASE /\ adm'[a].at = "idle" /\ (\A b \in Admins \ {a} : adm'[b] = adm[b])
             /\ prod' = prod /\ cacheFaults' # 0
    BY <2>1, <2>3 DEF OfPrompts, KnowsAlone, KnowsAmong
  <2> QED
    BY <1>6, <2>2, <2>3, DemotesAre
<1>7. ASSUME NEW a \in Admins, PromotesAlone(a) PROVE OneIsOpen'
  <2>1. adm[a].at = "demoted" /\ kind' = kind
    BY <1>7 DEF PromotesAlone
  <2>2. CASE /\ adm'[a].at = "written" /\ adm'[a].v = adm[a].v /\ (adm'[a].met <=> adm[a].met)
             /\ Met(a, {adm[a].v} \ prod) /\ prod' = prod \cup {adm[a].v}
             /\ cacheFaults' = cacheFaults /\ tangled' = (tangled \/ OthersBaseless(a))
    <3>1. OfPrompts'
      BY <2>1, <2>2 DEF Met, OfPrompts
    <3>2. KnowsAlone'
      <4>1. ASSUME ~adm'[a].met PROVE prod' = {adm'[a].v}
        BY <2>1, <2>2, <4>1 DEF KnowsAlone
      <4> QED
        BY <2>2, <4>1 DEF Met, KnowsAlone
    <3>3. KnowsAmong'
      <4> SUFFICES ASSUME ~tangled' PROVE KnowsAmong'
        BY Zenon DEF KnowsAmong
      <4>1. ~tangled /\ ~OthersBaseless(a)
        BY <2>2, Zenon
      <4>2. prod = {} /\ prod' = {adm'[a].v}
        BY <2>1, <2>2, <4>1 DEF KnowsAmong
      <4>3. /\ \A b \in Admins \ {a} : adm[b].at # "demoted"
            /\ \A b \in Admins \ {a} : adm[b].at = "tx" => adm[b].snap # {}
        BY <4>1 DEF OthersBaseless
      <4>4. \A b \in Admins : adm'[b].at # "demoted"
        BY <2>2, <4>3 DEF Met
      <4>5. \A b \in Admins : ~(adm'[b].at = "tx" /\ ~adm'[b].lost)
        BY <2>2, <4>1, <4>2, <4>3 DEF Met, KnowsAmong
      <4> QED
        BY <4>2, <4>4, <4>5 DEF KnowsAmong
    <3> QED
      BY <3>1, <3>2, <3>3
  <2>3. CASE /\ adm'[a].at = "idle" /\ (\A b \in Admins \ {a} : adm'[b] = adm[b])
             /\ UNCHANGED <<prod, tangled>> /\ cacheFaults' # 0
    BY <2>1, <2>3 DEF OfPrompts, KnowsAlone, KnowsAmong
  <2> QED
    BY <1>7, <2>2, <2>3, PromotesAloneIs
<1>8. ASSUME NEW a \in Admins, ReplacesRouting(a) PROVE OneIsOpen'
  <2>1. top + 1 \in Versions
    BY <1>8 DEF ReplacesRouting, Versions
  <2>2. adm'[a].at = "written" /\ adm'[a].v = top + 1 /\ Met(a, {})
    BY <1>8, <2>1, WritesAre, RequestTypes DEF ReplacesRouting
  <2>3. kind = "routing" /\ prod' = {top + 1} /\ UNCHANGED <<kind, tangled>>
    BY <1>8 DEF ReplacesRouting
  <2>4. \A b \in Admins : adm'[b].at \notin {"listed", "tx", "counted", "demoted"}
    BY <2>2, <2>3 DEF Met, OfPrompts
  <2>5. KnowsAlone'
    BY <2>2, <2>3 DEF Met, KnowsAlone
  <2> QED
    BY <2>3, <2>4, <2>5 DEF OfPrompts, KnowsAmong
<1>9. ASSUME NEW a \in Admins, Invalidates(a) PROVE OneIsOpen'
  <2>1. adm'[a].at = "idle" /\ \A b \in Admins \ {a} : adm'[b] = adm[b]
    BY <1>9, RestingType, GoesAre DEF Invalidates
  <2> QED
    BY <1>9, <2>1 DEF Invalidates, OfPrompts, KnowsAlone, KnowsAmong
<1>10. ASSUME NEW r \in Readers, Misses(r) PROVE OneIsOpen'
  BY <1>10 DEF Misses, OfPrompts, KnowsAlone, KnowsAmong
<1>11. ASSUME NEW r \in Readers, Locks(r) PROVE OneIsOpen'
  BY <1>11 DEF Locks, OfPrompts, KnowsAlone, KnowsAmong
<1>12. ASSUME NEW r \in Readers, Fetches(r) PROVE OneIsOpen'
  BY <1>12 DEF Fetches, OfPrompts, KnowsAlone, KnowsAmong
<1>13. ASSUME NEW r \in Readers, Stores(r) PROVE OneIsOpen'
  BY <1>13 DEF Stores, OfPrompts, KnowsAlone, KnowsAmong
<1>14. CASE Expires
  BY <1>14 DEF Expires, OfPrompts, KnowsAlone, KnowsAmong
<1>15. CASE UNCHANGED cacheVars
  BY <1>15 DEF cacheVars, OfPrompts, KnowsAlone, KnowsAmong
<1> QED
  BY <1>1, <1>2, <1>3, <1>4, <1>5, <1>6, <1>7, <1>8, <1>9, <1>10, <1>11, <1>12, <1>13,
     <1>14, <1>15 DEF CacheNext

LEMMA FetchIsCurrentStep == CacheIInv /\ [CacheNext]_cacheVars => FetchIsCurrent'
<1> SUFFICES ASSUME CacheIInv, [CacheNext]_cacheVars PROVE FetchIsCurrent'
  OBVIOUS
<1> USE CacheAssumption DEF CacheIInv, NoCacheFault
<1>1. ASSUME NEW a \in Admins, ListsVersions(a) PROVE FetchIsCurrent'
  <2>1. (\A b \in Admins : ~Changing(b))' => \A b \in Admins : ~Changing(b)
    BY <1>1 DEF ListsVersions, Changing, AdmGoes, AdmAt, WellTyped
  <2> QED
    BY <1>1, <2>1 DEF ListsVersions, FetchIsCurrent, Current
<1>2. ASSUME NEW a \in Admins, InsertsVersion(a) PROVE FetchIsCurrent'
  <2>1. (\A b \in Admins : ~Changing(b))' => \A b \in Admins : ~Changing(b)
    BY <1>2 DEF InsertsVersion, Changing, AdmGoes, AdmAt, WellTyped
  <2> QED
    BY <1>2, <2>1 DEF InsertsVersion, FetchIsCurrent, Current
<1>3. ASSUME NEW a \in Admins, BeginsTx(a) PROVE FetchIsCurrent'
  <2>1. (\A b \in Admins : ~Changing(b))' => \A b \in Admins : ~Changing(b)
    BY <1>3 DEF BeginsTx, Changing, AdmGoes, AdmAt, WellTyped
  <2> QED
    BY <1>3, <2>1 DEF BeginsTx, FetchIsCurrent, Current
<1>4. ASSUME NEW a \in Admins, CommitsTx(a) PROVE FetchIsCurrent'
  <2>1. cacheFaults' = 0 => Changing(a)'
    BY <1>4, CommitsAre DEF Changing
  <2> QED
    BY <1>4, <2>1 DEF CommitsTx, FetchIsCurrent
<1>5. ASSUME NEW a \in Admins, CountsVersion(a) PROVE FetchIsCurrent'
  <2>1. (\A b \in Admins : ~Changing(b))' => \A b \in Admins : ~Changing(b)
    BY <1>5 DEF CountsVersion, Changing, AdmGoes, AdmAt, WellTyped
  <2> QED
    BY <1>5, <2>1 DEF CountsVersion, FetchIsCurrent, Current
<1>6. ASSUME NEW a \in Admins, Demotes(a) PROVE FetchIsCurrent'
  <2>1. cacheFaults' = 0 => Changing(a)'
    BY <1>6, DemotesAre DEF Changing
  <2> QED
    BY <1>6, <2>1 DEF Demotes, FetchIsCurrent
<1>7. ASSUME NEW a \in Admins, PromotesAlone(a) PROVE FetchIsCurrent'
  <2>1. cacheFaults' = 0 => Changing(a)'
    BY <1>7, PromotesAloneIs DEF Changing
  <2> QED
    BY <1>7, <2>1 DEF PromotesAlone, FetchIsCurrent
<1>8. ASSUME NEW a \in Admins, ReplacesRouting(a) PROVE FetchIsCurrent'
  <2>1. top + 1 \in Versions
    BY <1>8 DEF ReplacesRouting, Versions, WellTyped
  <2>2. Changing(a)'
    BY <1>8, <2>1, WritesAre, RequestTypes DEF ReplacesRouting, Changing
  <2> QED
    BY <1>8, <2>2 DEF ReplacesRouting, FetchIsCurrent
<1>9. ASSUME NEW a \in Admins, Invalidates(a) PROVE FetchIsCurrent'
  BY <1>9 DEF Invalidates, FetchIsCurrent, Current, WellTyped
<1>10. ASSUME NEW r \in Readers, Misses(r) PROVE FetchIsCurrent'
  BY <1>10 DEF Misses, RdrGoes, FetchIsCurrent, Current, Changing, WellTyped, Versions, Fallback, Stale, CacheFault
<1>11. ASSUME NEW r \in Readers, Locks(r) PROVE FetchIsCurrent'
  BY <1>11 DEF Locks, RdrGoes, FetchIsCurrent, Current, Changing, WellTyped, Versions, Fallback, Stale, CacheFault
<1>12. ASSUME NEW r \in Readers, Fetches(r) PROVE FetchIsCurrent'
  BY <1>12 DEF Fetches, RdrGoes, FetchIsCurrent, Current, Changing, WellTyped, Versions, Fallback, Stale, CacheFault
<1>13. ASSUME NEW r \in Readers, Stores(r) PROVE FetchIsCurrent'
  BY <1>13 DEF Stores, RdrGoes, FetchIsCurrent, Current, Changing, WellTyped, Versions, Fallback, Stale, CacheFault
<1>14. CASE Expires
  BY <1>14 DEF Expires, FetchIsCurrent, Current, Changing
<1>15. CASE UNCHANGED cacheVars
  BY <1>15 DEF cacheVars, FetchIsCurrent, Current, Changing
<1> QED
  BY <1>1, <1>2, <1>3, <1>4, <1>5, <1>6, <1>7, <1>8, <1>9, <1>10, <1>11, <1>12, <1>13,
     <1>14, <1>15 DEF CacheNext

LEMMA CacheIInvAlways == CacheSpec => []CacheIInv
<1>1. CacheIInv /\ [CacheNext]_cacheVars => CacheIInv'
  BY WellTypedStep, OneIsOpenStep, FetchIsCurrentStep DEF CacheIInv
<1> QED
  BY <1>1, CacheIInvInit, PTL DEF CacheSpec

(***************************************************************************)
(* One version is in production, whatever promotions overlap, as long as   *)
(* none is put there while a promotion is open that saw none there; and    *)
(* whatever is there, a promotion that met no other leaves its version     *)
(* alone (AdminCaches.OneProduction).                                      *)
(***************************************************************************)
THEOREM ProductionIsOne == CacheSpec => []OneProduction
<1>1. CacheIInv => OneProduction
  <2> SUFFICES ASSUME CacheIInv PROVE OneProduction
    OBVIOUS
  <2>1. ASSUME ~tangled PROVE Cardinality(prod) <= 1
    <3>1. CASE prod = {}
      BY <3>1, FS_EmptySet
    <3>2. ASSUME NEW v \in prod PROVE Cardinality(prod) <= 1
      <4>1. prod = {v}
        BY <2>1, <3>2 DEF CacheIInv, OneIsOpen, KnowsAmong
      <4>2. Cardinality({v}) = 1
        BY FS_Singleton, Zenon
      <4> QED
        BY <4>1, <4>2
    <3> QED
      BY <3>1, <3>2
  <2>2. ~tangled /\ cacheFaults = 0 /\ (\A a \in Admins : ~AdmAt(a, "demoted")) => prod # {}
    BY DEF CacheIInv, OneIsOpen, KnowsAmong, AdmAt
  <2>3. \A a \in Admins : AdmAt(a, "written") /\ ~adm[a].met => prod = {adm[a].v}
    BY DEF CacheIInv, OneIsOpen, KnowsAlone, AdmAt
  <2> QED
    BY <2>1, <2>2, <2>3 DEF OneProduction
<1> QED
  BY <1>1, CacheIInvAlways, PTL

(***************************************************************************)
(* No refill outlives the invalidation of the change it did not see.       *)
(***************************************************************************)
THEOREM CacheStaysCurrent == CacheSpec => []CacheIsCurrent
<1>1. CacheIInv => CacheIsCurrent
  BY DEF CacheIInv, FetchIsCurrent, Current, CacheIsCurrent
<1> QED
  BY <1>1, CacheIInvAlways, PTL

-----------------------------------------------------------------------------
(***************************************************************************)
(* That a completed run adds up.  Unless the server stopped under it: the  *)
(* totals count the workers that passed the section under the mutex with a *)
(* result; a case without one has not been generated yet or panicked,      *)
(* which is a fault; and the row has the result of every worker that wrote *)
(* it.                                                                     *)
(***************************************************************************)
EvalRows ==
  [status : {"none", "pending", "processing", "completed"}, cases : [Cases -> Results],
   agg : Counts]
EvalStates ==
  [at : {"waiting", "generating", "counting", "upserting", "reporting", "ended"},
   res : Results, snap : Counts]

EvalTypes ==
  /\ row \in EvalRows /\ exec \in {"none", "marking", "fanning", "gone"}
  /\ work \in [Cases -> EvalStates]
  /\ totals \in Counts /\ evalCtx \in BOOLEAN
  /\ evalFaults \in 0 .. MaxEvalFaults /\ unwritten \in BOOLEAN

IsCounted(s) == s.at \in {"upserting", "reporting", "ended"} /\ s.res # "pending"
IsPassed(s)  == IsCounted(s) /\ s.res = "passed"
IsLost(s)    == s.at = "ended" /\ s.res = "pending"
IsWorking(s) == s.at \notin {"waiting", "ended"}

Counted == {c \in Cases : IsCounted(work[c])}
Passed  == {c \in Cases : IsPassed(work[c])}
LostCases == {c \in Cases : IsLost(work[c])}

CaseFits(c) ==
  /\ work[c].at \in {"waiting", "generating"} => work[c].res = "pending"
  /\ work[c].at \in {"counting", "upserting", "reporting"} => work[c].res # "pending"
  /\ exec \in {"none", "marking"} => work[c].at = "waiting"
  /\ ~unwritten => row.cases[c] = IF work[c].at \in {"reporting", "ended"}
                                  THEN work[c].res ELSE "pending"

AddsUp ==
  /\ totals.completed = Cardinality(Counted) /\ totals.passed = Cardinality(Passed)
  /\ Cardinality(LostCases) <= evalFaults
  /\ \A c \in Cases : CaseFits(c)

\* The goroutine waits for its workers, and writes the totals last.
Over ==
  /\ exec = "gone" => \A c \in Cases : work[c].at = "ended"
  /\ row.status = "completed" => exec = "gone" /\ row.agg = totals

Whole == exec # "gone" \/ row.status = "completed"

EvalInv ==
  EvalTypes /\ Cardinality(Working) <= Parallelism /\ Over /\ (Whole => AddsUp)

\* How the size of a set of cases changes with one case.
LEMMA CaseChanges ==
  ASSUME NEW S \in SUBSET Cases, NEW T \in SUBSET Cases, NEW c \in Cases,
         \A d \in Cases \ {c} : d \in S <=> d \in T
  PROVE  /\ Cardinality(S) \in Nat /\ Cardinality(T) \in Nat
         /\ (c \in S <=> c \in T) => Cardinality(T) = Cardinality(S)
         /\ c \notin S /\ c \in T => Cardinality(T) = Cardinality(S) + 1
         /\ c \in S /\ c \notin T => Cardinality(T) = Cardinality(S) - 1
<1>1. IsFiniteSet(S) /\ IsFiniteSet(T)
  BY EvalAssumption, FS_Subset
<1>2. Cardinality(S) \in Nat /\ Cardinality(T) \in Nat
  BY <1>1, FS_CardinalityType
<1>3. (c \in S <=> c \in T) => T = S
  OBVIOUS
<1>4. c \notin S /\ c \in T => T = S \cup {c}
  OBVIOUS
<1>5. c \in S /\ c \notin T => T = S \ {c}
  OBVIOUS
<1> QED
  BY <1>1, <1>2, <1>3, <1>4, <1>5, FS_AddElement, FS_RemoveElement

LEMMA CaseSizes ==
  ASSUME NEW S \in SUBSET Cases
  PROVE  Cardinality(S) \in 0 .. Cardinality(Cases)
<1>1. /\ Cardinality(S) <= Cardinality(Cases) /\ Cardinality(S) \in Nat
      /\ Cardinality(Cases) \in Nat
  BY EvalAssumption, FS_Subset, FS_CardinalityType
<1> QED
  BY <1>1

LEMMA EvalInvInit == EvalInit => EvalInv
<1> SUFFICES ASSUME EvalInit PROVE EvalInv
  OBVIOUS
<1>1. Cardinality({}) = 0 /\ Cardinality(Cases) \in Nat
  BY EvalAssumption, FS_EmptySet, FS_CardinalityType
<1>2. Zero \in Counts
  BY <1>1 DEF Zero, Counts
<1>3. /\ row \in EvalRows /\ work \in [Cases -> EvalStates] /\ totals \in Counts
      /\ exec = "none" /\ evalFaults = 0 /\ row.status = "none" /\ row.cases \in [Cases -> {"pending"}]
      /\ \A c \in Cases : work[c].at = "waiting" /\ work[c].res = "pending"
  BY <1>2 DEF EvalInit, EvalRows, EvalStates, Results
<1>4. evalCtx \in BOOLEAN /\ unwritten \in BOOLEAN
  BY Zenon DEF EvalInit
<1>5. Counted = {} /\ Passed = {} /\ LostCases = {} /\ Working = {}
  BY <1>3 DEF Counted, Passed, LostCases, Working, IsCounted, IsPassed, IsLost
<1>6. totals.completed = 0 /\ totals.passed = 0
  BY DEF EvalInit, Zero
<1>7. AddsUp
  BY <1>1, <1>3, <1>5, <1>6 DEF AddsUp, CaseFits
<1>8. EvalTypes
  BY <1>3, <1>4, EvalAssumption DEF EvalTypes
<1> QED
  BY <1>1, <1>3, <1>5, <1>7, <1>8, EvalAssumption DEF EvalInv, Over

\* What a write of the row does.
LEMMA WriteKeeps ==
  ASSUME EvalTypes, NEW new \in EvalRows, Writes(new)
  PROVE  /\ row' \in EvalRows /\ row' \in {row, new} /\ (~unwritten' => row' = new)
         /\ evalFaults' \in 0 .. MaxEvalFaults /\ evalFaults <= evalFaults'
         /\ unwritten' \in BOOLEAN /\ (unwritten => unwritten')
<1>1. \/ row' = new /\ evalFaults' = evalFaults
      \/ row' = row /\ evalFaults' = evalFaults /\ unwritten' = TRUE
      \/ /\ row' = row /\ evalFaults' = evalFaults + 1 /\ evalFaults < MaxEvalFaults
         /\ unwritten' = TRUE
  BY DEF Writes, EvalFault, NoEvalFault
<1>2. unwritten' = unwritten \/ unwritten' = TRUE
  BY Zenon DEF Writes
<1>3. unwritten' \in BOOLEAN /\ (unwritten => unwritten')
  BY <1>2, Zenon DEF EvalTypes
<1>4. evalFaults' \in 0 .. MaxEvalFaults /\ evalFaults <= evalFaults'
  BY <1>1, EvalAssumption DEF EvalTypes
<1>5. row' \in EvalRows /\ row' \in {row, new}
  BY <1>1 DEF EvalTypes
<1>6. ~unwritten' => row' = new
  BY <1>1
<1> QED
  BY <1>3, <1>4, <1>5, <1>6

LEMMA FaultCosts ==
  ASSUME EvalTypes, EvalFault \/ NoEvalFault
  PROVE  /\ evalFaults' \in 0 .. MaxEvalFaults /\ evalFaults <= evalFaults'
         /\ EvalFault => evalFaults' = evalFaults + 1
BY EvalAssumption DEF EvalTypes, EvalFault, NoEvalFault

\* The worker of one case moves on, to w: what the totals, the row and the faults gain.
Gains(c, w) ==
  /\ totals' = totals \/ totals' = [completed |-> totals'.completed, passed |-> totals'.passed]
  /\ totals'.completed = totals.completed
       + (IF IsCounted(w) /\ ~IsCounted(work[c]) THEN 1 ELSE 0)
  /\ totals'.passed = totals.passed + (IF IsPassed(w) /\ ~IsPassed(work[c]) THEN 1 ELSE 0)
  /\ IsCounted(work[c]) => IsCounted(w)
  /\ IsPassed(work[c]) => IsPassed(w)
  /\ IsLost(w) => evalFaults' = evalFaults + 1
  /\ IsWorking(w) /\ ~IsWorking(work[c]) => Cardinality(Working) < Parallelism

RowTypes ==
  /\ row' \in EvalRows /\ row'.status # "completed"
  /\ evalFaults' \in 0 .. MaxEvalFaults /\ evalFaults <= evalFaults'
  /\ evalCtx' \in BOOLEAN /\ unwritten' \in BOOLEAN /\ (unwritten => unwritten')

WorkerMoves(c, w) ==
  /\ exec = "fanning" /\ exec' = exec /\ work[c].at # "ended"
  /\ work' = [work EXCEPT ![c] = w]
  /\ \A d \in Cases \ {c} : ~unwritten' => row'.cases[d] = row.cases[d]

LEMMA WorkerKeeps ==
  ASSUME EvalInv, NEW c \in Cases, NEW w \in EvalStates, WorkerMoves(c, w), RowTypes,
         Gains(c, w), CaseFits(c)'
  PROVE  EvalInv' /\ totals' \in Counts
<1> USE DEF WorkerMoves, RowTypes, Gains
<1>1. EvalTypes /\ AddsUp /\ row.status # "completed" /\ Cardinality(Working) <= Parallelism
  BY DEF EvalInv, Over, Whole
<1>2. work'[c] = w /\ \A d \in Cases \ {c} : work'[d] = work[d]
  BY <1>1 DEF EvalTypes
<1>3. /\ Cardinality(Counted) \in Nat /\ Cardinality(Counted') \in Nat
      /\ Cardinality(Counted') = Cardinality(Counted)
           + (IF IsCounted(w) /\ ~IsCounted(work[c]) THEN 1 ELSE 0)
  <2>1. /\ Counted \in SUBSET Cases /\ Counted' \in SUBSET Cases
        /\ \A d \in Cases \ {c} : d \in Counted <=> d \in Counted'
        /\ (c \in Counted <=> IsCounted(work[c])) /\ (c \in Counted' <=> IsCounted(w))
    BY <1>2 DEF Counted, IsCounted
  <2> QED
    BY <2>1, CaseChanges
<1>4. /\ Cardinality(Passed) \in Nat /\ Cardinality(Passed') \in Nat
      /\ Cardinality(Passed') = Cardinality(Passed)
           + (IF IsPassed(w) /\ ~IsPassed(work[c]) THEN 1 ELSE 0)
  <2>1. /\ Passed \in SUBSET Cases /\ Passed' \in SUBSET Cases
        /\ \A d \in Cases \ {c} : d \in Passed <=> d \in Passed'
        /\ (c \in Passed <=> IsPassed(work[c])) /\ (c \in Passed' <=> IsPassed(w))
    BY <1>2 DEF Passed, IsPassed, IsCounted
  <2> QED
    BY <2>1, CaseChanges
<1>5. Cardinality(LostCases') <= evalFaults'
  <2>1. /\ LostCases \in SUBSET Cases /\ LostCases' \in SUBSET Cases
        /\ \A d \in Cases \ {c} : d \in LostCases <=> d \in LostCases'
        /\ c \notin LostCases /\ (c \in LostCases' <=> IsLost(w))
    BY <1>2 DEF LostCases, IsLost
  <2>2. /\ Cardinality(LostCases) \in Nat /\ Cardinality(LostCases) <= evalFaults
        /\ Cardinality(LostCases') = Cardinality(LostCases) + (IF IsLost(w) THEN 1 ELSE 0)
    BY <1>1, <2>1, CaseChanges DEF AddsUp
  <2> QED
    BY <2>2, <1>1, EvalAssumption DEF EvalTypes
<1>6. Cardinality(Working') <= Parallelism
  <2>1. /\ Working \in SUBSET Cases /\ Working' \in SUBSET Cases
        /\ \A d \in Cases \ {c} : d \in Working <=> d \in Working'
        /\ (c \in Working <=> IsWorking(work[c])) /\ (c \in Working' <=> IsWorking(w))
    BY <1>2 DEF Working, IsWorking
  <2>2. /\ Cardinality(Working) \in Nat /\ Cardinality(Working') \in Nat
        /\ (IsWorking(w) <=> IsWorking(work[c])) => Cardinality(Working') = Cardinality(Working)
        /\ IsWorking(w) /\ ~IsWorking(work[c]) => Cardinality(Working') = Cardinality(Working) + 1
        /\ ~IsWorking(w) /\ IsWorking(work[c]) => Cardinality(Working') = Cardinality(Working) - 1
    BY <2>1, CaseChanges
  <2>3. Parallelism \in Nat
    BY EvalAssumption
  <2> QED
    BY <1>1, <2>2, <2>3
<1>7. /\ totals'.completed = Cardinality(Counted') /\ totals'.passed = Cardinality(Passed')
  BY <1>1, <1>3, <1>4 DEF AddsUp
<1>8. ASSUME NEW d \in Cases PROVE CaseFits(d)'
  <2>1. CASE d = c
    BY <2>1
  <2>2. CASE d # c
    BY <1>1, <1>2, <2>2 DEF AddsUp, CaseFits
  <2> QED
    BY <2>1, <2>2
<1>9. totals' \in Counts
  <2>1. totals'.completed \in 0 .. Cardinality(Cases) /\ totals'.passed \in 0 .. Cardinality(Cases)
    <3>1. Counted' \in SUBSET Cases /\ Passed' \in SUBSET Cases
      BY DEF Counted, Passed
    <3> QED
      BY <1>7, <3>1, CaseSizes
  <2> QED
    BY <1>1, <2>1 DEF EvalTypes, Counts
<1>10. EvalTypes'
  BY <1>1, <1>9 DEF EvalTypes
<1>11. AddsUp'
  BY <1>5, <1>7, <1>8 DEF AddsUp
<1> QED
  BY <1>6, <1>9, <1>10, <1>11 DEF EvalInv, Over

\* Nobody works for a run that is over.
LEMMA WorkersRun ==
  ASSUME EvalInv, NEW c \in Cases, work[c].at # "ended", work[c].at # "waiting"
  PROVE  /\ exec = "fanning" /\ row.status # "completed" /\ CaseFits(c) /\ EvalTypes
         /\ work[c] \in EvalStates /\ row \in EvalRows /\ row.cases \in [Cases -> Results]
BY DEF EvalInv, Over, Whole, AddsUp, CaseFits, EvalTypes, EvalRows

LEMMA TakesKeeps == ASSUME EvalInv, NEW c \in Cases, TakesCase(c) PROVE EvalInv'
<1>1. /\ EvalTypes /\ work[c] \in EvalStates /\ work[c].at = "waiting" /\ exec = "fanning"
      /\ row.status # "completed" /\ CaseFits(c)
  BY DEF TakesCase, EvalInv, EvalTypes, Over, Whole, AddsUp
<1>2. PICK w : w = [work[c] EXCEPT !.at = "generating"]
  OBVIOUS
<1>3. /\ work' = [work EXCEPT ![c] = w] /\ work'[c] = w
      /\ UNCHANGED <<row, exec, totals, evalCtx, evalFaults, unwritten>>
      /\ Cardinality(Working) < Parallelism
  BY <1>1, <1>2 DEF TakesCase, WorkGoes, NoEvalFault, EvalTypes
<1>4. w \in EvalStates /\ w.at = "generating" /\ w.res = work[c].res
  BY <1>1, <1>2 DEF EvalStates
<1>5. /\ ~IsCounted(w) /\ ~IsPassed(w) /\ ~IsLost(w) /\ ~IsCounted(work[c])
      /\ ~IsPassed(work[c])
  BY <1>1, <1>4 DEF IsCounted, IsPassed, IsLost
<1>6. CaseFits(c)'
  BY <1>1, <1>3, <1>4 DEF CaseFits
<1>7. /\ totals.completed \in Nat /\ totals.passed \in Nat /\ evalFaults \in Nat
  BY <1>1, EvalAssumption, FS_CardinalityType DEF EvalTypes, Counts
<1> QED
  <2>1. WorkerMoves(c, w) /\ RowTypes
    BY <1>1, <1>3 DEF WorkerMoves, RowTypes, EvalTypes
  <2>2. Gains(c, w)
    BY <1>3, <1>5, <1>7 DEF Gains
  <2> QED
    BY <1>4, <1>6, <2>1, <2>2, WorkerKeeps

LEMMA GeneratesKeeps ==
  ASSUME EvalInv, NEW c \in Cases, Generates(c) \/ Panics(c) PROVE EvalInv'
<1>1. /\ work[c].at = "generating" /\ UNCHANGED <<row, exec, totals, evalCtx, unwritten>>
  BY DEF Generates, Panics
<1>2. /\ EvalTypes /\ work[c] \in EvalStates /\ exec = "fanning"
      /\ row.status # "completed" /\ CaseFits(c) /\ work[c].res = "pending"
  BY <1>1, WorkersRun DEF CaseFits
<1>3. \/ \E r \in Results \ {"pending"} :
            work' = [work EXCEPT ![c] = [work[c] EXCEPT !.at = "counting", !.res = r]]
      \/ EvalFault /\ work' = [work EXCEPT ![c] = [work[c] EXCEPT !.at = "ended"]]
  BY <1>2 DEF Generates, Panics, WorkGoes, EvalTypes
<1>4. PICK w : /\ work' = [work EXCEPT ![c] = w]
               /\ \/ \E r \in Results \ {"pending"} :
                        w = [work[c] EXCEPT !.at = "counting", !.res = r]
                  \/ EvalFault /\ w = [work[c] EXCEPT !.at = "ended"]
  BY <1>3
<1>5. /\ w \in EvalStates
      /\ \/ w.at = "counting" /\ w.res # "pending"
         \/ EvalFault /\ w.at = "ended" /\ w.res = "pending"
  BY <1>2, <1>4 DEF EvalStates
<1>6. /\ ~IsCounted(w) /\ ~IsPassed(w) /\ ~IsCounted(work[c]) /\ ~IsPassed(work[c])
      /\ IsLost(w) => EvalFault
      /\ IsWorking(work[c])
  BY <1>1, <1>2, <1>5 DEF IsCounted, IsPassed, IsLost, IsWorking
<1>7. CaseFits(c)'
  <2>1. work'[c] = w
    BY <1>2, <1>4 DEF EvalTypes
  <2> QED
    BY <1>1, <1>2, <1>5, <2>1 DEF CaseFits
<1>8. EvalFault \/ NoEvalFault
  BY DEF Generates, Panics
<1>9. totals.completed \in Nat /\ totals.passed \in Nat
  BY <1>2, EvalAssumption, FS_CardinalityType DEF EvalTypes, Counts
<1> QED
  <2>1. WorkerMoves(c, w) /\ RowTypes
    BY <1>1, <1>2, <1>4, <1>8, FaultCosts DEF WorkerMoves, RowTypes, EvalTypes
  <2>2. Gains(c, w)
    BY <1>1, <1>2, <1>6, <1>8, <1>9, FaultCosts DEF Gains
  <2> QED
    BY <1>5, <1>7, <2>1, <2>2, WorkerKeeps

LEMMA CountsKeeps == ASSUME EvalInv, NEW c \in Cases, CountsCase(c) PROVE EvalInv'
<1>1. /\ work[c].at = "counting" /\ UNCHANGED <<row, exec, evalCtx, evalFaults, unwritten>>
      /\ totals' = [completed |-> totals.completed + 1,
                    passed |-> totals.passed + (IF work[c].res = "passed" THEN 1 ELSE 0)]
  BY DEF CountsCase, NoEvalFault
<1>2. /\ EvalTypes /\ work[c] \in EvalStates /\ exec = "fanning"
      /\ row.status # "completed" /\ CaseFits(c) /\ work[c].res # "pending"
  BY <1>1, WorkersRun DEF CaseFits
<1>3. PICK w : w = [work[c] EXCEPT !.at = "upserting", !.snap = totals']
  OBVIOUS
<1>4. work' = [work EXCEPT ![c] = w]
  BY <1>2, <1>3 DEF CountsCase, EvalTypes
<1>5. w.at = "upserting" /\ w.res = work[c].res
  BY <1>2, <1>3 DEF EvalStates
<1>6. /\ IsCounted(w) /\ ~IsCounted(work[c]) /\ ~IsPassed(work[c]) /\ ~IsLost(w)
      /\ IsPassed(w) <=> work[c].res = "passed"
      /\ IsWorking(work[c])
  BY <1>1, <1>2, <1>5 DEF IsCounted, IsPassed, IsLost, IsWorking
<1>7. CaseFits(c)'
  <2>1. work'[c] = w
    BY <1>2, <1>4 DEF EvalTypes
  <2> QED
    BY <1>1, <1>2, <1>5, <2>1 DEF CaseFits
\* There is room for one more: the case was not counted.
<1>8. totals' \in Counts
  <2>1. /\ Counted \in SUBSET Cases /\ Passed \in SUBSET Cases
        /\ Counted \cup {c} \in SUBSET Cases /\ Passed \cup {c} \in SUBSET Cases
        /\ c \notin Counted /\ c \notin Passed
    BY <1>6 DEF Counted, Passed
  <2>2. /\ Cardinality(Counted \cup {c}) = Cardinality(Counted) + 1
        /\ Cardinality(Passed \cup {c}) = Cardinality(Passed) + 1
    BY <2>1, CaseChanges
  <2>3. /\ Cardinality(Counted) + 1 \in 0 .. Cardinality(Cases)
        /\ Cardinality(Passed) + 1 \in 0 .. Cardinality(Cases)
        /\ Cardinality(Counted) \in 0 .. Cardinality(Cases)
        /\ Cardinality(Passed) \in 0 .. Cardinality(Cases)
    <3>1. /\ Cardinality(Counted \cup {c}) \in 0 .. Cardinality(Cases)
          /\ Cardinality(Passed \cup {c}) \in 0 .. Cardinality(Cases)
          /\ Cardinality(Counted) \in 0 .. Cardinality(Cases)
          /\ Cardinality(Passed) \in 0 .. Cardinality(Cases)
      BY <2>1, CaseSizes
    <3> QED
      BY <2>2, <3>1
  <2>4. totals.completed = Cardinality(Counted) /\ totals.passed = Cardinality(Passed)
    BY <1>2 DEF EvalInv, Whole, AddsUp
  <2>5. /\ totals.completed + 1 \in 0 .. Cardinality(Cases)
        /\ totals.passed + (IF work[c].res = "passed" THEN 1 ELSE 0) \in 0 .. Cardinality(Cases)
    BY <2>3, <2>4
  <2> QED
    BY <1>1, <2>5 DEF Counts
<1>9. w \in EvalStates
  BY <1>2, <1>3, <1>8 DEF EvalStates
<1>10. /\ totals'.completed = totals.completed
             + (IF IsCounted(w) /\ ~IsCounted(work[c]) THEN 1 ELSE 0)
       /\ totals'.passed = totals.passed
             + (IF IsPassed(w) /\ ~IsPassed(work[c]) THEN 1 ELSE 0)
       /\ totals' = [completed |-> totals'.completed, passed |-> totals'.passed]
  <2>1. /\ totals'.completed = totals.completed + 1
        /\ totals'.passed = totals.passed + (IF work[c].res = "passed" THEN 1 ELSE 0)
    BY <1>1
  <2>2. totals' = [completed |-> totals'.completed, passed |-> totals'.passed]
    BY <1>1
  <2> QED
    BY <1>6, <2>1, <2>2
<1>11. evalFaults \in Nat
  BY <1>2, EvalAssumption DEF EvalTypes
<1> QED
  <2>1. WorkerMoves(c, w) /\ RowTypes
    BY <1>1, <1>2, <1>4, <1>11 DEF WorkerMoves, RowTypes, EvalTypes
  <2>2. Gains(c, w)
    BY <1>6, <1>10 DEF Gains
  <2> QED
    BY <1>7, <1>9, <2>1, <2>2, WorkerKeeps

LEMMA UpsertsKeeps ==
  ASSUME EvalInv, NEW c \in Cases, UpsertsCase(c) \/ ReportsProgress(c) PROVE EvalInv'
<1>1. work[c].at \in {"upserting", "reporting"} /\ UNCHANGED <<exec, totals, evalCtx>>
  BY DEF UpsertsCase, ReportsProgress
<1>2. /\ EvalTypes /\ work[c] \in EvalStates /\ exec = "fanning" /\ row \in EvalRows
      /\ row.status # "completed" /\ CaseFits(c) /\ work[c].res # "pending"
      /\ row.cases \in [Cases -> Results]
  BY <1>1, WorkersRun DEF CaseFits
<1>3. PICK w : /\ work' = [work EXCEPT ![c] = w]
               /\ \/ UpsertsCase(c) /\ w = [work[c] EXCEPT !.at = "reporting"]
                  \/ ReportsProgress(c) /\ w = [work[c] EXCEPT !.at = "ended"]
  BY <1>2 DEF UpsertsCase, ReportsProgress, WorkGoes, EvalTypes
<1>4. /\ w \in EvalStates /\ w.res = work[c].res
      /\ \/ UpsertsCase(c) /\ w.at = "reporting" /\ work[c].at = "upserting"
         \/ ReportsProgress(c) /\ w.at = "ended" /\ work[c].at = "reporting"
  BY <1>2, <1>3 DEF EvalStates, UpsertsCase, ReportsProgress
<1>5. /\ IsCounted(w) /\ IsCounted(work[c]) /\ ~IsLost(w) /\ (IsPassed(w) <=> IsPassed(work[c]))
      /\ IsWorking(work[c])
  BY <1>1, <1>2, <1>4 DEF IsCounted, IsPassed, IsLost, IsWorking
<1>6. PICK new : /\ Writes(new) /\ new \in EvalRows /\ new.status # "completed"
                 /\ \A d \in Cases \ {c} : new.cases[d] = row.cases[d]
                 /\ UpsertsCase(c) /\ w.at = "reporting" => new.cases[c] = work[c].res
                 /\ ReportsProgress(c) /\ w.at = "ended" => new.cases[c] = row.cases[c]
  <2>1. CASE UpsertsCase(c) /\ w.at = "reporting"
    <3>1. PICK new : new = [row EXCEPT !.cases = [row.cases EXCEPT ![c] = work[c].res]]
      OBVIOUS
    <3>2. work[c].res \in Results
      BY <1>2 DEF EvalStates
    <3>3. /\ new \in EvalRows /\ new.status = row.status
          /\ new.cases = [row.cases EXCEPT ![c] = work[c].res]
      BY <1>2, <3>1, <3>2 DEF EvalRows
    <3>4. Writes(new)
      BY <2>1, <3>1 DEF UpsertsCase
    <3> QED
      BY <1>2, <2>1, <3>3, <3>4
  <2>2. CASE ReportsProgress(c) /\ w.at = "ended"
    <3>1. PICK new : new = [row EXCEPT !.status = "processing", !.agg = work[c].snap]
      OBVIOUS
    <3>2. work[c].snap \in Counts
      BY <1>2 DEF EvalStates
    <3>3. new \in EvalRows /\ new.status = "processing" /\ new.cases = row.cases
      BY <1>2, <3>1, <3>2 DEF EvalRows
    <3>4. Writes(new)
      BY <2>2, <3>1 DEF ReportsProgress
    <3> QED
      BY <1>2, <2>2, <3>3, <3>4
  <2> QED
    BY <1>4, <2>1, <2>2
<1>7. /\ row' \in EvalRows /\ row'.status # "completed"
      /\ ~unwritten' => row' = new
      /\ evalFaults' \in 0 .. MaxEvalFaults /\ evalFaults <= evalFaults'
      /\ unwritten' \in BOOLEAN /\ (unwritten => unwritten')
  BY <1>2, <1>6, WriteKeeps
<1>8. CaseFits(c)'
  <2>1. work'[c] = w
    BY <1>2, <1>3 DEF EvalTypes
  <2>2. ~unwritten' => row'.cases[c] = w.res
    BY <1>2, <1>4, <1>6, <1>7 DEF CaseFits
  <2> QED
    BY <1>1, <1>2, <1>4, <2>1, <2>2 DEF CaseFits
<1>9. totals.completed \in Nat /\ totals.passed \in Nat
  BY <1>2, EvalAssumption, FS_CardinalityType DEF EvalTypes, Counts
<1> QED
  <2>1. WorkerMoves(c, w)
    BY <1>1, <1>2, <1>3, <1>6, <1>7 DEF WorkerMoves
  <2>2. RowTypes
    BY <1>1, <1>2, <1>7 DEF RowTypes, EvalTypes
  <2>3. Gains(c, w)
    BY <1>1, <1>5, <1>9 DEF Gains
  <2> QED
    BY <1>4, <1>8, <2>1, <2>2, <2>3, WorkerKeeps

\* The goroutine of the run starts, writes its first row, and its last.
LEMMA RunKeeps ==
  ASSUME EvalInv, StartsRun \/ MarksProcessing \/ Finalizes PROVE EvalInv'
<1>1. /\ EvalTypes /\ AddsUp /\ UNCHANGED <<work, totals, evalCtx>> /\ exec # "gone"
      /\ row.status # "completed"
  BY DEF StartsRun, MarksProcessing, Finalizes, EvalInv, Whole, Over
<1>2. /\ row \in EvalRows /\ totals \in Counts /\ Zero \in Counts
  <2>1. 0 \in 0 .. Cardinality(Cases)
    BY EvalAssumption, FS_CardinalityType
  <2> QED
    BY <1>1, <2>1 DEF EvalTypes, Zero, Counts
<1>3. /\ exec' \in {"marking", "fanning", "gone"} /\ row' \in EvalRows
      /\ ~unwritten' => row'.cases = row.cases
      /\ evalFaults' \in 0 .. MaxEvalFaults /\ evalFaults <= evalFaults'
      /\ unwritten' \in BOOLEAN /\ (unwritten => unwritten')
      /\ exec' = "marking" => exec = "none"
      /\ exec' = "gone" <=> Finalizes
      /\ exec' = "gone" => \A c \in Cases : work[c].at = "ended"
      /\ row'.status = "completed" => exec' = "gone" /\ row'.agg = totals
  <2>1. CASE StartsRun
    <3>1. /\ row' \in EvalRows /\ row'.cases = row.cases /\ row'.status = "pending"
      BY <1>2, <2>1 DEF StartsRun, EvalRows
    <3>2. exec = "none" /\ exec' = "marking" /\ UNCHANGED <<evalFaults, unwritten>>
      BY <2>1 DEF StartsRun, NoEvalFault
    <3>3. ~Finalizes
      BY <3>2 DEF Finalizes
    <3> QED
      BY <1>1, <3>1, <3>2, <3>3, EvalAssumption DEF EvalTypes
  <2>2. CASE MarksProcessing
    <3>1. PICK new : new = [row EXCEPT !.status = "processing", !.agg = Zero]
      OBVIOUS
    <3>2. new \in EvalRows /\ new.status = "processing" /\ new.cases = row.cases
      BY <1>2, <3>1 DEF EvalRows
    <3>3. Writes(new) /\ exec = "marking" /\ exec' = "fanning" /\ ~Finalizes
      BY <2>2, <3>1 DEF MarksProcessing, Finalizes
    <3> QED
      BY <1>1, <3>2, <3>3, WriteKeeps
  <2>3. CASE Finalizes
    <3>1. PICK new : new = [row EXCEPT !.status = "completed", !.agg = totals]
      OBVIOUS
    <3>2. new \in EvalRows /\ new.status = "completed" /\ new.cases = row.cases /\ new.agg = totals
      BY <1>2, <3>1 DEF EvalRows
    <3>3. Writes(new) /\ exec' = "gone" /\ \A c \in Cases : work[c].at = "ended"
      BY <2>3, <3>1 DEF Finalizes
    <3> QED
      BY <1>1, <2>3, <3>2, <3>3, WriteKeeps
  <2> QED
    BY <2>1, <2>2, <2>3
<1>4. EvalTypes'
  BY <1>1, <1>3 DEF EvalTypes
<1>5. Over' /\ Working' = Working
  BY <1>1, <1>3 DEF Over, Working
<1>6. ASSUME NEW c \in Cases PROVE CaseFits(c)'
  BY <1>1, <1>3 DEF AddsUp, CaseFits
<1>7. Counted' = Counted /\ Passed' = Passed /\ LostCases' = LostCases
  BY <1>1 DEF Counted, Passed, LostCases
<1>8. Cardinality(LostCases) \in Nat
  BY CaseSizes DEF LostCases
<1>9. AddsUp'
  BY <1>1, <1>3, <1>6, <1>7, <1>8, EvalAssumption DEF AddsUp, EvalTypes
<1> QED
  BY <1>4, <1>5, <1>9 DEF EvalInv

LEMMA TimeoutKeeps == ASSUME EvalInv, HardTimeout PROVE EvalInv'
<1>1. /\ EvalTypes /\ UNCHANGED <<row, exec, work, totals, unwritten>>
      /\ evalFaults' \in 0 .. MaxEvalFaults /\ evalFaults <= evalFaults' /\ evalCtx' \in BOOLEAN
  BY FaultCosts DEF EvalInv, HardTimeout
<1>2. EvalTypes' /\ Over' /\ Working' = Working /\ (Whole' <=> Whole)
  BY <1>1 DEF EvalInv, EvalTypes, Over, Working, Whole
<1>3. Counted' = Counted /\ Passed' = Passed /\ LostCases' = LostCases
  BY <1>1 DEF Counted, Passed, LostCases
<1>4. Cardinality(LostCases) \in Nat
  BY CaseSizes DEF LostCases
<1>5. AddsUp => AddsUp'
  BY <1>1, <1>3, <1>4, EvalAssumption DEF AddsUp, CaseFits, EvalTypes
<1> QED
  BY <1>2, <1>5 DEF EvalInv

\* The run stays as it is, and is not completed.
LEMMA StopKeeps == ASSUME EvalInv, EvalCrash PROVE EvalInv'
<1>1. /\ EvalTypes /\ exec' = "gone" /\ row.status # "completed"
      /\ UNCHANGED <<row, totals, evalCtx, unwritten>>
      /\ evalFaults' \in 0 .. MaxEvalFaults
      /\ work' = [c \in Cases |-> [work[c] EXCEPT !.at = "ended"]]
  BY FaultCosts DEF EvalInv, EvalCrash, Over
<1>2. ASSUME NEW c \in Cases
      PROVE  [work[c] EXCEPT !.at = "ended"] \in EvalStates
             /\ [work[c] EXCEPT !.at = "ended"].at = "ended"
  BY <1>1 DEF EvalTypes, EvalStates
<1>3. work' \in [Cases -> EvalStates] /\ \A c \in Cases : work'[c].at = "ended"
  BY <1>1, <1>2
<1>4. Working' = {}
  BY <1>3 DEF Working
<1>5. Cardinality(Working') <= Parallelism
  BY <1>4, FS_EmptySet, EvalAssumption
<1> QED
  BY <1>1, <1>3, <1>5 DEF EvalInv, EvalTypes, Over, Whole

LEMMA EvalInvStep == EvalInv /\ [EvalNext]_evalVars => EvalInv'
<1> SUFFICES ASSUME EvalInv, [EvalNext]_evalVars PROVE EvalInv'
  OBVIOUS
<1>1. ASSUME UNCHANGED evalVars PROVE EvalInv'
  BY <1>1 DEF evalVars, EvalInv, EvalTypes, Working, Over, Whole, AddsUp, Counted, Passed, LostCases,
              CaseFits
<1> QED
  BY <1>1, TakesKeeps, GeneratesKeeps, CountsKeeps, UpsertsKeeps, RunKeeps, TimeoutKeeps, StopKeeps
     DEF EvalNext

LEMMA EvalInvariant == EvalSpec => []EvalInv
BY EvalInvInit, EvalInvStep, PTL DEF EvalSpec

\* No more cases are under way than the semaphore has slots, whatever panics or fails.
THEOREM EvalTypeCorrect == EvalSpec => []EvalTypeOK
<1>1. EvalInv => EvalTypeOK
  BY DEF EvalInv, EvalTypes, EvalTypeOK, EvalRows, EvalStates
<1> QED
  BY <1>1, EvalInvariant, PTL

\* A completed run shows the totals of its cases and no late snapshot; unless a write
\* failed they are the results of its cases, and a case without one panicked
\* (evals.go, the deferred recover and Finalize after wg.Wait).
THEOREM CompletedAlwaysAddsUp == EvalSpec => []CompletedAddsUp
<1>1. ASSUME EvalInv, row.status = "completed"
      PROVE  /\ row.agg = totals
             /\ ~unwritten => /\ row.agg.completed = Cardinality(With(Results \ {"pending"}))
                              /\ row.agg.passed = Cardinality(With({"passed"}))
                              /\ Cardinality(With({"pending"})) <= evalFaults
  <2>1. /\ row.agg = totals /\ AddsUp /\ row \in EvalRows
        /\ \A c \in Cases : work[c].at = "ended" /\ work[c].res \in Results
    BY <1>1 DEF EvalInv, Over, Whole, EvalTypes, EvalStates
  <2>2. ASSUME ~unwritten
        PROVE  /\ With(Results \ {"pending"}) = Counted /\ With({"passed"}) = Passed
               /\ With({"pending"}) = LostCases
    <3>1. \A c \in Cases : row.cases[c] = work[c].res
      BY <2>1, <2>2 DEF AddsUp, CaseFits
    <3> QED
      BY <2>1, <3>1 DEF With, Counted, Passed, LostCases, IsCounted, IsPassed, IsLost
  <2> QED
    BY <2>1, <2>2 DEF AddsUp
<1>2. EvalInv => CompletedAddsUp
  BY <1>1 DEF CompletedAddsUp
<1> QED
  BY <1>2, EvalInvariant, PTL
=============================================================================
