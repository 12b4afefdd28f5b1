---------------------------- MODULE AdminConsole ----------------------------
(***************************************************************************)
(* One admin's account: sign-in with a second factor, refresh tokens,      *)
(* enrolment, and what an access token is then good for                    *)
(* (backend/internal/admin: handler.go, mfa_handlers.go, repository.go,    *)
(* permissions.go, routes.go).                                             *)
(*                                                                         *)
(* A request reads the account or a token, decides, and writes later.      *)
(* Access tokens carry the roles and the second factor of the time they    *)
(* were made, and nothing revokes them.  A tick is longer than the context *)
(* of any request and shorter than the life of an access token.  Requests  *)
(* that are refused change nothing and are left out, and so is setup,      *)
(* which keeps no state.                                                   *)
(***************************************************************************)
EXTENDS Integers, FiniteSets

CONSTANTS
  Consoles,        \* browsers of the admin
  StartRoles,      \* sets of roles the account may have at first
  CodeNames,       \* the recovery codes of one enrolment
  AccessTTL, RefreshTTL,
  LastTick,        \* bound: the clock stops
  MaxRequests,     \* bound: sign-ins, refreshes and enrolments
  MaxAdminFaults   \* bound: storage calls that fail

ASSUME ConsoleAssumption ==
  /\ {AccessTTL, RefreshTTL} \subseteq Nat \ {0}
  /\ {LastTick, MaxRequests, MaxAdminFaults} \subseteq Nat
  /\ StartRoles \subseteq SUBSET {"admin", "engineer", "support", "readonly", "curator"}
  /\ "refresh" \notin CodeNames

VARIABLES
  acc,       \* the document of the admin
  valid,     \* admin_refresh_tokens: those not revoked, and when they were issued
  con,       \* the request each browser has under way
  access,    \* and its access token
  was,       \* history: the roles the account had when the operator acted, and when,
  shown,     \*   when a sign-in last showed a second factor,
  spent,     \*   the codes and refresh tokens that were answered with tokens,
  twice,     \*   one of them was answered again,
  crossed,   \*   a request began while another was under way
  tick, requests, adminFaults

consoleVars ==
  <<acc, valid, con, access, was, shown, spent, twice, crossed, tick, requests,
    adminFaults>>

-----------------------------------------------------------------------------
(* Permissions, and the operations that ask for them. *)

Permissions ==
  {"users:read", "users:pii", "users:purge", "traces:read", "traces:rerun", "training:export",
   "prompts:read", "prompts:write", "defaults:write", "detections:rerun", "spend:read",
   "budgets:write", "routing:write", "reports:send", "admins:manage", "sessions:view"}

RolePermissions ==
  [admin    |-> Permissions,
   engineer |-> {"users:read", "traces:read", "traces:rerun", "training:export",
                 "prompts:read", "prompts:write", "defaults:write", "detections:rerun",
                 "spend:read"},
   support  |-> {"users:read", "users:pii", "spend:read"},
   readonly |-> {"users:read", "traces:read", "spend:read"},
   curator  |-> {"prompts:read", "prompts:write", "defaults:write"}]

AdminRoles == DOMAIN RolePermissions

\* needs: the permission of the route, if it has one, and that of the handler; mfa: a
\* token made with a second factor.
Op(needs) == [needs |-> needs, mfa |-> FALSE]

\* The routes, with the permission that reading asks for, and the writes below them.
Searching         == Op({"users:pii"})
ViewingSessions   == Op({"sessions:view"})
RecordingEvents   == Op({})
ReadingUsers      == Op({"users:read"})
ReadingSpend      == Op({"spend:read"})
ReadingTraces     == Op({"traces:read"})
ReadingPrompts    == Op({"prompts:read"})
UpdateUserBudget  == Op({"users:read", "budgets:write"})
AuditPIIReveal    == Op({"users:pii"})
SendWeeklyReport  == Op({"reports:send"})
UpdateRouting     == Op({"spend:read", "routing:write"})
StartEvalRun      == Op({"traces:read", "prompts:write"})
CreateFunnel      == Op({"traces:read", "prompts:write"})
ReplayTrace       == Op({"traces:read", "traces:rerun"})
ActOnHitlItem     == Op({"traces:read", "traces:rerun"})
TrainingAction    == Op({"traces:read", "traces:rerun"})
TrainingExport    == Op({"traces:read", "training:export"})
RerunDetection    == Op({"traces:read", "detections:rerun"})
WritePrompt       == Op({"prompts:read", "prompts:write"})
WriteDefault      == Op({"prompts:read", "defaults:write"})
SeedWardrobe      == Op({"users:read", "users:purge"})
PurgeUser         == [SeedWardrobe EXCEPT !.mfa = TRUE]

Operations ==
  {Searching, ViewingSessions, RecordingEvents, ReadingUsers, ReadingSpend, ReadingTraces,
   ReadingPrompts, UpdateUserBudget, AuditPIIReveal, SendWeeklyReport, UpdateRouting,
   StartEvalRun, CreateFunnel, ReplayTrace, ActOnHitlItem, TrainingAction, TrainingExport,
   RerunDetection, WritePrompt, WriteDefault, SeedWardrobe, PurgeUser}

\* HasPermission, for the permission of the route and for that of the handler.
Granted(roles, op) ==
  op.needs \subseteq UNION {RolePermissions[r] : r \in roles}

-----------------------------------------------------------------------------
NoStep == -1           \* the document has no mfaLastTotpStep (bson omitempty)
Long   == AccessTTL + 1  \* ago, for what has not happened

\* Request n issues refresh token n, or enrols secret n, with codes of its own; secret 0
\* was enrolled before; the lost-device procedure leads to an account that is not enrolled.
NoSecret == -1
Numbers == 0 .. MaxRequests
Codes    == Numbers \X CodeNames
RefreshOf(n) == <<n, "refresh">>
NoToken  == [made |-> -Long, roles |-> {}, mfa |-> FALSE]
NoRequest == [at |-> "idle", n |-> 0, began |-> 0, roles |-> {}, mfa |-> FALSE,
              using |-> {}, rest |-> {}, step |-> NoStep]

Busy(c)  == con[c].at # "idle"
Enrolled == acc.secret # NoSecret
Live(t)  == tick - t.made < AccessTTL
AdminFault   == adminFaults < MaxAdminFaults /\ adminFaults' = adminFaults + 1
NoAdminFault == UNCHANGED adminFaults

Factors == Codes \cup {RefreshOf(n) : n \in Numbers}

AdminAccounts ==
  [roles : SUBSET AdminRoles, disabled : BOOLEAN, secret : NoSecret .. MaxRequests,
   codes : SUBSET Codes, lastStep : NoStep .. LastTick]
ConStages ==
  {"idle", "marking", "consuming", "issuing", "reading", "revoking", "enrolling"}
ConRequests ==
  [at : ConStages, n : Numbers, began : 0 .. LastTick, roles : SUBSET AdminRoles, mfa : BOOLEAN,
   using : SUBSET Factors, rest : SUBSET Codes, step : NoStep .. LastTick]
AccessTokens == [made : -Long .. LastTick, roles : SUBSET AdminRoles, mfa : BOOLEAN]

ConsoleTypeOK ==
  /\ acc \in AdminAccounts
  /\ valid \subseteq [n : Numbers, made : 0 .. LastTick]
  /\ con \in [Consoles -> ConRequests] /\ access \in [Consoles -> AccessTokens]
  /\ was \in [roles : SUBSET AdminRoles, at : -Long .. LastTick] /\ shown \in -Long .. LastTick
  /\ spent \subseteq Factors /\ twice \in BOOLEAN /\ crossed \in BOOLEAN
  /\ tick \in 0 .. LastTick /\ requests \in 0 .. MaxRequests
  /\ adminFaults \in 0 .. MaxAdminFaults

ConsoleInit ==
  /\ \E r \in StartRoles :
       acc = [roles |-> r, disabled |-> FALSE, secret |-> 0, codes |-> {0} \X CodeNames,
              lastStep |-> NoStep]
  /\ valid = {} /\ con = [c \in Consoles |-> NoRequest] /\ access = [c \in Consoles |-> NoToken]
  /\ was = [roles |-> {}, at |-> -Long] /\ shown = -Long
  /\ spent = {} /\ twice = FALSE /\ crossed = FALSE
  /\ tick = 0 /\ requests = 0 /\ adminFaults = 0

-----------------------------------------------------------------------------
(* Each request begins by reading, and numbers what it will write. *)

ConGoes(c, at) == con' = [con EXCEPT ![c].at = at]
ConEnds(c)     == con' = [con EXCEPT ![c] = NoRequest]

ConBegins(c, request) ==
  /\ ~Busy(c) /\ requests < MaxRequests /\ requests' = requests + 1
  /\ con' = [con EXCEPT ![c] = [request EXCEPT !.n = requests + 1, !.began = tick]]
  /\ crossed' = (crossed \/ \E d \in Consoles : Busy(d))
  /\ NoAdminFault /\ UNCHANGED <<acc, valid, access, was, shown, spent, twice, tick>>

\* Login up to the decision on the second factor.
SignsIn(at) == [NoRequest EXCEPT !.at = at, !.roles = acc.roles]

LoginReads(c) ==
  /\ ~acc.disabled
  /\ \/ ~Enrolled /\ ConBegins(c, SignsIn("issuing"))
     \/ \E step \in {tick - 1, tick} \cap Nat :       \* VerifyTOTPStep, with its skew
          Enrolled /\ ConBegins(c, [SignsIn("marking") EXCEPT !.step = step])
     \/ \E code \in acc.codes :                        \* ConsumeRecoveryCode
          Enrolled /\ ConBegins(c, [SignsIn("consuming") EXCEPT
                                   !.using = {code}, !.rest = acc.codes \ {code}])

\* MarkTOTPStepUsed: `$lt` matches no document without the field.
LoginMarks(c) ==
  LET step  == con[c].step
      fresh == acc.lastStep # NoStep /\ acc.lastStep < step
      Shown == con' = [con EXCEPT ![c].at = "issuing", ![c].mfa = TRUE]
  IN  /\ con[c].at = "marking"
      /\ \/ NoAdminFault /\ acc' = [acc EXCEPT !.lastStep = IF fresh THEN step ELSE @]
            /\ IF fresh THEN Shown ELSE ConEnds(c)
         \/ AdminFault /\ Shown /\ UNCHANGED acc         \* "(allowing)"
      /\ UNCHANGED <<valid, access, was, shown, spent, twice, crossed, tick, requests>>

Consumes(c, remaining) ==
  /\ con[c].at = "consuming"
  /\ con' = [con EXCEPT ![c].at = "issuing", ![c].mfa = TRUE]
  /\ \/ NoAdminFault /\ acc' = [acc EXCEPT !.codes = remaining]
     \/ AdminFault /\ (UNCHANGED acc \/ acc' = [acc EXCEPT !.codes = remaining])
  /\ UNCHANGED <<valid, access, was, shown, spent, twice, crossed, tick, requests>>

\* Mutant: the list is written back with the code that was used.
LoginKeepsCode(c) == Consumes(c, con[c].rest \cup con[c].using)

\* SetMFARecoveryCodes: the whole list, as it was read, without the code.
LoginConsumes(c) == Consumes(c, con[c].rest)

\* GenerateToken and SaveRefreshToken; a refresh token that was not answered is
\* known to nobody.
Issues(c) ==
  /\ con[c].at = "issuing" /\ ConEnds(c)
  /\ \/ /\ NoAdminFault
        /\ valid' = valid \cup {[n |-> con[c].n, made |-> tick]}
        /\ access' = [access EXCEPT ![c] =
                        [made |-> tick, roles |-> con[c].roles, mfa |-> con[c].mfa]]
        /\ shown' = IF con[c].mfa THEN con[c].began ELSE shown
        /\ spent' = spent \cup con[c].using
        /\ twice' = (twice \/ con[c].using \cap spent # {})
     \/ AdminFault /\ UNCHANGED <<valid, access, shown, spent, twice>>
  /\ UNCHANGED <<acc, was, crossed, tick, requests>>

-----------------------------------------------------------------------------
(* Refresh, and MFAVerify. *)

\* FindRefreshToken: not revoked and not expired.  Tabs share the token.
RefreshFinds(c) ==
  \E t \in valid :
    /\ tick - t.made < RefreshTTL
    /\ ConBegins(c, [NoRequest EXCEPT !.at = "reading", !.using = {RefreshOf(t.n)}])

FoundAdmin(c) ==
  /\ con[c].at = "reading"
  /\ \/ con' = [con EXCEPT ![c].at = "revoking", ![c].roles = acc.roles] /\ NoAdminFault
     \/ AdminFault /\ ConEnds(c)
  /\ UNCHANGED <<acc, valid, access, was, shown, spent, twice, crossed, tick, requests>>

\* Mutant: a disabled account may still refresh.
RefreshReadsAny(c) == FoundAdmin(c)

\* FindByID: a disabled account is refused.
RefreshReads(c) ==
  IF acc.disabled
  THEN /\ con[c].at = "reading" /\ ConEnds(c)
       /\ UNCHANGED <<acc, valid, access, was, shown, spent, twice, crossed, tick, requests,
                      adminFaults>>
  ELSE FoundAdmin(c)

Revokes(c) ==
  LET revoked == {t \in valid : RefreshOf(t.n) \notin con[c].using}
  IN  /\ con[c].at = "revoking"
      /\ \/ NoAdminFault /\ valid' = revoked /\ ConGoes(c, "issuing")
         \/ AdminFault /\ valid' \in {valid, revoked} /\ ConEnds(c)
      /\ UNCHANGED <<acc, access, was, shown, spent, twice, crossed, tick, requests>>

\* A live token, and the new secret's code; re-enrolment asks for the second factor of
\* the old one, too, which the admin has.  It may find the account disabled.
EnrollReads(c) == Live(access[c]) /\ ConBegins(c, [NoRequest EXCEPT !.at = "enrolling"])

\* SetMFAEnrollment: a secret and the codes that go with it, in one update.
EnrollWrites(c) ==
  LET n        == con[c].n
      enrolled == [acc EXCEPT !.secret = n, !.codes = {n} \X CodeNames]
  IN  /\ con[c].at = "enrolling" /\ ConEnds(c)
      /\ \/ NoAdminFault /\ acc' = enrolled
         \/ AdminFault /\ acc' \in {acc, enrolled}
      /\ UNCHANGED <<valid, access, was, shown, spent, twice, crossed, tick, requests>>

-----------------------------------------------------------------------------
(* The operator, once, and the clock. *)

\* The lost-device procedure.
DisableMFA == [acc EXCEPT !.secret = NoSecret, !.codes = {}]

\* Roles and disabledAt are changed in the database, too.
Operates ==
  /\ was.at = -Long /\ was' = [roles |-> acc.roles, at |-> tick]
  /\ acc' \in {[acc EXCEPT !.disabled = TRUE], [acc EXCEPT !.roles = {"readonly"}], DisableMFA}
  /\ NoAdminFault
  /\ UNCHANGED <<valid, con, access, shown, spent, twice, crossed, tick, requests>>

\* A request is over within a tick of its beginning.
ConsoleTick ==
  /\ tick < LastTick /\ tick' = tick + 1
  /\ \A c \in Consoles : Busy(c) => con[c].began = tick
  /\ NoAdminFault
  /\ UNCHANGED <<acc, valid, con, access, was, shown, spent, twice, crossed, requests>>

ConsoleStep(c) ==
  \/ LoginReads(c) \/ LoginMarks(c) \/ LoginConsumes(c) \/ Issues(c)
  \/ RefreshFinds(c) \/ RefreshReads(c) \/ Revokes(c)
  \/ EnrollReads(c) \/ EnrollWrites(c)

ConsoleNext ==
  \/ \E c \in Consoles : ConsoleStep(c)
  \/ Operates \/ ConsoleTick

ConsoleSpec == ConsoleInit /\ [][ConsoleNext]_consoleVars

-----------------------------------------------------------------------------
\* RequireAdminAuth, RequirePermission and the checks in the handlers: what the token of
\* browser c is good for now.
Accepted(c, op) ==
  Live(access[c]) /\ Granted(access[c].roles, op) /\ (op.mfa => access[c].mfa)

\* Nothing revokes an access token, yet an operation is only accepted if the account was
\* enabled and had the permission within the life of a token, however often the session
\* was refreshed meanwhile; and one that asks for a second factor ("dropped on refresh",
\* privacy.go:74) only if a sign-in showed one within it.
AcceptedIsWarranted ==
  \A c \in Consoles, op \in Operations :
    Accepted(c, op) =>
      /\ LET now    == IF acc.disabled THEN {} ELSE acc.roles
             lately == IF tick - was.at <= AccessTTL THEN was.roles ELSE {}
         IN  Granted(now \cup lately, op)
      /\ op.mfa => tick - shown <= AccessTTL

\* Recovery codes and refresh tokens are "single-use" (handler.go:369, totp.go:137), and
\* the codes of an enrolled account are those of its present secret: as long as the
\* requests of the account do not overlap and the writes succeed; nothing else in the code
\* ensures either.  The operator may come between: a sign-in that is under way then writes
\* the codes it read into the account that is not enrolled any more.
FactorsSpentOnce ==
  ~crossed /\ adminFaults = 0 =>
    ~twice /\ (Enrolled => \A code \in acc.codes : code[1] = acc.secret)
=============================================================================
