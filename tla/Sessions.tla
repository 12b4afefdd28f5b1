------------------------------ MODULE Sessions ------------------------------
(***************************************************************************)
(* The session of one user: the auth store and the 401 interceptor of the  *)
(* app (app/src/store/authStore.ts, app/src/data/api), its secure storage, *)
(* and the single refresh token the server keeps for the user              *)
(* (backend/internal/auth).                                                *)
(*                                                                         *)
(* Refresh tokens are numbered in the order they are minted; 0 is none.    *)
(* A step of the app is the code between two awaits.  Tokens are saved and *)
(* cleared key by key; messages may be lost, the app may be killed, and    *)
(* another device may sign in.  Access tokens are opaque: they expire at   *)
(* any time.  The web's synchronous localStorage is not modelled.          *)
(***************************************************************************)
EXTENDS Integers

CONSTANTS
  Calls,            \* API requests that meet a 401
  MaxTokens,        \* bound: refresh tokens minted
  MaxSessionFaults  \* bound: lost messages, failed writes, kills, other devices

ASSUME SessionAssumption == MaxTokens \in Nat /\ MaxSessionFaults \in Nat

VARIABLES
  hash,     \* server: refreshTokenHash of the user document
  minted,   \* server: tokens minted so far
  mem,      \* app: session.refreshToken in the store; signed in iff not 0
  bearer,   \* app: _authToken is set
  disk,     \* the three keys of the secure storage
  launch,   \* app: "dead", "restoring", "up"
  rf,       \* the refresh under way (shared promise, or restoreSession's)
  si,       \* the sign-in under way
  clearing, \* keys still to be deleted by signOut or restoreSession
  lo,       \* a logout on its way to the server
  calls,    \* calls[c]: a request that got a 401
  sessFaults, out, crossed  \* history: faults; signed out for good; a sign-out
            \*   met a refresh or a sign-in under way

sessVars == <<hash, minted, mem, bearer, disk, launch, rf, si, clearing, lo, calls,
              sessFaults, out, crossed>>

Tokens == 0 .. MaxTokens
SessFault   == sessFaults < MaxSessionFaults /\ sessFaults' = sessFaults + 1
NoSessFault == UNCHANGED sessFaults
Keys == <<"tok", "ses", "ref">>        \* the order of saveTokenSecurely
GoneKeys == <<"tok", "ref", "ses">>    \* the order of clearTokenSecurely

SessTypeOK ==
  /\ hash \in Tokens /\ minted \in Tokens /\ mem \in Tokens /\ bearer \in BOOLEAN
  /\ disk \in [{"tok", "ses", "ref"} -> Tokens]
  /\ launch \in {"dead", "restoring", "up"}
  /\ rf \in [at : {"none", "posted", "found", "rotated", "refused", "saving"},
             by : {"request", "restore"}, of : Tokens, new : Tokens, key : 1 .. 4]
  /\ si \in [at : {"none", "posted", "answered", "saving"}, new : Tokens, key : 1 .. 4]
  /\ clearing \in 0 .. 3 /\ lo \in Tokens
  /\ calls \in [Calls -> {"idle", "waiting", "done"}]
  /\ sessFaults \in 0 .. MaxSessionFaults /\ out \in BOOLEAN /\ crossed \in BOOLEAN

NoRefresh == [at |-> "none", by |-> "request", of |-> 0, new |-> 0, key |-> 1]
NoSignIn  == [at |-> "none", new |-> 0, key |-> 1]

SessInit ==
  /\ hash = 0 /\ minted = 0 /\ mem = 0 /\ bearer = FALSE /\ launch = "restoring"
  /\ disk = [k \in {"tok", "ses", "ref"} |-> 0]
  /\ rf = NoRefresh /\ si = NoSignIn /\ clearing = 0 /\ lo = 0
  /\ calls = [c \in Calls |-> "idle"]
  /\ sessFaults = 0 /\ out = FALSE /\ crossed = FALSE

-----------------------------------------------------------------------------
(* The server. *)

\* Google or MockLogin: the new token replaces the user's.
ServerSignsIn ==
  /\ si.at = "posted" /\ minted < MaxTokens
  /\ minted' = minted + 1 /\ hash' = minted + 1
  /\ si' = [si EXCEPT !.at = "answered", !.new = minted + 1]
  /\ NoSessFault /\ UNCHANGED <<mem, bearer, disk, launch, rf, clearing, lo, calls, out, crossed>>

\* Refresh: FindByRefreshToken.
ServerFinds ==
  /\ rf.at = "posted"
  /\ rf' = [rf EXCEPT !.at = IF hash = rf.of THEN "found" ELSE "refused"]
  /\ NoSessFault
  /\ UNCHANGED <<hash, minted, mem, bearer, disk, launch, si, clearing, lo, calls, out, crossed>>

\* Refresh: SaveRefreshToken, by user id, whatever the hash is by now.
ServerRotates ==
  /\ rf.at = "found" /\ minted < MaxTokens
  /\ minted' = minted + 1 /\ hash' = minted + 1
  /\ rf' = [rf EXCEPT !.at = "rotated", !.new = minted + 1]
  /\ NoSessFault /\ UNCHANGED <<mem, bearer, disk, launch, si, clearing, lo, calls, out, crossed>>

\* Mutant: logout clears the token of the user, not the one presented.
LogoutClearsUser ==
  /\ lo # 0 /\ lo' = 0 /\ hash' = 0 /\ NoSessFault
  /\ UNCHANGED <<minted, mem, bearer, disk, launch, rf, si, clearing, calls, out, crossed>>

\* Logout: ClearRefreshTokenByHash; nobody waits for it.
ServerLogsOut ==
  /\ lo # 0 /\ lo' = 0
  /\ \/ hash' = (IF hash = lo THEN 0 ELSE hash) /\ NoSessFault
     \/ UNCHANGED hash /\ SessFault
  /\ UNCHANGED <<minted, mem, bearer, disk, launch, rf, si, clearing, calls, out, crossed>>

\* The user signs in on another device.
OtherDevice ==
  /\ minted < MaxTokens /\ SessFault
  /\ minted' = minted + 1 /\ hash' = minted + 1
  /\ UNCHANGED <<mem, bearer, disk, launch, rf, si, clearing, lo, calls, out, crossed>>

-----------------------------------------------------------------------------
(* Sign-in, on the login screen. *)

SignIn ==
  /\ launch = "up" /\ mem = 0 /\ si.at = "none" /\ minted < MaxTokens
  /\ si' = [si EXCEPT !.at = "posted"]
  /\ NoSessFault
  /\ UNCHANGED <<hash, minted, mem, bearer, disk, launch, rf, clearing, lo, calls, out, crossed>>

\* The answer sets the bearer; the session is set once the three keys are saved.
SignInAnswered ==
  /\ si.at = "answered" /\ si' = [si EXCEPT !.at = "saving"]
  /\ bearer' = TRUE /\ out' = FALSE /\ crossed' = (crossed \/ clearing > 0 \/ rf.at # "none")
  /\ NoSessFault /\ UNCHANGED <<hash, minted, mem, disk, launch, rf, clearing, lo, calls>>

SignInSaves ==
  /\ si.at = "saving"
  /\ IF si.key <= 3
     THEN /\ disk' = [disk EXCEPT ![Keys[si.key]] = si.new]
          /\ si' = [si EXCEPT !.key = @ + 1] /\ UNCHANGED mem
     ELSE mem' = si.new /\ si' = NoSignIn /\ UNCHANGED disk
  /\ NoSessFault
  /\ UNCHANGED <<hash, minted, bearer, launch, rf, clearing, lo, calls, out, crossed>>

\* No answer, or a write that fails: the user stays on the login screen.
SignInFails ==
  /\ si.at # "none" /\ SessFault /\ si' = NoSignIn
  /\ UNCHANGED <<hash, minted, mem, bearer, disk, launch, rf, clearing, lo, calls, out, crossed>>

-----------------------------------------------------------------------------
(* signOut. *)

\* Everything up to the first await: logout is sent off, memory is cleared.
SignsOut(busy) ==
  /\ mem' = 0 /\ bearer' = FALSE /\ clearing' = 3
  /\ lo' = IF mem # 0 THEN mem ELSE lo
  /\ out' = TRUE /\ crossed' = (crossed \/ si.at # "none" \/ busy)

\* isSigningOut lets one through.
SignOut ==
  /\ launch = "up" /\ mem # 0 /\ clearing = 0
  /\ SignsOut(rf.at # "none")
  /\ NoSessFault /\ UNCHANGED <<hash, minted, disk, launch, rf, si, calls>>

\* Mutant: the access token is left in the storage.
ClearsRefreshOnly ==
  /\ clearing > 0 /\ clearing' = clearing - 1
  /\ disk' = [disk EXCEPT !.ref = 0]
  /\ NoSessFault /\ UNCHANGED <<hash, minted, mem, bearer, launch, rf, si, lo, calls, out, crossed>>

\* clearTokenSecurely, key by key; a deletion that fails leaves the rest.
Clears ==
  /\ clearing > 0
  /\ \/ /\ disk' = [disk EXCEPT ![GoneKeys[4 - clearing]] = 0] /\ clearing' = clearing - 1
        /\ NoSessFault /\ UNCHANGED out
     \/ SessFault /\ clearing' = 0 /\ out' = (out /\ disk.tok = 0) /\ UNCHANGED disk
  /\ UNCHANGED <<hash, minted, mem, bearer, launch, rf, si, lo, calls, crossed>>

-----------------------------------------------------------------------------
(* The interceptor and refreshSession. *)

\* A 401 joins the refresh under way, starts one, or signs out.
Gets401(c) ==
  /\ launch = "up" /\ calls[c] = "idle" /\ bearer
  /\ \/ /\ rf.at # "none" \/ mem # 0
        /\ calls' = [calls EXCEPT ![c] = "waiting"]
        /\ rf' = IF rf.at = "none" THEN [rf EXCEPT !.at = "posted", !.of = mem] ELSE rf
        /\ UNCHANGED <<mem, bearer, clearing, lo, out, crossed>>
     \/ /\ rf.at = "none" /\ mem = 0 /\ calls' = [calls EXCEPT ![c] = "done"] /\ UNCHANGED rf
        /\ IF clearing = 0 THEN SignsOut(FALSE) ELSE UNCHANGED <<mem, bearer, clearing, lo, out, crossed>>
  /\ NoSessFault /\ UNCHANGED <<hash, minted, disk, launch, si>>

Resolved == [c \in Calls |-> IF calls[c] = "waiting" THEN "done" ELSE calls[c]]

\* The answer sets the bearer, whoever has signed out meanwhile.
RefreshAnswered ==
  /\ rf.at = "rotated" /\ rf' = [rf EXCEPT !.at = "saving"] /\ bearer' = TRUE
  /\ NoSessFault
  /\ UNCHANGED <<hash, minted, mem, disk, launch, si, clearing, lo, calls, out, crossed>>

RefreshSaves ==
  /\ rf.at = "saving"
  /\ IF rf.key <= 3
     THEN /\ disk' = [disk EXCEPT ![Keys[rf.key]] = rf.new]
          /\ rf' = [rf EXCEPT !.key = @ + 1] /\ UNCHANGED <<mem, launch, calls>>
     ELSE mem' = rf.new /\ rf' = NoRefresh /\ launch' = "up" /\ calls' = Resolved /\ UNCHANGED disk
  /\ NoSessFault /\ UNCHANGED <<hash, minted, bearer, si, clearing, lo, out, crossed>>

\* Mutant: the promise of a failed refresh is never cleared.
RefreshHangs ==
  /\ FALSE /\ UNCHANGED sessVars

\* Refused, unanswered or not saved: a waiting request signs the user out, unless
\* a sign-out is under way; restoreSession clears the storage.  (A refresh that finds
\* no token left to mint is refused: a bound of the model.)
RefreshFails ==
  /\ \/ NoSessFault /\ (rf.at = "refused" \/ (rf.at = "found" /\ minted = MaxTokens))
     \/ rf.at \in {"posted", "rotated", "saving"} /\ SessFault
  /\ rf' = NoRefresh /\ calls' = Resolved /\ launch' = "up"
  /\ CASE rf.by = "restore" -> clearing' = 3 /\ UNCHANGED <<mem, bearer, lo, out, crossed>>
       [] rf.by = "request" /\ clearing = 0 -> SignsOut(FALSE)
       [] OTHER -> UNCHANGED <<mem, bearer, clearing, lo, out, crossed>>
  /\ UNCHANGED <<hash, minted, disk, si>>

-----------------------------------------------------------------------------
(* The life of the app. *)

KillApp ==
  /\ launch # "dead" /\ SessFault
  /\ launch' = "dead" /\ mem' = 0 /\ bearer' = FALSE
  /\ rf' = NoRefresh /\ si' = NoSignIn /\ clearing' = 0
  /\ out' = (out /\ clearing \in {0, 1, 2})
  /\ calls' = [c \in Calls |-> IF calls[c] = "waiting" THEN "done" ELSE calls[c]]
  /\ UNCHANGED <<hash, minted, disk, lo, crossed>>

Launch ==
  /\ launch = "dead" /\ launch' = "restoring"
  /\ NoSessFault
  /\ UNCHANGED <<hash, minted, mem, bearer, disk, rf, si, clearing, lo, calls, out, crossed>>

\* restoreSession: nothing stored; a session whose access token still lives; one
\* to be refreshed first; one that cannot be.
Restore ==
  /\ launch = "restoring" /\ rf.at = "none"
  /\ LET kept == IF disk.ref # 0 THEN disk.ref ELSE disk.ses IN
     \/ /\ disk.tok = 0 \/ disk.ses = 0
        /\ launch' = "up" /\ UNCHANGED <<mem, bearer, rf, clearing>>
     \/ /\ disk.tok # 0 /\ disk.ses # 0
        /\ launch' = "up" /\ mem' = kept /\ bearer' = TRUE /\ UNCHANGED <<rf, clearing>>
     \/ /\ disk.tok # 0 /\ disk.ses # 0 /\ disk.ref # 0
        /\ rf' = [rf EXCEPT !.at = "posted", !.by = "restore", !.of = disk.ref]
        /\ UNCHANGED <<mem, bearer, launch, clearing>>
     \/ /\ disk.tok # 0 /\ disk.ses # 0 /\ disk.ref = 0
        /\ launch' = "up" /\ clearing' = 3 /\ UNCHANGED <<mem, bearer, rf>>
  /\ NoSessFault /\ UNCHANGED <<hash, minted, disk, si, lo, calls, out, crossed>>

RefreshStep == ServerFinds \/ ServerRotates \/ RefreshAnswered \/ RefreshSaves \/ RefreshFails

SessNext ==
  \/ ServerSignsIn \/ ServerLogsOut \/ OtherDevice \/ RefreshStep
  \/ SignIn \/ SignInAnswered \/ SignInSaves \/ SignInFails \/ SignOut \/ Clears
  \/ KillApp \/ Launch \/ Restore
  \/ \E c \in Calls : Gets401(c)

SessSpec == SessInit /\ [][SessNext]_sessVars

\* Requests time out on the client, secure storage answers.
SessFairness == WF_sessVars(RefreshStep)

-----------------------------------------------------------------------------
\* A user who signed out while nothing else was under way is signed out, also after
\* the app was killed, until the next sign-in: no storage key, no refresh, no late
\* request brings the session back (authStore.ts #135, #148).
SignedOutStays ==
  out /\ ~crossed => mem = 0 /\ ~bearer /\ (clearing = 0 => disk.tok = 0 \/ disk.ses = 0)

\* Nothing failing, the token the app holds is the one the server accepts and the
\* one a relaunch would find, across refreshes, sign-outs whose logout is late, and
\* new sign-ins (auth/repository.go:116, "can't nuke a newer session").
TokensAgree ==
  sessFaults = 0 /\ ~crossed /\ mem # 0 /\ rf.at = "none" => mem = hash /\ mem = disk.ref

\* A request that waits for the refresh gets an answer (client.ts, "a deadlock that
\* wedges the whole API layer").
RequestsResolve == \A c \in Calls : calls[c] = "waiting" ~> calls[c] # "waiting"
=============================================================================
