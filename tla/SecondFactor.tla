---------------------------- MODULE SecondFactor ----------------------------
(***************************************************************************)
(* One account's second factor (AuthService): enrolment in two calls, and  *)
(* a sign-in in two calls once it is on.  Every call reads the user,       *)
(* decides, and then updates the columns it names; other calls of the      *)
(* same account come between.  A code is the secret it was computed from;  *)
(* the thirty-second steps of TOTP and a challenge's five minutes are left *)
(* out, except that a challenge may run out at any time.                   *)
(***************************************************************************)
EXTENDS Naturals, FiniteSets

CONSTANTS
    Calls,       \* calls of the endpoints under way
    MaxSecret,   \* bound: secrets generated
    MaxToggle    \* bound: times an admin switches the account

Secret == 1..MaxSecret
NoSecret == 0

VARIABLES
    user,       \* [active, enabled, secret] of the app_user row
    secrets,    \* secrets generated
    proved,     \* secrets an enable call has seen a code of
    challenge,  \* an unexpired challenge is out
    signedIn,   \* token pairs issued, by what they took
    call,       \* call -> [kind, step, code]
    toggles,
    lapped      \* two calls that change the factor have overlapped

vars == <<user, secrets, proved, challenge, signedIn, call, toggles, lapped>>

Kinds == {"login", "verify", "setup", "enable", "disable"}
Idle == [kind |-> "login", step |-> "idle", code |-> NoSecret]

TypeOK ==
    /\ user \in [active : BOOLEAN, enabled : BOOLEAN, secret : 0..MaxSecret]
    /\ secrets \in 0..MaxSecret
    /\ proved \subseteq Secret
    /\ challenge \in BOOLEAN
    /\ signedIn \subseteq {"password", "code"}
    /\ call \in [Calls -> [kind : Kinds, step : {"idle", "read", "write"}, code : 0..MaxSecret]]
    /\ toggles \in 0..MaxToggle /\ lapped \in BOOLEAN

Init ==
    /\ user = [active |-> TRUE, enabled |-> FALSE, secret |-> NoSecret]
    /\ secrets = 0 /\ proved = {}
    /\ challenge = FALSE /\ signedIn = {}
    /\ call = [c \in Calls |-> Idle]
    /\ toggles = 0 /\ lapped = FALSE

Changing(c) == call[c].kind \in {"setup", "enable", "disable"} /\ call[c].step # "idle"

\* A request with a code: of any secret that has been generated.  Enrolment calls
\* need a session.
Begin(c, kind, code) ==
    /\ call[c] = Idle
    /\ kind \in {"login", "setup"} => code = NoSecret
    /\ kind = "verify" => challenge
    /\ kind \in {"setup", "enable", "disable"} => signedIn # {}
    /\ call' = [call EXCEPT ![c] = [kind |-> kind, step |-> "read", code |-> code]]
    /\ lapped' = (lapped \/ (kind \in {"setup", "enable", "disable"}
                             /\ \E d \in Calls : Changing(d)))
    /\ UNCHANGED <<user, secrets, proved, challenge, signedIn, toggles>>

\* verifyTotp.
Matches(c) == user.secret # NoSecret /\ call[c].code = user.secret

\* What a call requires of the user row it reads; it throws otherwise.
Admits(c) ==
    CASE call[c].kind = "login"   -> user.active
      [] call[c].kind = "verify"  -> user.enabled /\ Matches(c)
      [] call[c].kind = "setup"   -> TRUE
      [] call[c].kind = "enable"  -> Matches(c)
      [] call[c].kind = "disable" -> user.enabled => Matches(c)

Refuse(c) ==
    /\ call[c].step = "read" /\ ~Admits(c)
    /\ call' = [call EXCEPT ![c] = Idle]
    /\ UNCHANGED <<user, secrets, proved, challenge, signedIn, toggles, lapped>>

\* The password is right, and a code is wanted.
Challenge(c) ==
    /\ call[c].step = "read" /\ Admits(c)
    /\ call[c].kind = "login" /\ user.enabled
    /\ challenge' = TRUE
    /\ call' = [call EXCEPT ![c] = Idle]
    /\ UNCHANGED <<user, secrets, proved, signedIn, toggles, lapped>>

Admit(c) ==
    /\ call[c].step = "read" /\ Admits(c)
    /\ ~(call[c].kind = "login" /\ user.enabled)
    /\ call' = [call EXCEPT ![c].step = "write"]
    /\ proved' = IF call[c].kind = "enable" THEN proved \cup {user.secret} ELSE proved
    /\ UNCHANGED <<user, secrets, challenge, signedIn, toggles, lapped>>

Writes(c, kind) ==
    /\ call[c].step = "write" /\ call[c].kind \in kind
    /\ call' = [call EXCEPT ![c] = Idle]
    /\ UNCHANGED <<proved, challenge, toggles, lapped>>

SignIn(c) ==
    /\ Writes(c, {"login", "verify"})
    /\ signedIn' = signedIn \cup {IF call[c].kind = "login" THEN "password" ELSE "code"}
    /\ UNCHANGED <<user, secrets>>

SetupMfa_Why(c) ==
    /\ Writes(c, {"setup"}) /\ secrets < MaxSecret
    /\ secrets' = secrets + 1
    /\ user' = [user EXCEPT !.secret = secrets + 1]
    /\ UNCHANGED signedIn

\* A new secret, not yet on; it replaces one that was.
SetupMfa(c) ==
    /\ Writes(c, {"setup"}) /\ secrets < MaxSecret
    /\ secrets' = secrets + 1
    /\ user' = [user EXCEPT !.secret = secrets + 1, !.enabled = FALSE]
    /\ UNCHANGED signedIn

EnableMfa(c) ==
    /\ Writes(c, {"enable"})
    /\ user' = [user EXCEPT !.enabled = TRUE]
    /\ UNCHANGED <<secrets, signedIn>>

DisableMfa(c) ==
    /\ Writes(c, {"disable"})
    /\ user' = [user EXCEPT !.enabled = FALSE, !.secret = NoSecret]
    /\ UNCHANGED <<secrets, signedIn>>

\* PATCH /users/:id by another admin.
Toggle ==
    /\ toggles < MaxToggle /\ toggles' = toggles + 1
    /\ user' = [user EXCEPT !.active = ~@]
    /\ UNCHANGED <<secrets, proved, challenge, signedIn, call, lapped>>

RunsOut ==
    /\ challenge /\ challenge' = FALSE
    /\ UNCHANGED <<user, secrets, proved, signedIn, call, toggles, lapped>>

Next ==
    \/ \E c \in Calls, kind \in Kinds, code \in 0..secrets : Begin(c, kind, code)
    \/ \E c \in Calls : \/ Refuse(c) \/ Challenge(c) \/ Admit(c)
                        \/ SignIn(c) \/ SetupMfa(c) \/ EnableMfa(c) \/ DisableMfa(c)
    \/ Toggle
    \/ RunsOut

Spec == Init /\ [][Next]_vars

-----------------------------------------------------------------------------
\* The factor is on only with a secret its owner has shown to hold, so that the
\* owner can sign in again and switch it off, unless two of the calls that change
\* it overlapped.  (If they do: enable checks the code of a secret that a setup
\* or disable replaces before the enable writes, and no code signs in any more.)
EnabledIsProved == user.enabled => user.secret \in proved \/ lapped

=============================================================================
