---------------------------- MODULE Notifications ----------------------------
(***************************************************************************)
(* A tenant's notification settings and the delivery of one alert after    *)
(* the other.  Settings are read, merged with what the caller names and    *)
(* written back (NotificationsService; AlertsService does the same with    *)
(* its own), so two callers can lose each other's change.  A dispatch      *)
(* reads the settings once and runs its channels independently: each       *)
(* webhook is tried up to Retries times, each mail once.                   *)
(***************************************************************************)
EXTENDS Naturals, FiniteSets

CONSTANTS
    Urls,        \* webhook URLs a tenant may configure
    Callers,     \* concurrent PUT /notification-config
    MaxPut,      \* bound: updates of the settings
    MaxSecret,   \* bound: signing secrets generated
    MaxAlert,    \* bound: alerts dispatched
    Retries      \* WebhookChannel.retries

Key == 0..MaxSecret      \* a signing secret; 0 is none yet

VARIABLES
    config,     \* notification_config: URLs, whether mail is wanted, types, secret
    secrets,    \* secrets generated
    puts,       \* updates begun
    put,        \* caller -> the update it is making
    alerts,     \* alerts dispatched
    sent,       \* the dispatch under way
    lapped      \* two updates have overlapped

vars == <<config, secrets, puts, put, alerts, sent, lapped>>

Config == [urls : SUBSET Urls, mail : BOOLEAN, wanted : BOOLEAN, secret : Key]
\* What comes of an attempt: 2xx; 5xx, 429 or no answer; another 4xx.
Reply == {"ok", "busy", "refused"}
Outcome == {"unsent", "accepted", "refused", "failed"}
NoPut == [step |-> "idle"]
NoDispatch == [step |-> "idle"]

TypeOK ==
    /\ config \in Config
    /\ secrets \in 0..MaxSecret /\ puts \in 0..MaxPut
    /\ alerts \in 0..MaxAlert
    /\ lapped \in BOOLEAN
    /\ sent # NoDispatch =>
         /\ sent.to \in Config
         /\ sent.tries \in [sent.to.urls -> 0..Retries]
         /\ sent.hook \in [sent.to.urls -> Outcome]
         /\ sent.mail \in Outcome

Init ==
    /\ config = [urls |-> {}, mail |-> FALSE, wanted |-> TRUE, secret |-> 0]
    /\ secrets = 0 /\ puts = 0
    /\ put = [c \in Callers |-> NoPut]
    /\ alerts = 0 /\ sent = NoDispatch
    /\ lapped = FALSE

-----------------------------------------------------------------------------
(* Settings                                                                *)

\* setConfig reads.  The patch names the URLs, mail, or the types.
Get(c, patch) ==
    /\ put[c] = NoPut /\ puts < MaxPut
    /\ puts' = puts + 1
    /\ put' = [put EXCEPT ![c] = [step |-> "set", read |-> config, patch |-> patch]]
    /\ lapped' = (lapped \/ \E d \in Callers : put[d] # NoPut)
    /\ UNCHANGED <<config, secrets, alerts, sent>>

Merge(read, patch) ==
    [k \in DOMAIN read |-> IF k \in DOMAIN patch THEN patch[k] ELSE read[k]]

NeedsSecret_Why(merged) == merged.urls # {}

\* "Generate a stable signing secret the first time webhooks are configured."
NeedsSecret(merged) == merged.urls # {} /\ merged.secret = 0

Set(c) ==
    /\ put[c] # NoPut
    /\ LET merged == Merge(put[c].read, put[c].patch) IN
       IF NeedsSecret(merged)
       THEN /\ secrets < MaxSecret /\ secrets' = secrets + 1
            /\ config' = [merged EXCEPT !.secret = secrets + 1]
       ELSE config' = merged /\ UNCHANGED secrets
    /\ put' = [put EXCEPT ![c] = NoPut]
    /\ UNCHANGED <<puts, alerts, sent, lapped>>

-----------------------------------------------------------------------------
(* Delivery                                                                *)

\* dispatch(): not for a type the tenant filters out, nor with nobody to tell.
Dispatch ==
    /\ sent = NoDispatch /\ alerts < MaxAlert
    /\ alerts' = alerts + 1
    /\ sent' = IF config.wanted /\ (config.urls # {} \/ config.mail)
               THEN [step |-> "out", to |-> config,
                     tries |-> [u \in config.urls |-> 0],
                     hook |-> [u \in config.urls |-> "unsent"],
                     mail |-> "unsent"]
               ELSE NoDispatch
    /\ UNCHANGED <<config, secrets, puts, put, lapped>>

Out == sent # NoDispatch

\* 2xx ends it, a 4xx other than 429 ends it, anything else is tried again until
\* the attempts are used up.
Verdict(u, reply) ==
    CASE reply = "ok" -> "accepted"
      [] reply = "refused" -> "refused"
      [] OTHER -> IF sent.tries[u] + 1 = Retries THEN "failed" ELSE "unsent"

Post(u, reply) ==
    /\ Out /\ u \in sent.to.urls /\ sent.hook[u] = "unsent"
    /\ sent' = [sent EXCEPT !.hook[u] = Verdict(u, reply), !.tries[u] = @ + 1]
    /\ UNCHANGED <<config, secrets, puts, put, alerts, lapped>>

Mail(outcome) ==
    /\ Out /\ sent.to.mail /\ sent.mail = "unsent"
    /\ sent' = [sent EXCEPT !.mail = outcome]
    /\ UNCHANGED <<config, secrets, puts, put, alerts, lapped>>

\* Promise.allSettled: neither channel's failure keeps the other from going out.
Settle ==
    /\ Out /\ (sent.to.mail => sent.mail # "unsent")
    /\ \A u \in sent.to.urls : sent.hook[u] # "unsent"
    /\ sent' = NoDispatch
    /\ UNCHANGED <<config, secrets, puts, put, alerts, lapped>>

Patches == {[urls |-> us] : us \in SUBSET Urls} \cup {[mail |-> b] : b \in BOOLEAN}
             \cup {[wanted |-> b] : b \in BOOLEAN}

Next ==
    \/ \E c \in Callers : Set(c) \/ \E p \in Patches : Get(c, p)
    \/ Dispatch
    \/ \E u \in Urls, reply \in Reply : Post(u, reply)
    \/ \E o \in {"accepted", "failed"} : Mail(o)
    \/ Settle

Spec == Init /\ [][Next]_vars

-----------------------------------------------------------------------------
\* A receiver that has learnt the signing secret keeps being able to check the
\* signatures: the secret never changes once it is there, unless two updates
\* overlapped (both may then generate the first one).
SecretIsStable == [][config.secret # 0 => config'.secret = config.secret \/ lapped]_vars

=============================================================================
