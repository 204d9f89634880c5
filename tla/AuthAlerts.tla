----------------------------- MODULE AuthAlerts -------------------------------
(***************************************************************************)
(* Mails about logins and password changes (api/notifications.rs and       *)
(* email/smtp.rs over the smtp_settings row of db/mod.rs).  A handler      *)
(* starts a task and goes on; the task reads the settings and sends by     *)
(* what it has read, while they are edited.                                *)
(***************************************************************************)
EXTENDS Naturals, FiniteSets

CONSTANTS
    Alert,      \* notification tasks
    Updates,    \* bodies of smtp_put, see UpdateType
    MaxEdits,   \* bound on edits of the settings
    MaxLost     \* bound on failing calls and restarts

Kind == {"login", "failure", "password"}
\* complete: host, sender and receiver are given; user: a user name is; secret: "keep"
\* leaves the password out of the body, "clear" empties it, "set" gives one.
UpdateType == [enabled : BOOLEAN, flags : SUBSET Kind, complete : BOOLEAN, user : BOOLEAN,
               secret : {"keep", "clear", "set"}]

ASSUME AlertsAssumption ==
    /\ Updates \subseteq UpdateType
    /\ MaxEdits \in Nat /\ MaxLost \in Nat

VARIABLES
    smtp,                   \* the row: the fields of a body, secret a Boolean
    alert, alertKind, alertRead, \* tasks: control state, event, settings read
    edits, lost,            \* edits and failures so far
    always, never           \* history: tasks whose mail all settings since the event want,
                            \* and tasks whose mail none of them does

alertVars == <<smtp, alert, alertKind, alertRead, edits, lost, always, never>>

\* The checks of notify_auth_event and of send_email.
Wants(s, kind) == s.enabled /\ kind \in s.flags
Sendable(s) == s.complete /\ (s.user => s.secret)
Mails(s, kind) == Wants(s, kind) /\ Sendable(s)

Off == [enabled |-> FALSE, flags |-> {}, complete |-> FALSE, user |-> FALSE, secret |-> FALSE]

InitAlerts ==
    /\ smtp = Off
    /\ alert = [a \in Alert |-> "none"]
    /\ alertKind = [a \in Alert |-> "login"]
    /\ alertRead = [a \in Alert |-> Off]
    /\ edits = 0 /\ lost = 0
    /\ always = {} /\ never = {}

Lose == lost < MaxLost /\ lost' = lost + 1

\* update_smtp_settings: a password that is not in the body stays.
SecretAfter(u) == IF u.secret = "keep" THEN smtp.secret ELSE u.secret = "set"

SmtpPut(u) ==
    /\ edits < MaxEdits /\ edits' = edits + 1
    /\ smtp' = [u EXCEPT !.secret = SecretAfter(u)]
    /\ always' = {a \in always : Mails(smtp', alertKind[a])}
    /\ never' = {a \in never : ~Mails(smtp', alertKind[a])}
    /\ UNCHANGED <<alert, alertKind, alertRead, lost>>

\* notify_login, notify_login_failure, notify_password_change.
NotifyAuthEvent(a, kind) ==
    /\ alert[a] = "none"
    /\ alert' = [alert EXCEPT ![a] = "spawned"]
    /\ alertKind' = [alertKind EXCEPT ![a] = kind]
    /\ always' = IF Mails(smtp, kind) THEN always \cup {a} ELSE always
    /\ never' = IF Mails(smtp, kind) THEN never ELSE never \cup {a}
    /\ UNCHANGED <<smtp, alertRead, edits, lost>>

\* The mail goes out, or the settings forbid it, or the server fails or takes too long.
Settle(a, how) == /\ alert' = [alert EXCEPT ![a] = how]
                  /\ alertRead' = [alertRead EXCEPT ![a] = Off]

\* The task looks for the flag of logins, whatever has happened.
ReadForLogin(a) ==
    /\ alert[a] = "spawned"
    /\ IF Wants(smtp, "login")
       THEN /\ alert' = [alert EXCEPT ![a] = "sending"]
            /\ alertRead' = [alertRead EXCEPT ![a] = smtp]
       ELSE Settle(a, "unsent")
    /\ UNCHANGED <<smtp, alertKind, edits, lost, always, never>>

\* get_smtp_settings and the task's checks; a task that cannot read them ends.
ReadSettings(a) ==
    /\ alert[a] = "spawned"
    /\ \/ /\ IF Wants(smtp, alertKind[a])
             THEN /\ alert' = [alert EXCEPT ![a] = "sending"]
                  /\ alertRead' = [alertRead EXCEPT ![a] = smtp]
             ELSE Settle(a, "unsent")
          /\ UNCHANGED lost
       \/ Lose /\ Settle(a, "failed")
    /\ UNCHANGED <<smtp, alertKind, edits, always, never>>

\* send_email, with its time limit.
SendEmail(a) ==
    /\ alert[a] = "sending"
    /\ \/ Settle(a, IF Sendable(alertRead[a]) THEN "mailed" ELSE "unsent") /\ UNCHANGED lost
       \/ Lose /\ Settle(a, "failed")
    /\ UNCHANGED <<smtp, alertKind, edits, always, never>>

\* A restart takes the tasks with it.
AlertsRestart ==
    /\ Lose
    /\ alert' = [a \in Alert |-> IF alert[a] \in {"spawned", "sending"} THEN "failed" ELSE alert[a]]
    /\ alertRead' = [a \in Alert |-> Off]
    /\ UNCHANGED <<smtp, alertKind, edits, always, never>>

NextAlerts ==
    \/ \E u \in Updates : SmtpPut(u)
    \/ \E a \in Alert : ReadSettings(a) \/ SendEmail(a) \/ \E kind \in Kind : NotifyAuthEvent(a, kind)
    \/ AlertsRestart
-----------------------------------------------------------------------------
(* Properties.                                                             *)

\* A task that ends without a failing call has mailed if every setting since its event
\* wanted the mail and could send it, and has not if none did: edits while it runs only
\* decide for events they overlap, although its two steps read and use them apart.
AlertsFollowSettings ==
    \A a \in Alert : /\ alert[a] = "unsent" => a \notin always
                     /\ alert[a] = "mailed" => a \notin never
=============================================================================
