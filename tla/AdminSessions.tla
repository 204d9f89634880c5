---------------------------- MODULE AdminSessions -----------------------------
(***************************************************************************)
(* Login, sessions and the admin's password (api/mod.rs over db/mod.rs).   *)
(* A session is known to memory, to the database and, with a signing       *)
(* secret, to its own token; the three keep time differently: memory and   *)
(* the database to the tick, the token in whole seconds, and memory rounds *)
(* the rest of a row it takes over to seconds.  Time is in half seconds.   *)
(* Every database call is a step, may take any time and may fail.  The     *)
(* mails a handler asks for run on their own (AuthAlerts); the static API  *)
(* token, which never ends, is left out.                                   *)
(***************************************************************************)
EXTENDS Naturals, FiniteSets

CONSTANTS
    Logins,     \* login requests are 1..Logins
    Request,    \* slots of requests that carry a token
    Password,   \* passwords
    Seeded,     \* DEFAULT_ADMIN_PASSWORD
    TTL,        \* session_ttl_secs
    MaxTicks,   \* bound on the clock
    MaxUpsets   \* bound on failing calls and restarts

ASSUME SessionsAssumption ==
    /\ Seeded \in Password
    /\ Logins \in Nat \ {0} /\ TTL \in Nat \ {0}
    /\ MaxTicks \in Nat /\ MaxUpsets \in Nat

VARIABLES
    signed,                 \* session_signing_secret is there
    ticks,                  \* time
    sessions, rows,         \* end of a session in memory and in its row, by token
    login, loginKey, loginEnd,  \* login requests: control state, token, end of the row to write
    rq, rqKey, rqAt, rqRow, rqNew,  \* requests: control state, token, start, row read, new password
    dbPassword,             \* the admin's row in users
    upsets,                 \* failing calls and restarts so far
    ends, kept, slow        \* history: promised end of a token, tokens a restart must not lose,
                            \* last completion of a lookup that began before the end

place == <<signed, ticks, upsets>>
logging == <<login, loginKey, loginEnd>>
asking == <<rq, rqKey, rqAt, rqRow, rqNew>>
promise == <<ends, kept, slow>>
sessionVars == <<place, sessions, rows, logging, asking, promise, dbPassword>>

Never == 0
Sec(t) == t \div 2
Later(a, b) == IF a > b THEN a ELSE b
\* A signed token is its user and the second it ends in, any other a fresh number.
Key == 1..Later(Logins, Sec(MaxTicks) + TTL)
Mint(l) == IF signed THEN Sec(ticks) + TTL ELSE l
Upset == upsets < MaxUpsets /\ upsets' = upsets + 1

InitSessions ==
    /\ signed \in BOOLEAN
    /\ ticks = 1 /\ upsets = 0
    /\ sessions = [k \in Key |-> Never] /\ rows = [k \in Key |-> Never]
    /\ login \in [1..Logins -> {"new", "done"}]       \* how many logins come,
    /\ loginKey = [l \in 1..Logins |-> Never] /\ loginEnd = [l \in 1..Logins |-> Never]
    /\ rq \in [Request -> {"idle", "unused"}]         \* and how many requests at a time
    /\ rqKey = [r \in Request |-> Never] /\ rqAt = [r \in Request |-> Never]
    /\ rqRow = [r \in Request |-> Never]
    /\ rqNew = [r \in Request |-> Seeded]
    /\ dbPassword = Seeded
    /\ ends = [k \in Key |-> Never] /\ kept = {} /\ slow = [k \in Key |-> Never]
-----------------------------------------------------------------------------
(* auth_login.                                                             *)

LoginRead(l) ==
    /\ login[l] = "new"
    /\ \/ /\ \E pw \in Password :
                login' = [login EXCEPT ![l] = IF pw = dbPassword THEN "good" ELSE "done"]
          /\ UNCHANGED upsets
       \/ Upset /\ login' = [login EXCEPT ![l] = "done"]
    /\ UNCHANGED <<signed, ticks, sessions, rows, loginKey, loginEnd, asking, promise, dbPassword>>

LoginGrant(l) ==
    LET k == Mint(l)
        end == ticks + 2 * TTL
    IN /\ login[l] = "good"
       /\ sessions' = [sessions EXCEPT ![k] = end]
       /\ login' = [login EXCEPT ![l] = "store"]
       /\ loginKey' = [loginKey EXCEPT ![l] = k]
       /\ loginEnd' = [loginEnd EXCEPT ![l] = end]
       /\ UNCHANGED <<place, rows, asking, promise, dbPassword>>

\* insert_session, and the answer: that the row cannot be written is only logged.
LoginStore(l) ==
    LET k == loginKey[l]
    IN /\ login[l] = "store"
       /\ login' = [login EXCEPT ![l] = "done"]
       /\ loginKey' = [loginKey EXCEPT ![l] = Never]
       /\ loginEnd' = [loginEnd EXCEPT ![l] = Never]
       /\ ends' = [ends EXCEPT ![k] = Later(@, loginEnd[l])]
       /\ \/ rows' = [rows EXCEPT ![k] = loginEnd[l]] /\ kept' = kept \cup {k} /\ UNCHANGED upsets
          \/ Upset /\ kept' = (IF signed THEN kept \cup {k} ELSE kept) /\ UNCHANGED rows
       /\ UNCHANGED <<signed, ticks, sessions, asking, slow, dbPassword>>
-----------------------------------------------------------------------------
(* resolve_username_from_token, for any request that carries a token.      *)

InMemory(k) == sessions[k] > ticks
InDatabase(k) == rows[k] > ticks
InToken(k) == signed /\ ends[k] # Never /\ Sec(ticks) <= k

\* What is left of a row, in whole seconds and at least one.
Rest(end) == Later(1, IF end > ticks THEN Sec(end - ticks) ELSE 0)
MemoryEnd(end) == ticks + 2 * Rest(end)

Idle(r) == /\ rq' = [rq EXCEPT ![r] = "idle"]
           /\ rqKey' = [rqKey EXCEPT ![r] = Never]
           /\ rqAt' = [rqAt EXCEPT ![r] = Never]
           /\ rqRow' = [rqRow EXCEPT ![r] = Never]
           /\ rqNew' = [rqNew EXCEPT ![r] = Seeded]

\* session_username: an entry that has ended is removed on the way.
Lookup(r) ==
    /\ rq[r] = "idle"
    /\ \E k \in {j \in Key : ends[j] # Never} :
          /\ rq' = [rq EXCEPT ![r] = IF InMemory(k) THEN "known" ELSE "row"]
          /\ rqKey' = [rqKey EXCEPT ![r] = k]
          /\ rqAt' = [rqAt EXCEPT ![r] = IF InMemory(k) THEN Never ELSE ticks]
          /\ sessions' = [sessions EXCEPT ![k] = IF InMemory(k) THEN @ ELSE Never]
    /\ UNCHANGED <<place, rows, logging, rqRow, rqNew, promise, dbPassword>>

\* The row is taken whatever its age.
GetSessionOfAnyAge(r) ==
    /\ rq[r] = "row"
    /\ rq' = [rq EXCEPT ![r] = "take"]
    /\ rqRow' = [rqRow EXCEPT ![r] = rows[rqKey[r]]]
    /\ UNCHANGED <<place, sessions, rows, logging, rqKey, rqAt, rqNew, promise, dbPassword>>

\* get_session: the time it compares with is that of the call.
GetSession(r) ==
    /\ rq[r] = "row"
    /\ rq' = [rq EXCEPT ![r] = "take"]
    /\ \/ /\ rqRow' = [rqRow EXCEPT ![r] = IF rows[rqKey[r]] > rqAt[r] THEN rows[rqKey[r]] ELSE Never]
          /\ UNCHANGED upsets
       \/ Upset /\ UNCHANGED rqRow
    /\ UNCHANGED <<signed, ticks, sessions, rows, logging, rqKey, rqAt, rqNew, promise, dbPassword>>

\* The rest of it: a row found goes into memory, otherwise the token speaks for itself.
TakeRequest(r) ==
    LET k == rqKey[r]
    IN /\ rq[r] = "take"
       /\ \/ /\ rqRow[r] # Never
             /\ sessions' = [sessions EXCEPT ![k] = MemoryEnd(rqRow[r])]
             /\ slow' = [slow EXCEPT ![k] = IF rqAt[r] < ends[k] THEN ticks ELSE @]
             /\ rq' = [rq EXCEPT ![r] = "known"]
             /\ rqRow' = [rqRow EXCEPT ![r] = Never]
             /\ rqAt' = [rqAt EXCEPT ![r] = Never]
             /\ UNCHANGED <<rqKey, rqNew>>
          \/ /\ rqRow[r] = Never /\ InToken(k)
             /\ rq' = [rq EXCEPT ![r] = "known"]
             /\ rqAt' = [rqAt EXCEPT ![r] = Never]
             /\ UNCHANGED <<sessions, slow, rqKey, rqRow, rqNew>>
          \/ /\ rqRow[r] = Never /\ ~InToken(k)
             /\ Idle(r)
             /\ UNCHANGED <<sessions, slow>>
       /\ UNCHANGED <<place, rows, logging, ends, kept, dbPassword>>

\* Any handler but the next one, which is modelled elsewhere.
Answer(r) ==
    /\ rq[r] = "known"
    /\ Idle(r)
    /\ UNCHANGED <<place, sessions, rows, logging, promise, dbPassword>>
-----------------------------------------------------------------------------
(* auth_change_password.                                                   *)

\* The hash is read and the current password compared with it.
ChangeVerify(r) ==
    /\ rq[r] = "known"
    /\ \E old, new \in Password :
          /\ old # new
          /\ \/ /\ old = dbPassword
                /\ rq' = [rq EXCEPT ![r] = "update"]
                /\ rqNew' = [rqNew EXCEPT ![r] = new]
                /\ rqKey' = [rqKey EXCEPT ![r] = Never]
                /\ UNCHANGED <<rqAt, rqRow>>
             \/ old # dbPassword /\ Idle(r)
    /\ UNCHANGED <<place, sessions, rows, logging, promise, dbPassword>>

\* update_user_password.
ChangeUpdate(r) ==
    /\ rq[r] = "update"
    /\ Idle(r)
    /\ \/ dbPassword' = rqNew[r] /\ UNCHANGED upsets
       \/ Upset /\ UNCHANGED dbPassword
    /\ UNCHANGED <<signed, ticks, sessions, rows, logging, promise>>
-----------------------------------------------------------------------------
(* Time and restarts.                                                      *)

PassTime ==
    /\ ticks < MaxTicks
    /\ ticks' = ticks + 1
    /\ UNCHANGED <<signed, upsets, sessions, rows, logging, asking, promise, dbPassword>>

\* Handlers are gone; a change that was under way may or may not have been made.
Stop ==
    /\ login' = [l \in 1..Logins |-> IF login[l] = "new" THEN "new" ELSE "done"]
    /\ loginKey' = [l \in 1..Logins |-> Never] /\ loginEnd' = [l \in 1..Logins |-> Never]
    /\ rq' = [r \in Request |-> IF rq[r] = "unused" THEN "unused" ELSE "idle"]
    /\ rqKey' = [r \in Request |-> Never] /\ rqAt' = [r \in Request |-> Never]
    /\ rqRow' = [r \in Request |-> Never] /\ rqNew' = [r \in Request |-> Seeded]
    /\ ends' = [k \in Key |-> IF k \in kept THEN ends[k] ELSE Never]

\* load_sessions_from_db, whose failure is only logged; seed_admin_user leaves the
\* users that are there alone.
RestartApi ==
    /\ Upset
    /\ Stop
    /\ \/ sessions' = [k \in Key |-> IF InDatabase(k) THEN MemoryEnd(rows[k]) ELSE Never]
       \/ sessions' = [k \in Key |-> Never]
    /\ UNCHANGED <<signed, ticks, rows, kept, slow, dbPassword>>

LoginStep(l) == LoginRead(l) \/ LoginGrant(l) \/ LoginStore(l)
RequestStep(r) ==
    \/ Lookup(r) \/ GetSession(r) \/ TakeRequest(r) \/ Answer(r)
    \/ ChangeVerify(r) \/ ChangeUpdate(r)

NextSessions ==
    \/ \E l \in 1..Logins : LoginStep(l)
    \/ \E r \in Request : RequestStep(r)
    \/ PassTime \/ RestartApi
-----------------------------------------------------------------------------
(* Properties.                                                             *)

Accepted(k) == InMemory(k) \/ InDatabase(k) \/ InToken(k)

\* A token that was handed out is good for the time its login announced (expires_in),
\* over lookups, restarts and a second login that mints the same token; only one that
\* could not be stored and is not signed is lost, and only by a restart.  A second
\* after its end it is accepted no more, however often memory has taken its row over
\* and rounded the rest up; only a lookup that began before the end and was kept
\* waiting for the database can move that, to a second after its completion.
SessionLasts ==
    \A k \in Key :
        /\ ticks < ends[k] => Accepted(k)
        /\ ends[k] # Never /\ ticks >= Later(ends[k], slow[k]) + 2 => ~Accepted(k)
=============================================================================
