--------------------------- MODULE TokenConnection ---------------------------
(***************************************************************************)
(* One account's websocket connection and its IM token: the main loop of   *)
(* XyAsync, the background loops that refresh the token beside it, the row *)
(* of xy_token_cache they share, and the scheduler's renewal of that row.  *)
(* The local slider is enabled: captcha.local_slider_disabled is false, or *)
(* cannot be read.                                                         *)
(*                                                                         *)
(* asyncio: what a coroutine does between two awaits is one step, so a     *)
(* refresh and what its caller does with the result end in one.            *)
(***************************************************************************)
EXTENDS Integers, FiniteSetsExt

CONSTANTS
    Loops,          \* token_refresh_loop and cookie_refresh_loop
    MaxTokens,      \* bound: tokens about at one time
    MaxFaults,      \* bound: failures of the platform, the network, the database,
    MaxFaultsOn,    \* and where the renewal task is on
    MaxFetch,       \* 100: failed fetches that disable the account
    MaxAuth,        \* 5: max_connection_failures
    MaxShort,       \* 5: frequent_disconnect_limit
    MaxCaptcha      \* max_captcha_verification_count

ASSUME TokenAssumption ==
    /\ "main" \notin Loops
    /\ MaxTokens \in Nat \ {0} /\ MaxFaults \in Nat /\ MaxFaultsOn \in 0..MaxFaults /\ MaxCaptcha \in Nat
    /\ MaxFetch \in Nat \ {0} /\ MaxAuth \in Nat \ {0} /\ MaxShort \in Nat \ {0}

Refreshers == {"main"} \cup Loops
NoToken == 0
Tokens == 0..MaxTokens

VARIABLES
    row,        \* the cache: token, exp (expire_at), renew (renew_expire_at, if later)
    issued,     \* the platform's last token; it ends those before
    inst,       \* fields of the instance and its managers
    conn,       \* main: its place, the token registered, the socket
    ref,        \* each refresher's call of refresh_token
    sched,      \* the renewal task: switched on or not, its place and the token it got
    enabled,    \* the account's status is active
    faults,
    refused     \* history: start-up tokens the platform has turned down

vars == <<row, issued, inst, conn, ref, sched, enabled, faults, refused>>

Idle == [pc |-> "idle", token |-> NoToken, changed |-> FALSE, counts |-> FALSE, tries |-> 0]
Fresh ==
    [current |-> NoToken,   \* current_token
     inUse   |-> NoToken,   \* _cached_token_in_use
     startup |-> TRUE,      \* _startup_expired_cache_available
     expired |-> FALSE,     \* _using_expired_startup_token
     unread  |-> FALSE,     \* history: the token in use is past its time, and was taken
                            \* because a switch could not be read
     loops   |-> FALSE,     \* the background tasks run
     polled  |-> TRUE,      \* timing: a loop ran, with the connection up, since hours passed
     mid     |-> FALSE,     \* timing: a loop or a renewal began since the connection was last up
     fetch   |-> 0, auth |-> 0, short |-> 0]
Start == [pc |-> "top", token |-> NoToken, ws |-> "none"]

\* No row, or the row an earlier run left.
Init ==
    /\ row \in {[token |-> NoToken, exp |-> "past", renew |-> "none"],
                [token |-> 1, exp |-> "past", renew |-> "none"],
                [token |-> 1, exp |-> "far", renew |-> "none"]}
    /\ issued = row.token
    /\ inst = Fresh /\ conn = Start
    /\ ref = [p \in Refreshers |-> Idle]
    /\ sched \in [on : BOOLEAN, pc : {"idle"}, token : {NoToken}]
    /\ enabled = TRUE /\ faults = 0 /\ refused = {}

Fault ==
    /\ faults < IF sched.on THEN MaxFaultsOn ELSE MaxFaults
    /\ faults' = faults + 1
Change(p, r) == ref' = [ref EXCEPT ![p] = r]
Goto(p, pc) == Change(p, [ref[p] EXCEPT !.pc = pc])
Running(p) == p = "main" \/ (inst.loops /\ conn.pc # "over")

-----------------------------------------------------------------------------
\* What the end of a refresh lets main do.

\* An exception before the connection was up.
Fail(i, c) ==
    /\ inst' = [i EXCEPT !.auth = @ + 1]
    /\ conn' = [c EXCEPT !.pc = "failed", !.ws = "none", !.token = NoToken]
    /\ UNCHANGED enabled

\* The registration of init, which needs a token and an open socket.
Register(i, c) ==
    IF i.current # NoToken /\ c.ws = "open"
    THEN /\ conn' = [c EXCEPT !.pc = "reg", !.token = i.current]
         /\ inst' = i /\ UNCHANGED enabled
    ELSE Fail(i, c)

\* The fetch before a connection: 100 failures that count disable the account.  (Whether
\* one does is read off last_token_refresh_status, which a loop may have overwritten.)
Fetched(i, c, counts) ==
    LET n == i.fetch + 1
    IN  \/ /\ i.current # NoToken
           /\ conn' = [c EXCEPT !.pc = "dial"]
           /\ inst' = i /\ UNCHANGED enabled
        \/ /\ i.current = NoToken /\ ~counts
           /\ inst' = i /\ conn' = c /\ UNCHANGED enabled
        \/ /\ i.current = NoToken /\ counts
           /\ inst' = [i EXCEPT !.fetch = n]
           /\ IF n < MaxFetch THEN conn' = c /\ UNCHANGED enabled
              ELSE conn' = [c EXCEPT !.pc = "over"] /\ enabled' = FALSE

\* p's refresh returns; i and c are the instance and the connection by then.
Done(p, i, c, counts) ==
    /\ Change(p, Idle)
    /\ IF p # "main" THEN inst' = i /\ conn' = c /\ UNCHANGED enabled
       ELSE IF conn.pc = "init" THEN Register(i, c) ELSE Fetched(i, c, counts)

-----------------------------------------------------------------------------
\* refresh_token, for main or a loop.

\* Who calls it: main without a token before it connects or in init, and a loop
\* whose interval is over: minutes, so once at most while main connects.
Calls(p) ==
    /\ ref[p].pc = "idle"
    /\ IF p = "main"
       THEN inst.current = NoToken /\ (conn.pc = "init" \/ (conn.pc = "top" /\ enabled))
       ELSE Running(p) /\ (conn.pc = "up" \/ ~inst.mid)

Begun(p) ==
    [inst EXCEPT !.polled = @ \/ conn.pc = "up",
                 !.mid = @ \/ (conn.pc # "up" /\ p # "main")]

\* Mutant: the startup's chance to use an expired token is never spent.
Using_Again(i, fallback) ==
    [i EXCEPT !.current = row.token, !.inUse = row.token,
              !.expired = fallback, !.unread = FALSE]

\* _use_cached_token: the cached token becomes the one in use.
Using(i, fallback) ==
    [i EXCEPT !.current = row.token, !.inUse = row.token,
              !.expired = fallback, !.unread = FALSE, !.startup = FALSE]

\* Mutant: whatever the cache holds by now is expired.
Expired_Any(r) == IF r.token # NoToken THEN [r EXCEPT !.exp = "past", !.renew = "none"] ELSE r

\* _delete_cached_token: the row is expired if it holds the token in use.  (An instance
\* that has used none made its device id up: no row has it.)
Expired(r) ==
    IF r.token # NoToken /\ r.token = inst.inUse
    THEN [r EXCEPT !.exp = "past", !.renew = "none"] ELSE r

\* A disabled account has nothing to refresh.
Skip(p) ==
    /\ Calls(p) /\ ~enabled
    /\ Done(p, Begun(p), conn, TRUE)
    /\ UNCHANGED <<row, issued, sched, faults, refused>>

\* The cache has a token: its own expiry holds; or a renewal's does, which is
\* promoted; or neither, which will do for the first try of an instance.
ReadHit(p) ==
    /\ Calls(p) /\ enabled /\ row.token # NoToken
    /\ \/ /\ row.exp # "past"
          /\ Done(p, Using(Begun(p), FALSE), conn, FALSE)
          /\ UNCHANGED row
       \/ /\ row.exp = "past" /\ row.renew # "none"
          /\ row' = [row EXCEPT !.exp = row.renew, !.renew = "none"]
          /\ inst' = Using(Begun(p), FALSE)
          /\ Change(p, [Idle EXCEPT !.pc = "close"])
          /\ UNCHANGED <<conn, enabled>>
       \/ /\ row.exp = "past" /\ row.renew = "none" /\ inst.startup
          /\ Done(p, Using(Begun(p), TRUE), conn, FALSE)
          /\ UNCHANGED row
    /\ UNCHANGED <<issued, sched, faults, refused>>

\* It has none, or (a fault) cannot be read, for which the first try waits.
ReadMiss(p) ==
    /\ Calls(p) /\ enabled
    /\ \/ /\ row.token = NoToken
             \/ (row.exp = "past" /\ row.renew = "none" /\ ~inst.startup)
          /\ inst' = [Begun(p) EXCEPT !.startup = FALSE]
          /\ Goto(p, "ask")
          /\ UNCHANGED <<conn, enabled, faults>>
       \/ /\ Fault /\ inst.startup
          /\ Done(p, Begun(p), conn, FALSE)
       \/ /\ Fault /\ ~inst.startup
          /\ inst' = Begun(p) /\ Goto(p, "ask")
          /\ UNCHANGED <<conn, enabled>>
    /\ UNCHANGED <<row, issued, sched, refused>>

(***************************************************************************)
(* Every call of refresh_token, the repeated ones too, reads the switch    *)
(* first.  When that fails the platform is not asked: the cache is used,   *)
(* whatever its expiry and without touching the startup's chance; if that  *)
(* cannot be read, the token in use; and no token, if there is no row.     *)
(***************************************************************************)
Unread(p) ==
    LET i == IF ref[p].pc = "idle" THEN Begun(p) ELSE inst
        r == IF ref[p].pc = "again" THEN Expired(row) ELSE row
        with(past) == [Using(i, FALSE) EXCEPT !.unread = past, !.startup = i.startup]
    IN
    /\ Calls(p) \/ (ref[p].pc \in {"ask", "again"} /\ Running(p))
    /\ enabled /\ Fault
    /\ \/ row' = r /\ Done(p, i, conn, FALSE)
       \/ /\ r.token = NoToken
          /\ row' = r /\ Done(p, [i EXCEPT !.current = NoToken], conn, FALSE)
       \/ /\ r.token # NoToken /\ r.exp = "past" /\ r.renew # "none"
          /\ row' = [r EXCEPT !.exp = r.renew, !.renew = "none"]
          /\ inst' = with(FALSE)
          /\ Change(p, [Idle EXCEPT !.pc = "close"])
          /\ UNCHANGED <<conn, enabled>>
       \/ /\ r.token # NoToken /\ (r.exp # "past" \/ r.renew = "none")
          /\ row' = r /\ Done(p, with(r.exp = "past"), conn, FALSE)
    /\ UNCHANGED <<issued, sched, refused>>

\* The platform's token: one nobody holds, or (a fault) the last once more, which it
\* also repeats when MaxTokens are held.
Held == {row.token, inst.current, inst.inUse, conn.token, sched.token, issued}
            \cup {ref[p].token : p \in Refreshers}

Issue(t) ==
    LET new == (1..MaxTokens) \ Held
    IN  /\ issued' = t /\ refused' = refused \ {t}
        /\ \/ new # {} /\ t = Min(new) /\ UNCHANGED faults
           \/ new = {} /\ t = issued /\ UNCHANGED faults
           \/ new # {} /\ t = issued /\ t # NoToken /\ Fault

Got(p, t) ==
    /\ ref[p].pc = "ask" /\ Running(p)
    /\ Issue(t)
    /\ inst' = [inst EXCEPT !.current = t, !.expired = FALSE, !.unread = FALSE]
    /\ Change(p, [ref[p] EXCEPT !.pc = "store", !.token = t, !.changed = t # inst.inUse])
    /\ UNCHANGED <<row, conn, sched, enabled>>

\* A slider or a login stands in the way and is overcome: the token in use is
\* given up, and the platform is asked again, a number of times.
Solved(p) ==
    /\ ref[p].pc = "ask" /\ Running(p)
    /\ Fault
    /\ Change(p, [ref[p] EXCEPT !.pc = "again", !.tries = @ + 1])
    /\ UNCHANGED <<row, issued, inst, conn, sched, enabled, refused>>

\* The ways not to get a token: clear is for the token held, mark for the cache.
Failure(clear, mark, counts) == [clear |-> clear, mark |-> mark, counts |-> counts]

Failures ==
    {Failure(TRUE, TRUE, TRUE),         \* an error, a failed login
     Failure(TRUE, TRUE, FALSE),        \* the slider failed, a login is too soon
     Failure(TRUE, FALSE, TRUE),        \* timeout, network
     Failure(FALSE, FALSE, TRUE),       \* no password to log in with, no risk log
     Failure(FALSE, FALSE, FALSE)}      \* another check is under way

Denied(p) ==
    /\ ref[p].pc = "ask" /\ Running(p)
    /\ Fault
    /\ \E f \in Failures :
          LET i == IF f.clear THEN [inst EXCEPT !.current = NoToken] ELSE inst
          IN  IF f.mark
              THEN /\ inst' = i /\ Change(p, [Idle EXCEPT !.pc = "mark", !.counts = f.counts])
                   /\ UNCHANGED <<conn, enabled>>
              ELSE Done(p, i, conn, f.counts)
    /\ UNCHANGED <<row, issued, sched, refused>>

\* After a failure, the token in use is given up.
Mark(p) ==
    /\ ref[p].pc = "mark" /\ Running(p)
    /\ row' = Expired(row)
    /\ Done(p, inst, conn, ref[p].counts)
    /\ UNCHANGED <<issued, sched, faults, refused>>

\* So it is before the platform is asked again, which an account may do as long as it
\* is enabled and has tries left.
Again(p) ==
    /\ ref[p].pc = "again" /\ Running(p)
    /\ row' = Expired(row)
    /\ IF enabled /\ ref[p].tries < MaxCaptcha
       THEN Goto(p, "ask") /\ UNCHANGED <<inst, conn, enabled>>
       ELSE Done(p, inst, conn, ~enabled)
    /\ UNCHANGED <<issued, sched, faults, refused>>

\* The new token goes to the cache, unless (a fault) the write fails.
Store(p) ==
    /\ ref[p].pc = "store" /\ Running(p)
    /\ LET t == ref[p].token
           then(i) == IF ref[p].changed
                      THEN /\ inst' = i /\ Change(p, [Idle EXCEPT !.pc = "close"])
                           /\ UNCHANGED <<conn, enabled>>
                      ELSE Done(p, i, conn, FALSE)
       IN  \/ /\ row' = [token |-> t, exp |-> "far", renew |-> "none"]
              /\ then([inst EXCEPT !.inUse = t])
              /\ UNCHANGED faults
           \/ Fault /\ then(inst) /\ UNCHANGED row
    /\ UNCHANGED <<issued, sched, refused>>

\* Mutant: the connection stays up with the old token.
Close_Not(p) ==
    /\ ref[p].pc = "close" /\ Running(p)
    /\ Done(p, inst, conn, FALSE)
    /\ UNCHANGED <<row, issued, sched, faults, refused>>

\* A token changed: the socket is closed, for main to connect with the new one.
Close(p) ==
    /\ ref[p].pc = "close" /\ Running(p)
    /\ Done(p, inst, [conn EXCEPT !.ws = IF @ = "open" THEN "closed" ELSE @], FALSE)
    /\ UNCHANGED <<row, issued, sched, faults, refused>>

-----------------------------------------------------------------------------
\* main, from one connection to the next.

Quiet == ref["main"].pc = "idle"
Others == <<row, issued, ref, sched, refused>>

\* The top of the loop: a disabled account ends it, a token is there to connect with.
Top ==
    /\ conn.pc = "top" /\ Quiet
    /\ IF enabled THEN /\ inst.current # NoToken
                       /\ inst' = [inst EXCEPT !.fetch = 0]
                       /\ conn' = [conn EXCEPT !.pc = "dial"]
       ELSE conn' = [conn EXCEPT !.pc = "over"] /\ UNCHANGED inst
    /\ UNCHANGED <<Others, enabled, faults>>

Dial ==
    /\ conn.pc = "dial"
    /\ \/ /\ conn' = [conn EXCEPT !.pc = "init", !.ws = "open"]
          /\ UNCHANGED <<inst, enabled, faults>>
       \/ Fault /\ Fail(inst, conn)
    /\ UNCHANGED Others

\* init, with the token that is there.
Reg ==
    /\ conn.pc = "init" /\ Quiet /\ inst.current # NoToken
    /\ Register(inst, conn)
    /\ UNCHANGED <<Others, faults>>

\* The second message of init, and the background tasks.
Up(c) ==
    /\ conn' = [c EXCEPT !.pc = "up"]
    /\ inst' = [inst EXCEPT !.auth = 0, !.loops = TRUE, !.mid = FALSE]
    /\ UNCHANGED enabled

\* The platform takes its last token, turns down an older one, and may do so (a
\* fault) with any: during init or right after it.  A refresher may have closed
\* the socket.
Answer ==
    /\ conn.pc = "reg"
    /\ \/ /\ conn.ws = "open" /\ conn.token = issued
          /\ Up(conn) /\ UNCHANGED faults
       \/ /\ conn.ws = "open"
          /\ IF conn.token = issued THEN Fault ELSE UNCHANGED faults
          /\ Fail(inst, conn) \/ Up([conn EXCEPT !.ws = "refused"])
       \/ /\ conn.ws # "open"
          /\ Fail(inst, conn) /\ UNCHANGED faults
    /\ UNCHANGED Others

\* The network drops a connection.
Drop ==
    /\ conn.pc \in {"init", "reg", "up"} /\ conn.ws = "open"
    /\ Fault
    /\ conn' = [conn EXCEPT !.ws = "lost"]
    /\ UNCHANGED <<Others, inst, enabled>>

\* _reject_expired_startup_token_after_short_disconnect
Rejected(short) == inst.expired /\ short

\* The connection is over.  A start-up token past its time is then refused, after a
\* short one; short ones that end in an error disable the account when they are many.
Ended ==
    /\ conn.pc = "up" /\ conn.ws # "open"
    /\ \E short \in IF conn.ws = "refused" THEN {TRUE} ELSE BOOLEAN :
              \/ /\ Rejected(short)
                 /\ inst' = [inst EXCEPT !.current = NoToken, !.expired = FALSE]
                 /\ conn' = Start /\ refused' = refused \cup {conn.token}
                 /\ UNCHANGED enabled
              \/ /\ ~Rejected(short) /\ conn.ws = "closed"
                 /\ conn' = Start /\ UNCHANGED <<inst, enabled, refused>>
              \/ /\ ~Rejected(short) /\ conn.ws # "closed"
                 /\ inst' = [inst EXCEPT !.short = IF short THEN @ + 1 ELSE 0]
                 /\ IF inst'.short < MaxShort THEN conn' = Start /\ UNCHANGED enabled
                    ELSE conn' = [Start EXCEPT !.pc = "over"] /\ enabled' = FALSE
                 /\ UNCHANGED refused
    /\ UNCHANGED <<row, issued, ref, sched, faults>>

\* Mutant: the token it failed with is kept.
Failed_Keeps ==
    /\ conn.pc = "failed"
    /\ conn' = [conn EXCEPT !.pc = IF inst.auth < MaxAuth THEN "top" ELSE "login"]
    /\ UNCHANGED <<Others, inst, enabled, faults>>

\* An attempt that failed within 15 s takes the token in use for bad.
Failed ==
    /\ conn.pc = "failed"
    /\ row' \in {row, Expired(row)}
    /\ IF inst.auth < MaxAuth
       THEN /\ inst' = [inst EXCEPT !.current = NoToken]
            /\ conn' = [conn EXCEPT !.pc = "top"]
       ELSE conn' = [conn EXCEPT !.pc = "login"] /\ UNCHANGED inst
    /\ UNCHANGED <<issued, ref, sched, enabled, faults, refused>>

\* Mutant: a login does not clear the count of failures.
Login_Keeps ==
    /\ conn.pc = "login"
    /\ conn' = [conn EXCEPT !.pc = "top"]
    /\ UNCHANGED <<Others, inst, enabled, faults>>

\* After five in a row: log in by password, or end.
Login ==
    /\ conn.pc = "login"
    /\ \/ /\ row' = Expired(row)
          /\ inst' = [inst EXCEPT !.auth = 0]
          /\ conn' = [conn EXCEPT !.pc = "top"]
       \/ /\ conn' = [conn EXCEPT !.pc = "over"]
          /\ UNCHANGED <<row, inst>>
    /\ UNCHANGED <<issued, ref, sched, enabled, faults, refused>>

-----------------------------------------------------------------------------
\* The others.

\* TokenRenewalTask picks an account whose token ends within the hour, once at most
\* while main connects.
Renewable == row.token # NoToken /\ row.exp # "far" /\ row.renew # "far"

Load ==
    /\ sched.on /\ sched.pc = "idle" /\ enabled /\ Renewable
    /\ conn.pc = "up" \/ ~inst.mid
    /\ inst' = [inst EXCEPT !.mid = Begun("renewal").mid]
    /\ sched' = [sched EXCEPT !.pc = "ask"]
    /\ UNCHANGED <<row, issued, conn, ref, enabled, faults, refused>>

\* It gets a token, or none.
Renew ==
    /\ sched.pc = "ask"
    /\ \/ /\ \E t \in Tokens : Issue(t) /\ sched' = [sched EXCEPT !.pc = "write", !.token = t]
       \/ /\ sched' = [sched EXCEPT !.pc = "idle", !.token = NoToken]
          /\ UNCHANGED <<issued, faults, refused>>
    /\ UNCHANGED <<row, inst, conn, ref, enabled>>

\* write_renewed_token_cache, if the row is still one to renew.
Write ==
    /\ sched.pc = "write"
    /\ row' = IF Renewable THEN [row EXCEPT !.token = sched.token, !.renew = "far"] ELSE row
    /\ sched' = [sched EXCEPT !.pc = "idle", !.token = NoToken]
    /\ UNCHANGED <<issued, inst, conn, ref, enabled, faults, refused>>

\* The account is disabled: by its owner, or for want of a good password.
Disable ==
    /\ enabled /\ Fault /\ enabled' = FALSE
    /\ UNCHANGED <<row, issued, inst, conn, ref, sched, refused>>

\* CookieManager starts the instance anew, after a login or on request.
Restart ==
    /\ Fault
    /\ inst' = Fresh /\ conn' = Start /\ ref' = [p \in Refreshers |-> Idle]
    /\ enabled' = TRUE /\ refused' = {}
    /\ UNCHANGED <<row, issued, sched>>

\* Hours pass, at any moment, but minutes suffice to connect and for a loop to run; a
\* renewal outlives what it renews.
Sooner(e) == IF e = "far" THEN "near" ELSE "past"

Age ==
    /\ inst.polled \/ conn.pc = "over"
    /\ inst' = [inst EXCEPT !.polled = FALSE]
    /\ \/ /\ row.exp # "past" /\ row' = [row EXCEPT !.exp = Sooner(@)]
       \/ /\ row.exp = "past" /\ row.renew # "none"
          /\ row' = [row EXCEPT !.renew = "none"]
    /\ UNCHANGED <<issued, conn, ref, sched, enabled, faults, refused>>

-----------------------------------------------------------------------------
Refresh(p) ==
    \/ Skip(p) \/ ReadHit(p) \/ ReadMiss(p) \/ Unread(p) \/ \E t \in Tokens : Got(p, t)
    \/ Solved(p) \/ Denied(p) \/ Mark(p) \/ Again(p) \/ Store(p) \/ Close(p)

Main == Top \/ Dial \/ Reg \/ Answer \/ Ended \/ Failed \/ Login

Next ==
    \/ Main \/ (\E p \in Refreshers : Refresh(p))
    \/ Drop \/ Load \/ Renew \/ Write \/ Disable \/ Restart \/ Age

\* Coroutines go on, the loops' intervals end, requests are answered, hours pass.
\* Nothing is assumed of the scheduler.
Spec ==
    /\ Init /\ [][Next]_vars
    /\ WF_vars(Main) /\ \A p \in Refreshers : WF_vars(Refresh(p))
    /\ WF_vars(Age)

-----------------------------------------------------------------------------
\* Properties.

\* Types; and the history holds nothing the platform has issued since.
TypeOK ==
    /\ row \in [token : Tokens, exp : {"past", "near", "far"}, renew : {"none", "far"}]
    /\ issued \in Tokens
    /\ inst \in [current : Tokens, inUse : Tokens, startup : BOOLEAN, expired : BOOLEAN,
                 unread : BOOLEAN, loops : BOOLEAN,
                 polled : BOOLEAN, mid : BOOLEAN, fetch : 0..MaxFetch, auth : 0..MaxAuth, short : 0..MaxShort]
    /\ conn \in [pc : {"top", "dial", "init", "reg", "up", "failed", "login", "over"},
                 token : Tokens, ws : {"none", "open", "closed", "lost", "refused"}]
    /\ ref \in [Refreshers -> [pc : {"idle", "ask", "again", "mark", "store", "close"},
                               token : Tokens, changed : BOOLEAN, counts : BOOLEAN, tries : 0..MaxFaults]]
    /\ sched \in [on : BOOLEAN, pc : {"idle", "ask", "write"}, token : Tokens]
    /\ enabled \in BOOLEAN /\ faults \in 0..MaxFaults /\ refused \subseteq Tokens

\* The token in use was over when it was taken from the cache.
PastItsTime == inst.expired \/ inst.unread

\* _reject_expired_startup_token_after_short_disconnect: a token past its time that the
\* platform has turned down is not fallen back on again before another fetch, with one
\* exception: refresh_token could not read whether it may ask the platform.
RefusedNotReused == PastItsTime /\ inst.current \in refused => inst.unread

\* What the scheduler renewed is not lost by a refresher's or main's failure with the
\* token before it: until the instance takes it, only the hours end it.
RenewalSpared ==
    [][row.renew = "far" /\ row.token # inst.inUse /\ <<ref, conn>>' # <<ref, conn>>
          => row'.renew = "far" \/ row'.exp = "far"]_vars

Served == conn.pc = "up" /\ conn.ws = "open" /\ conn.token = issued
Ends   == conn.pc = "over" \/ ~enabled

\* However sliders, logins, refusals, restarts and renewals interleave, the account gets
\* a connection with a token the platform takes, or main ends.
Recovers == []<>(Served \/ Ends)

\* A connection whose token the platform has ended (the scheduler's request does) is
\* replaced, in the end.
ZombieEnds ==
    (conn.pc = "up" /\ conn.ws = "open" /\ conn.token # issued) ~> (Served \/ Ends)
=============================================================================
