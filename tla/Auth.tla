-------------------------------- MODULE Auth --------------------------------
(***************************************************************************)
(* Who the daemon lets in: the mode it starts in, the throttle of wrong    *)
(* passwords and the sessions (auth.rs, its callers in web/mod.rs and      *)
(* web/api.rs, and the address republisherd serves on).                    *)
(*                                                                         *)
(* A login is three critical sections: the throttle is checked, the        *)
(* password compared without a lock, the outcome recorded.  The handler    *)
(* has no await, so that it keeps a thread of the runtime from the first   *)
(* to the last, and as many logins overlap as there are threads.           *)
(*                                                                         *)
(* Abstractions: an Instant is kept as what the code compares, the age of  *)
(* a failure up to Window and the rest of a session's life down to 0, so   *)
(* that time needs no bound.  A Vec of instants is the set of the          *)
(* attempts they belong to.  A request is the answer of the middleware     *)
(* (operator Admits); one that changes nothing is no step.                 *)
(***************************************************************************)
EXTENDS Naturals, FiniteSets

CONSTANTS
  Ips,          \* addresses of clients
  Attempts,     \* names for the wrong passwords of one address
  Tokens,       \* session tokens, each drawn once
  Threads,      \* worker threads of the runtime
  MaxFailures,  \* LOGIN_MAX_FAILURES
  Window,       \* LOGIN_WINDOW, in ticks
  Ttl,          \* SESSION_TTL, in ticks
  Idle          \* a thread that runs no login

ASSUME AuthAssumption ==
  /\ MaxFailures \in Nat \ {0} /\ Window \in Nat \ {0} /\ Ttl \in Nat \ {0}
  /\ IsFiniteSet(Threads) /\ IsFiniteSet(Attempts)
  /\ Idle \notin Ips

VARIABLES
  mode,      \* Auth.required of the process that runs, or "down"
  bind,      \* the kind of address it serves on
  task,      \* what each thread does: the address of the login it runs, or Idle
  failures,  \* Auth.failures: the attempts held for each address
  age,       \* the age of each attempt; Window: too old to count, or not made
  sessions,  \* the keys of Auth.sessions
  left,      \* their values: how long each session has still to live
  used,      \* tokens drawn so far
  life       \* history: what each token's holder was promised and has not ended

vars == <<mode, bind, task, failures, age, sessions, left, used, life>>

clientVars == <<task, failures, age>>
sessionVars == <<sessions, left, used, life>>

-----------------------------------------------------------------------------

Init ==
  /\ mode = "down" /\ bind = "any"
  /\ task = [th \in Threads |-> Idle]
  /\ failures = [ip \in Ips |-> {}]
  /\ age = [ip \in Ips |-> [a \in Attempts |-> Window]]
  /\ sessions = {} /\ used = {}
  /\ left = [t \in Tokens |-> 0]
  /\ life = [t \in Tokens |-> 0]

\* ServerOptions::from_env: the command line's address, else the
\* environment's, else every interface.
EffectiveBind(cli, env) ==
  IF cli # "unset" THEN cli ELSE IF env # "unset" THEN env ELSE "any"

\* Faulty: the address that is checked is the one of the environment.
StartUnchecked(cli, env, disabled) ==
  /\ mode = "down"
  /\ disabled => env = "loopback"
  /\ mode' = IF disabled THEN "open" ELSE "required"
  /\ bind' = EffectiveBind(cli, env)
  /\ UNCHANGED <<clientVars, sessionVars>>

\* main, ServerOptions::from_env and Auth::from_env: authentication is turned
\* off on a loopback address only; otherwise the process exits.
Start(cli, env, disabled) ==
  /\ mode = "down"
  /\ disabled => EffectiveBind(cli, env) = "loopback"
  /\ mode' = IF disabled THEN "open" ELSE "required"
  /\ bind' = EffectiveBind(cli, env)
  /\ UNCHANGED <<clientVars, sessionVars>>

\* The process ends; nothing of this is on disk.
End ==
  /\ mode # "down"
  /\ mode' = "down"
  /\ task' = [th \in Threads |-> Idle]
  /\ failures' = [ip \in Ips |-> {}]
  /\ age' = [ip \in Ips |-> [a \in Attempts |-> Window]]
  /\ sessions' = {}
  /\ left' = [t \in Tokens |-> 0]
  /\ life' = [t \in Tokens |-> 0]
  /\ UNCHANGED <<bind, used>>

-----------------------------------------------------------------------------
(* login.                                                                  *)

\* The attempts of a set that count.
Counting(s, ages) == {a \in s : ages[a] < Window}

\* Faulty: one attempt too many.
ThrottledLate(ip) == Cardinality(Counting(failures[ip], age[ip])) > MaxFailures

\* Auth::throttled.
Throttled(ip) == Cardinality(Counting(failures[ip], age[ip])) >= MaxFailures

\* Auth::throttled drops what no longer counts, and lets the login on.  (Where
\* no login is required the handler answers at once and changes nothing.)
LoginAdmitted(th, ip) ==
  /\ mode = "required" /\ task[th] = Idle
  /\ ~Throttled(ip)
  /\ task' = [task EXCEPT ![th] = ip]
  /\ failures' = [failures EXCEPT ![ip] = Counting(@, age[ip])]
  /\ UNCHANGED <<mode, bind, age, sessionVars>>

\* Faulty: a login that is refused starts the window of the others anew.
LoginRefusedRenews(th, ip) ==
  /\ mode = "required" /\ task[th] = Idle
  /\ Throttled(ip)
  /\ failures' = [failures EXCEPT ![ip] = Counting(@, age[ip])]
  /\ age' = [age EXCEPT ![ip] = [a \in Attempts |-> IF a \in failures'[ip] THEN 0 ELSE @[a]]]
  /\ UNCHANGED <<mode, bind, task, sessionVars>>

\* Or has it refused: too many attempts.
LoginRefused(th, ip) ==
  /\ mode = "required" /\ task[th] = Idle
  /\ Throttled(ip)
  /\ failures' = [failures EXCEPT ![ip] = Counting(@, age[ip])]
  /\ UNCHANGED <<mode, bind, task, age, sessionVars>>

\* Names that no attempt of the address has now; which is taken is immaterial.
Unnamed(ip) == {a \in Attempts \ failures[ip] : age[ip][a] = Window}

\* Auth::record_failure: the attempt is added, and what no longer counts is
\* dropped for every address.
WrongPassword(th) ==
  LET ip == task[th] IN
  /\ ip # Idle
  /\ Unnamed(ip) # {}
  /\ LET a == CHOOSE a \in Unnamed(ip) : TRUE IN
       /\ age' = [age EXCEPT ![ip][a] = 0]
       /\ failures' = [i \in Ips |->
            Counting(failures[i] \cup (IF i = ip THEN {a} ELSE {}), age'[i])]
  /\ task' = [task EXCEPT ![th] = Idle]
  /\ UNCHANGED <<mode, bind, sessionVars>>

\* Faulty: the sessions that are still alive are the ones dropped.
RightPasswordSwaps(th) ==
  /\ task[th] # Idle
  /\ \E t \in Tokens \ used :
       /\ used' = used \cup {t}
       /\ sessions' = {s \in sessions : left[s] = 0} \cup {t}
       /\ left' = [left EXCEPT ![t] = Ttl]
       /\ life' = [life EXCEPT ![t] = Ttl]
  /\ task' = [task EXCEPT ![th] = Idle]
  /\ UNCHANGED <<mode, bind, failures, age>>

\* Faulty: the expiry is a tick beyond the session's time.
RightPasswordLonger(th) ==
  /\ task[th] # Idle
  /\ \E t \in Tokens \ used :
       /\ used' = used \cup {t}
       /\ sessions' = {s \in sessions : left[s] > 0} \cup {t}
       /\ left' = [left EXCEPT ![t] = Ttl + 1]
       /\ life' = [life EXCEPT ![t] = Ttl]
  /\ task' = [task EXCEPT ![th] = Idle]
  /\ UNCHANGED <<mode, bind, failures, age>>

\* Auth::create_session: expired sessions are dropped, a new one is stored.
RightPassword(th) ==
  /\ task[th] # Idle
  /\ \E t \in Tokens \ used :
       /\ used' = used \cup {t}
       /\ sessions' = {s \in sessions : left[s] > 0} \cup {t}
       /\ left' = [left EXCEPT ![t] = Ttl]
       /\ life' = [life EXCEPT ![t] = Ttl]
  /\ task' = [task EXCEPT ![th] = Idle]
  /\ UNCHANGED <<mode, bind, failures, age>>

-----------------------------------------------------------------------------
(* Requests, logout and time.                                              *)

\* Auth::check_session answers yes.
Alive(t) == t \in sessions /\ left[t] > 0

\* auth_middleware, and session_info's `authenticated': a request with this
\* token reaches its handler, if it is for one of the paths that are asked
\* for a session; those of is_public (the page's own files, the health check,
\* login, logout and session_info) are never refused.
Admits(t) == mode = "open" \/ (mode = "required" /\ Alive(t))

\* Faulty: a session in use is extended.
CheckExtends(t) ==
  /\ mode = "required" /\ t \in sessions
  /\ left' = [left EXCEPT ![t] = Ttl]
  /\ UNCHANGED <<mode, bind, clientVars, sessions, used, life>>

\* Auth::check_session forgets the expired session it is asked for.
CheckExpired(t) ==
  /\ mode = "required" /\ t \in sessions /\ left[t] = 0
  /\ sessions' = sessions \ {t}
  /\ UNCHANGED <<mode, bind, clientVars, left, used, life>>

\* logout, without a session of its own to pass: Auth::remove_session.
Logout(t) ==
  /\ mode # "down" /\ t \in sessions
  /\ sessions' = sessions \ {t}
  /\ left' = [left EXCEPT ![t] = 0]
  /\ life' = [life EXCEPT ![t] = 0]
  /\ UNCHANGED <<mode, bind, clientVars, used>>

Sooner(n) == IF n > 0 THEN n - 1 ELSE 0

Tick ==
  /\ mode # "down"
  /\ age' = [ip \in Ips |-> [a \in Attempts |->
                IF age[ip][a] < Window THEN age[ip][a] + 1 ELSE Window]]
  /\ left' = [t \in Tokens |-> Sooner(left[t])]
  /\ life' = [t \in Tokens |-> Sooner(life[t])]
  /\ UNCHANGED <<mode, bind, task, failures, sessions, used>>

-----------------------------------------------------------------------------

Next ==
  \/ \E cli, env \in {"unset", "loopback", "any"}, disabled \in BOOLEAN :
       Start(cli, env, disabled)
  \/ End
  \/ \E th \in Threads, ip \in Ips : LoginAdmitted(th, ip) \/ LoginRefused(th, ip)
  \/ \E th \in Threads : WrongPassword(th) \/ RightPassword(th)
  \/ \E t \in Tokens : CheckExpired(t) \/ Logout(t)
  \/ Tick

Spec == Init /\ [][Next]_vars

\* Time passes; nobody has to log in, and no login has to end.
FairSpec == Spec /\ WF_vars(Tick)

-----------------------------------------------------------------------------
(* Properties.                                                             *)

\* The type invariant.
TypeOK ==
  /\ mode \in {"down", "required", "open"} /\ bind \in {"loopback", "any"}
  /\ task \in [Threads -> Ips \cup {Idle}]
  /\ failures \in [Ips -> SUBSET Attempts]
  /\ age \in [Ips -> [Attempts -> 0..Window]]
  /\ sessions \subseteq Tokens /\ used \subseteq Tokens
  /\ left \in [Tokens -> 0..Ttl] /\ life \in [Tokens -> 0..Ttl]

Running(ip) == {th \in Threads : task[th] = ip}

\* The check of the throttle and the record of the failure are not one
\* critical section, so that an address can fail more often than
\* MaxFailures in a window; but never by more than the logins that overlap:
\* the wrong passwords of the last window, whether the daemon still holds
\* them or not, and the logins under way stay below the budget and the
\* number of threads together.
AttemptsWithinBudget ==
  \A ip \in Ips :
    Cardinality(Counting(Attempts, age[ip])) + Cardinality(Running(ip))
      < MaxFailures + Cardinality(Threads)

\* A request is let in only on a session that was given to its sender, has
\* not been ended by a logout, its time or the end of the process, or on a
\* daemon that is served on a loopback address.
AdmittedOnlyInLife ==
  \A t \in Tokens : Admits(t) => life[t] > 0 \/ bind = "loopback"

\* And for as long a session is let in, whatever other sessions do.
KeptForLife == \A t \in Tokens : life[t] > 0 => Admits(t)

\* An address that is refused is let try again, however many logins it makes
\* in the meantime and whatever the logins under way end with.
ThrottleEnds ==
  \A ip \in Ips : mode = "required" /\ Throttled(ip) ~> ~Throttled(ip)
=============================================================================
