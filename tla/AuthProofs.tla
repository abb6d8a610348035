------------------------------ MODULE AuthProofs ------------------------------
(***************************************************************************)
(* Proofs about module Auth, for every set of addresses, tokens and        *)
(* threads, every budget and every length of the window and of a session:  *)
(* its type invariant, the bound on wrong passwords when logins overlap,   *)
(* and that a session is let in exactly for as long as it was given.       *)
(***************************************************************************)
EXTENDS Auth, FiniteSetTheorems, TLAPS

\* Nothing that counts is forgotten: each attempt of the window is held.
Remembered ==
  \A ip \in Ips : Counting(Attempts, age[ip]) \subseteq failures[ip]

\* The daemon's sessions and what their holders were promised agree.
SessionInv ==
  /\ mode = "open" => bind = "loopback"
  /\ sessions \subseteq used
  /\ \A t \in sessions : left[t] = life[t]
  /\ \A t \in Tokens \ sessions : life[t] = 0
  /\ mode # "required" => sessions = {}

\* A login runs only where one is required.
LoginInv == mode # "required" => \A th \in Threads : task[th] = Idle

-----------------------------------------------------------------------------
(* Type correctness.                                                       *)

\* The type invariant holds initially.
LEMMA InitTypeOK == Init => TypeOK
BY AuthAssumption DEF Init, TypeOK

\* The constants' bounds, as the steps need them.
LEMMA Bounds ==
  /\ 0 \in 0..Window /\ Window \in 0..Window
  /\ 0 \in 0..Ttl /\ Ttl \in 0..Ttl
  /\ \A n \in 0..Ttl : Sooner(n) \in 0..Ttl
  /\ \A n \in 0..Window : n < Window => n + 1 \in 0..Window
BY AuthAssumption DEF Sooner

\* Every step keeps the types.
LEMMA NextTypeOK == TypeOK /\ [Next]_vars => TypeOK'
<1> SUFFICES ASSUME TypeOK, [Next]_vars PROVE TypeOK'
  OBVIOUS
<1>1. ASSUME NEW cli \in {"unset", "loopback", "any"}, NEW env \in {"unset", "loopback", "any"},
             NEW disabled \in BOOLEAN, Start(cli, env, disabled)
      PROVE  TypeOK'
  <2>1. bind' \in {"loopback", "any"}
    BY <1>1 DEF Start, EffectiveBind
  <2>2. mode' \in {"down", "required", "open"}
    BY <1>1 DEF Start
  <2> QED BY <1>1, <2>1, <2>2 DEF Start, TypeOK, clientVars, sessionVars
<1>2. CASE End
  BY <1>2, Bounds DEF End, TypeOK
<1>3. ASSUME NEW th \in Threads, NEW ip \in Ips, LoginAdmitted(th, ip) PROVE TypeOK'
  BY <1>3 DEF LoginAdmitted, TypeOK, Counting, sessionVars
<1>4. ASSUME NEW th \in Threads, NEW ip \in Ips, LoginRefused(th, ip) PROVE TypeOK'
  BY <1>4 DEF LoginRefused, TypeOK, Counting, sessionVars
<1>5. ASSUME NEW th \in Threads, WrongPassword(th) PROVE TypeOK'
  <2> DEFINE ip == task[th]
             a == CHOOSE x \in Unnamed(ip) : TRUE
  <2>1. ip \in Ips /\ a \in Attempts
    BY <1>5 DEF WrongPassword, TypeOK, Unnamed
  <2>2. age' = [age EXCEPT ![ip] = [age[ip] EXCEPT ![a] = 0]]
    BY <1>5, <2>1 DEF WrongPassword, TypeOK
  <2>3. age' \in [Ips -> [Attempts -> 0..Window]]
    BY <2>1, <2>2, Bounds DEF TypeOK
  <2>4. failures' \in [Ips -> SUBSET Attempts]
    <3>1. failures' = [i \in Ips |->
            Counting(failures[i] \cup (IF i = ip THEN {a} ELSE {}), age'[i])]
      BY <1>5 DEF WrongPassword
    <3> QED BY <2>1, <3>1 DEF Counting, TypeOK
  <2> QED BY <1>5, <2>3, <2>4 DEF WrongPassword, TypeOK, sessionVars
<1>6. ASSUME NEW th \in Threads, RightPassword(th) PROVE TypeOK'
  BY <1>6, Bounds DEF RightPassword, TypeOK
<1>7. ASSUME NEW t \in Tokens, CheckExpired(t) PROVE TypeOK'
  BY <1>7 DEF CheckExpired, TypeOK, clientVars
<1>8. ASSUME NEW t \in Tokens, Logout(t) PROVE TypeOK'
  BY <1>8, Bounds DEF Logout, TypeOK, clientVars
<1>9. CASE Tick
  <2>1. left' \in [Tokens -> 0..Ttl] /\ life' \in [Tokens -> 0..Ttl]
    BY <1>9, Bounds DEF Tick, TypeOK
  <2>2. age' \in [Ips -> [Attempts -> 0..Window]]
    BY <1>9, Bounds DEF Tick, TypeOK
  <2> QED BY <1>9, <2>1, <2>2 DEF Tick, TypeOK
<1>10. CASE UNCHANGED vars
  BY <1>10 DEF vars, TypeOK
<1> QED BY <1>1, <1>2, <1>3, <1>4, <1>5, <1>6, <1>7, <1>8, <1>9, <1>10 DEF Next

\* The variables keep their types in every behaviour.
THEOREM TypeCorrect == Spec => []TypeOK
<1>1. Init => TypeOK
  BY InitTypeOK
<1>2. TypeOK /\ [Next]_vars => TypeOK'
  BY NextTypeOK
<1> QED BY <1>1, <1>2, PTL DEF Spec

-----------------------------------------------------------------------------
(* Sessions.                                                               *)

\* Every step keeps the agreement about sessions, and logins where they belong.
LEMMA NextSessionInv ==
  TypeOK /\ SessionInv /\ LoginInv /\ [Next]_vars => SessionInv' /\ LoginInv'
<1> SUFFICES ASSUME TypeOK, SessionInv, LoginInv, [Next]_vars
             PROVE  SessionInv' /\ LoginInv'
  OBVIOUS
<1> USE DEF TypeOK, SessionInv, LoginInv
<1>1. ASSUME NEW cli \in {"unset", "loopback", "any"}, NEW env \in {"unset", "loopback", "any"},
             NEW disabled \in BOOLEAN, Start(cli, env, disabled)
      PROVE  SessionInv' /\ LoginInv'
  BY <1>1 DEF Start, clientVars, sessionVars
<1>2. CASE End
  BY <1>2 DEF End
<1>3. ASSUME NEW th \in Threads, NEW ip \in Ips, LoginAdmitted(th, ip)
      PROVE  SessionInv' /\ LoginInv'
  BY <1>3 DEF LoginAdmitted, sessionVars
<1>4. ASSUME NEW th \in Threads, NEW ip \in Ips, LoginRefused(th, ip)
      PROVE  SessionInv' /\ LoginInv'
  BY <1>4 DEF LoginRefused, sessionVars
<1>5. ASSUME NEW th \in Threads, WrongPassword(th) PROVE SessionInv' /\ LoginInv'
  BY <1>5 DEF WrongPassword, sessionVars
<1>6. ASSUME NEW th \in Threads, RightPassword(th) PROVE SessionInv' /\ LoginInv'
  <2>1. mode = "required" /\ UNCHANGED <<mode, bind>>
    BY <1>6 DEF RightPassword
  <2>2. PICK t \in Tokens \ used :
          /\ used' = used \cup {t}
          /\ sessions' = {s \in sessions : left[s] > 0} \cup {t}
          /\ left' = [left EXCEPT ![t] = Ttl]
          /\ life' = [life EXCEPT ![t] = Ttl]
    BY <1>6 DEF RightPassword
  <2>3. \A s \in sessions' : left'[s] = life'[s]
    BY <2>2
  <2>4. \A s \in Tokens \ sessions' : life'[s] = 0
    <3> SUFFICES ASSUME NEW s \in Tokens \ sessions' PROVE life[s] = 0 /\ s # t
      BY <2>2
    <3>1. s \notin sessions \/ ~(left[s] > 0)
      BY <2>2
    <3>2. left[s] \in 0..Ttl
      OBVIOUS
    <3> QED BY <2>2, <3>1, <3>2, AuthAssumption
  <2> QED BY <2>1, <2>2, <2>3, <2>4
<1>7. ASSUME NEW t \in Tokens, CheckExpired(t) PROVE SessionInv' /\ LoginInv'
  BY <1>7 DEF CheckExpired, clientVars
<1>8. ASSUME NEW t \in Tokens, Logout(t) PROVE SessionInv' /\ LoginInv'
  BY <1>8 DEF Logout, clientVars
<1>9. CASE Tick
  BY <1>9 DEF Tick, Sooner
<1>10. CASE UNCHANGED vars
  BY <1>10 DEF vars
<1> QED BY <1>1, <1>2, <1>3, <1>4, <1>5, <1>6, <1>7, <1>8, <1>9, <1>10 DEF Next

\* The agreement is what the two properties about requests say.
LEMMA SessionsDecided ==
  TypeOK /\ SessionInv => AdmittedOnlyInLife /\ KeptForLife
<1> SUFFICES ASSUME TypeOK, SessionInv, NEW t \in Tokens
             PROVE  /\ Admits(t) => life[t] > 0 \/ bind = "loopback"
                    /\ life[t] > 0 => Admits(t)
  BY DEF AdmittedOnlyInLife, KeptForLife
<1>1. CASE t \in sessions
  BY <1>1 DEF TypeOK, SessionInv, Admits, Alive
<1>2. CASE t \notin sessions
  BY <1>2 DEF TypeOK, SessionInv, Admits, Alive
<1> QED BY <1>1, <1>2

\* The agreement holds initially: nothing runs.
LEMMA InitSessionInv == Init => SessionInv /\ LoginInv
BY DEF Init, SessionInv, LoginInv

\* The session facts hold in every behaviour.
LEMMA SessionsAgree == Spec => [](TypeOK /\ SessionInv /\ LoginInv)
<1>1. Init => TypeOK /\ SessionInv /\ LoginInv
  BY InitTypeOK, InitSessionInv
<1>2. (TypeOK /\ SessionInv /\ LoginInv) /\ [Next]_vars => (TypeOK /\ SessionInv /\ LoginInv)'
  BY NextTypeOK, NextSessionInv
<1> QED BY <1>1, <1>2, PTL DEF Spec

\* A request is let in only on a session within its life, or on loopback.
THEOREM AdmittedOnlyInLifeCorrect == Spec => []AdmittedOnlyInLife
BY SessionsAgree, SessionsDecided, PTL

\* A session is let in until it is ended or its time is over.
THEOREM KeptForLifeCorrect == Spec => []KeptForLife
BY SessionsAgree, SessionsDecided, PTL

-----------------------------------------------------------------------------
(* The throttle.                                                           *)

\* The wrong passwords of an address in the last window, and its logins.
Failed(ip) == Counting(Attempts, age[ip])

\* Every step keeps held what counts.
LEMMA NextRemembered == TypeOK /\ Remembered /\ [Next]_vars => Remembered'
<1> SUFFICES ASSUME TypeOK, Remembered, [Next]_vars,
                    NEW i \in Ips, NEW b \in Attempts, age'[i][b] < Window
             PROVE  b \in failures'[i]
  BY DEF Remembered, Counting
<1>1. age[i][b] < Window => b \in failures[i]
  BY DEF Remembered, Counting
<1>2. ASSUME NEW cli \in {"unset", "loopback", "any"}, NEW env \in {"unset", "loopback", "any"},
             NEW disabled \in BOOLEAN, Start(cli, env, disabled)
      PROVE  b \in failures'[i]
  BY <1>1, <1>2 DEF Start, clientVars
<1>3. CASE End
  BY <1>3, AuthAssumption DEF End
<1>4. ASSUME NEW th \in Threads, NEW ip \in Ips, LoginAdmitted(th, ip) \/ LoginRefused(th, ip)
      PROVE  b \in failures'[i]
  BY <1>1, <1>4 DEF LoginAdmitted, LoginRefused, Counting, TypeOK
<1>5. ASSUME NEW th \in Threads, WrongPassword(th) PROVE b \in failures'[i]
  <2> DEFINE ip == task[th]
             a == CHOOSE x \in Unnamed(ip) : TRUE
  <2>1. ip \in Ips /\ age' = [age EXCEPT ![ip][a] = 0]
    BY <1>5 DEF WrongPassword, TypeOK
  <2>2. failures'[i] = Counting(failures[i] \cup (IF i = ip THEN {a} ELSE {}), age'[i])
    BY <1>5 DEF WrongPassword
  <2>3. b \in failures[i] \/ (i = ip /\ b = a)
    <3>1. CASE i = ip /\ b = a
      BY <3>1
    <3>2. CASE ~(i = ip /\ b = a)
      <4>1. age'[i][b] = age[i][b]
        BY <2>1, <3>2 DEF TypeOK
      <4> QED BY <1>1, <4>1
    <3> QED BY <3>1, <3>2
  <2> QED BY <2>2, <2>3 DEF Counting
<1>6. ASSUME NEW th \in Threads, RightPassword(th) PROVE b \in failures'[i]
  BY <1>1, <1>6 DEF RightPassword
<1>7. ASSUME NEW t \in Tokens, CheckExpired(t) \/ Logout(t) PROVE b \in failures'[i]
  BY <1>1, <1>7 DEF CheckExpired, Logout, clientVars
<1>8. CASE Tick
  <2>1. age'[i][b] = IF age[i][b] < Window THEN age[i][b] + 1 ELSE Window
    BY <1>8 DEF Tick
  <2>2. age[i][b] < Window
    BY <2>1, AuthAssumption
  <2> QED BY <1>1, <1>8, <2>2 DEF Tick
<1>9. CASE UNCHANGED vars
  BY <1>1, <1>9 DEF vars
<1> QED BY <1>2, <1>3, <1>4, <1>5, <1>6, <1>7, <1>8, <1>9 DEF Next

\* The sets that are counted are finite.
LEMMA Finite ==
  ASSUME NEW ip
  PROVE  /\ IsFiniteSet(Failed(ip)) /\ Cardinality(Failed(ip)) \in Nat
         /\ IsFiniteSet(Running(ip)) /\ Cardinality(Running(ip)) \in Nat
         /\ Cardinality(Running(ip)) <= Cardinality(Threads)
         /\ Cardinality(Threads) \in Nat
<1>1. Failed(ip) \subseteq Attempts /\ Running(ip) \subseteq Threads
  BY DEF Failed, Counting, Running
<1> QED BY <1>1, AuthAssumption, FS_Subset, FS_CardinalityType

\* Fewer failures and fewer logins stay within the budget.
LEMMA FewerWithin ==
  ASSUME AttemptsWithinBudget, NEW ip \in Ips,
         Failed(ip)' \subseteq Failed(ip), Running(ip)' \subseteq Running(ip)
  PROVE  Cardinality(Failed(ip)') + Cardinality(Running(ip)')
           < MaxFailures + Cardinality(Threads)
<1>1. /\ Cardinality(Failed(ip)') <= Cardinality(Failed(ip))
      /\ Cardinality(Failed(ip)') \in Nat
  BY Finite, FS_Subset, FS_CardinalityType
<1>2. /\ Cardinality(Running(ip)') <= Cardinality(Running(ip))
      /\ Cardinality(Running(ip)') \in Nat
  BY Finite, FS_Subset, FS_CardinalityType
<1>3. Cardinality(Failed(ip)) + Cardinality(Running(ip)) < MaxFailures + Cardinality(Threads)
  BY DEF AttemptsWithinBudget, Failed
<1> QED BY <1>1, <1>2, <1>3, Finite, AuthAssumption

\* Every step keeps each address within the budget.
LEMMA NextBudget ==
  TypeOK /\ Remembered /\ AttemptsWithinBudget /\ [Next]_vars => AttemptsWithinBudget'
<1> SUFFICES ASSUME TypeOK, Remembered, AttemptsWithinBudget, [Next]_vars, NEW i \in Ips
             PROVE  Cardinality(Failed(i)') + Cardinality(Running(i)')
                      < MaxFailures + Cardinality(Threads)
  BY DEF AttemptsWithinBudget, Failed
<1>1. UNCHANGED <<age, task>> => Failed(i)' \subseteq Failed(i) /\ Running(i)' \subseteq Running(i)
  BY DEF Failed, Counting, Running
<1>2. ASSUME NEW cli \in {"unset", "loopback", "any"}, NEW env \in {"unset", "loopback", "any"},
             NEW disabled \in BOOLEAN, Start(cli, env, disabled)
      PROVE  Failed(i)' \subseteq Failed(i) /\ Running(i)' \subseteq Running(i)
  BY <1>1, <1>2 DEF Start, clientVars
<1>3. CASE End
  <2>1. Failed(i)' = {}
    BY <1>3, AuthAssumption DEF End, Failed, Counting
  <2>2. Running(i)' = {}
    BY <1>3, AuthAssumption DEF End, Running
  <2> QED BY <2>1, <2>2, FewerWithin
<1>4. ASSUME NEW th \in Threads, NEW ip \in Ips, LoginAdmitted(th, ip)
      PROVE  Cardinality(Failed(i)') + Cardinality(Running(i)')
               < MaxFailures + Cardinality(Threads)
  <2>1. Failed(i)' = Failed(i)
    BY <1>4 DEF LoginAdmitted, Failed, Counting
  <2>2. CASE i = ip
    <3>1. Failed(i) = Counting(failures[i], age[i])
      BY DEF Failed, Remembered, Counting, TypeOK
    <3>2. ~(Cardinality(Failed(i)) >= MaxFailures)
      BY <1>4, <2>2, <3>1 DEF LoginAdmitted, Throttled
    <3>3. Running(i)' \subseteq Threads
      BY DEF Running
    <3>4. /\ Cardinality(Running(i)') <= Cardinality(Threads)
          /\ Cardinality(Running(i)') \in Nat
      BY <3>3, AuthAssumption, FS_Subset, FS_CardinalityType
    <3> QED BY <2>1, <3>2, <3>4, Finite, AuthAssumption
  <2>3. CASE i # ip
    <3>1. Running(i)' \subseteq Running(i)
      BY <1>4, <2>3 DEF LoginAdmitted, Running, TypeOK
    <3> QED BY <2>1, <3>1, FewerWithin
  <2> QED BY <2>2, <2>3
<1>5. ASSUME NEW th \in Threads, NEW ip \in Ips, LoginRefused(th, ip)
      PROVE  Failed(i)' \subseteq Failed(i) /\ Running(i)' \subseteq Running(i)
  BY <1>1, <1>5 DEF LoginRefused
<1>6. ASSUME NEW th \in Threads, WrongPassword(th)
      PROVE  Cardinality(Failed(i)') + Cardinality(Running(i)')
               < MaxFailures + Cardinality(Threads)
  <2> DEFINE a == CHOOSE x \in Unnamed(task[th]) : TRUE
  <2>1. /\ task[th] \in Ips /\ a \in Attempts /\ age[task[th]][a] = Window
        /\ task' = [task EXCEPT ![th] = Idle]
        /\ age' = [age EXCEPT ![task[th]] = [age[task[th]] EXCEPT ![a] = 0]]
    BY <1>6 DEF WrongPassword, TypeOK, Unnamed
  <2> HIDE DEF a
  <2>2. Running(i)' = Running(i) \ {th}
    BY <2>1, AuthAssumption DEF Running, TypeOK
  <2>3. CASE i = task[th]
    <3>1. th \in Running(i)
      BY <2>3 DEF Running
    <3>2. Cardinality(Running(i)') = Cardinality(Running(i)) - 1
      BY <2>2, <3>1, Finite, FS_RemoveElement
    <3>3. Failed(i)' \subseteq Failed(i) \cup {a}
      BY <2>1, <2>3 DEF Failed, Counting, TypeOK
    <3>4. /\ IsFiniteSet(Failed(i) \cup {a})
          /\ Cardinality(Failed(i) \cup {a}) <= Cardinality(Failed(i)) + 1
          /\ Cardinality(Failed(i) \cup {a}) \in Nat
      <4>1. IsFiniteSet(Failed(i)) /\ Cardinality(Failed(i)) \in Nat
        BY Finite
      <4>2. /\ IsFiniteSet(Failed(i) \cup {a})
            /\ \/ Cardinality(Failed(i) \cup {a}) = Cardinality(Failed(i))
               \/ Cardinality(Failed(i) \cup {a}) = Cardinality(Failed(i)) + 1
        BY <4>1, FS_AddElement
      <4> QED BY <4>1, <4>2
    <3>5. Cardinality(Failed(i)') <= Cardinality(Failed(i) \cup {a}) /\ Cardinality(Failed(i)') \in Nat
      BY <3>3, <3>4, FS_Subset, FS_CardinalityType
    <3>6. Cardinality(Failed(i)) + Cardinality(Running(i)) < MaxFailures + Cardinality(Threads)
      BY DEF AttemptsWithinBudget, Failed
    <3> QED BY <3>2, <3>4, <3>5, <3>6, Finite, AuthAssumption
  <2>4. CASE i # task[th]
    <3>1. Failed(i)' \subseteq Failed(i)
      BY <2>1, <2>4 DEF Failed, Counting, TypeOK
    <3> QED BY <2>2, <3>1, FewerWithin
  <2> QED BY <2>3, <2>4
<1>7. ASSUME NEW th \in Threads, RightPassword(th)
      PROVE  Failed(i)' \subseteq Failed(i) /\ Running(i)' \subseteq Running(i)
  BY <1>7, AuthAssumption DEF RightPassword, Failed, Counting, Running, TypeOK
<1>8. ASSUME NEW t \in Tokens, CheckExpired(t) \/ Logout(t)
      PROVE  Failed(i)' \subseteq Failed(i) /\ Running(i)' \subseteq Running(i)
  BY <1>1, <1>8 DEF CheckExpired, Logout, clientVars
<1>9. CASE Tick
  <2>1. Running(i)' \subseteq Running(i)
    BY <1>9 DEF Tick, Running
  <2>2. \A b \in Attempts : age'[i][b] < Window => age[i][b] < Window
    BY <1>9, AuthAssumption DEF Tick, TypeOK
  <2> QED BY <2>1, <2>2, FewerWithin DEF Failed, Counting
<1>10. CASE UNCHANGED vars
  BY <1>1, <1>10, FewerWithin DEF vars
<1> QED BY <1>2, <1>3, <1>4, <1>5, <1>6, <1>7, <1>8, <1>9, <1>10, FewerWithin DEF Next

\* Nothing has failed and nothing runs.
LEMMA InitBudget == Init => Remembered /\ AttemptsWithinBudget
<1> SUFFICES ASSUME Init, NEW ip \in Ips
             PROVE  /\ Failed(ip) \subseteq failures[ip]
                    /\ Cardinality(Failed(ip)) + Cardinality(Running(ip))
                         < MaxFailures + Cardinality(Threads)
  BY DEF Remembered, AttemptsWithinBudget, Failed
<1>1. Failed(ip) = {}
  BY AuthAssumption DEF Init, Failed, Counting
<1>2. Running(ip) = {}
  BY AuthAssumption DEF Init, Running
<1> QED BY <1>1, <1>2, Finite, FS_EmptySet, AuthAssumption

\* Overlapping logins overrun the budget by less than their number.
THEOREM AttemptsWithinBudgetCorrect == Spec => []AttemptsWithinBudget
<1>1. Init => TypeOK /\ Remembered /\ AttemptsWithinBudget
  BY InitTypeOK, InitBudget
<1>2. (TypeOK /\ Remembered /\ AttemptsWithinBudget) /\ [Next]_vars
        => (TypeOK /\ Remembered /\ AttemptsWithinBudget)'
  BY NextTypeOK, NextRemembered, NextBudget
<1> QED BY <1>1, <1>2, PTL DEF Spec
=============================================================================
