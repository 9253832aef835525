---------------------------- MODULE AccountsProofs ----------------------------
(***************************************************************************)
(* Answers are true and who serves is seeded, for every set of requests,   *)
(* instances, emails and passwords and any number of boots and failures.   *)
(* Inductive is an inductive invariant in two parts: what the stage of a   *)
(* call tells of the rows, and what the progress of a boot tells of them.  *)
(***************************************************************************)
EXTENDS Accounts, FiniteSetTheorems, TLAPS

Demo(d) == [id |-> d, email |-> d, password |-> DemoPassword]

\* What the steps keep of TypeOK by themselves: not the bound on copies.
Typed ==
    /\ users \subseteq Account /\ sessions \subseteq Session
    /\ seeded \subseteq {"schema", "rules", "conversation"}
    /\ copies \in [1 .. 2 -> Nat]
    /\ boot \in [Instance -> 0 .. 9]
    /\ pc \in [Request -> Awaiting \cup {"idle", "ok", "conflict", "denied", "failed",
                                         "lostUser", "lostSession"}]
    /\ found \in [Request -> UserId \cup {Unknown}]
    /\ wiped \subseteq Instance
    /\ boots \in 0 .. MaxBoots /\ faults \in 0 .. MaxFaults

UniqueEmail == \A u, v \in users : u.email = v.email => u = v

DemoSeeded == \A d \in {Alice, Bob} : Demo(d) \in users

\* The demo emails belong to the demo users.
DemoKept == \A u \in users : u.email \in {Alice, Bob} => u = Demo(u.email)

\* The account that a call has found, or created.
Knows(r) ==
    \E u \in users :
        /\ u.id = found[r]
        /\ u.email = Call[r].email /\ u.password = Call[r].password
        /\ IsRegister(r) => u.id = r

\* What the stage of a call tells.
Stage(r) ==
    /\ pc[r] # "idle" => DemoSeeded
    /\ pc[r] = "find" => ~IsRegister(r)
    /\ Owns(r) => pc[r] \in {"session", "lostSession", "ok", "failed"}
    /\ pc[r] \in {"session", "lostSession", "ok"} => Knows(r)
    /\ pc[r] = "ok" => [req |-> r, user |-> found[r]] \in sessions
    /\ pc[r] = "conflict" => Taken(r)
    /\ pc[r] \in {"lostUser", "lostSession"} => faults > 0
    /\ pc[r] = "failed" /\ Owns(r) => faults > 0

\* The position of message n in the script, and the boots that have it ahead.
Place(n) == n + 6
Ahead(n) == {i \in Instance : boot[i] \in 1 .. Place(n)}

\* What the progress of a boot tells.
Progress(i) ==
    /\ boot[i] > 3 => "schema" \in seeded /\ Demo(Alice) \in users
    /\ boot[i] > 4 => Demo(Bob) \in users
    /\ boot[i] > 5 => "rules" \in seeded
    /\ boot[i] > 6 /\ i \notin wiped => "conversation" \in seeded
    /\ \A n \in 1 .. 2 : boot[i] > Place(n) /\ i \notin wiped => copies[n] > 0

\* Each boot adds a message at most once.
OncePerBoot == \A n \in 1 .. 2 : copies[n] + Cardinality(Ahead(n)) <= boots

Calls == UniqueEmail /\ DemoKept /\ \A r \in Request : Stage(r)
Boots == (\A i \in Instance : Progress(i)) /\ OncePerBoot
Inductive == Typed /\ Calls /\ Boots

-----------------------------------------------------------------------------
(* What the steps have in common                                           *)

\* The script has eight statements.
LEMMA ScriptValue ==
    /\ Len(Script) = 8 /\ Up = 9 /\ Down = 0
    /\ Script[1] = "schema" /\ Script[2] = "schema"
    /\ Script[3] = "alice" /\ Script[4] = "bob" /\ Script[5] = "rules"
    /\ Script[6] = "conversation" /\ Script[7] = "first" /\ Script[8] = "second"
  BY DEF Script, Up, Down

\* A statement of the script adds a demo user at most, and ends no session.
LEMMA SeedUsers ==
    ASSUME Typed, DemoKept, UniqueEmail, NEW k \in 1 .. 8, Seed(Script[k])
    PROVE  /\ users \subseteq users'
           /\ \A u \in users' : u \in users \/ u \in {Demo(Alice), Demo(Bob)}
           /\ DemoKept' /\ UniqueEmail'
           /\ k = 3 => Demo(Alice) \in users'
           /\ k = 4 => Demo(Bob) \in users'
<1>1. ASSUME NEW d \in {Alice, Bob}, SeedUser(d)
      PROVE  /\ users \subseteq users'
             /\ \A u \in users' : u \in users \/ u = Demo(d)
             /\ DemoKept' /\ UniqueEmail' /\ Demo(d) \in users'
  <2>1. CASE \E u \in users : u.email = d
    <3>1. users' = users
      BY <1>1, <2>1 DEF SeedUser
    <3>2. Demo(d) \in users
      BY <2>1 DEF DemoKept
    <3> QED
      BY <3>1, <3>2 DEF DemoKept, UniqueEmail
  <2>2. CASE ~ \E u \in users : u.email = d
    <3>1. users' = users \cup {Demo(d)}
      BY <1>1, <2>2 DEF SeedUser, Demo
    <3>2. Demo(d).email = d
      BY DEF Demo
    <3> QED
      BY <2>2, <3>1, <3>2 DEF DemoKept, UniqueEmail
  <2> QED
    BY <2>1, <2>2
<1>2. CASE k = 3
  <2>1. SeedUser(Alice)
    BY <1>2, ScriptValue DEF Seed
  <2> QED
    BY <1>1, <1>2, <2>1
<1>3. CASE k = 4
  <2>1. SeedUser(Bob)
    BY <1>3, ScriptValue DEF Seed
  <2> QED
    BY <1>1, <1>3, <2>1
<1>4. CASE k \notin {3, 4}
  <2>1. users' = users
    BY <1>4, ScriptValue DEF Seed
  <2> QED
    BY <1>4, <2>1 DEF DemoKept, UniqueEmail
<1> QED
  BY <1>2, <1>3, <1>4

\* A statement of the script leaves sessions, and each table has its type.
LEMMA SeedTyped ==
    ASSUME Typed, NEW k \in 1 .. 8, Seed(Script[k])
    PROVE  /\ users' \subseteq Account /\ sessions' = sessions
           /\ seeded' \subseteq {"schema", "rules", "conversation"}
           /\ seeded \subseteq seeded'
           /\ copies' \in [1 .. 2 -> Nat]
<1>1. sessions' = sessions
  BY DEF Seed
<1>2. Demo(Alice) \in Account /\ Demo(Bob) \in Account
  BY DemoAssumption DEF Demo, Account, UserId
<1>3. ASSUME NEW n \in 1 .. 2, SeedMessage(n) PROVE copies' \in [1 .. 2 -> Nat]
  BY <1>3 DEF SeedMessage, Typed
<1>4. CASE k \in {1, 2, 5, 6}
  BY <1>1, <1>4, ScriptValue DEF Seed, Typed
<1>5. CASE k \in {3, 4}
  <2>1. UNCHANGED <<seeded, copies>> /\ (SeedUser(Alice) \/ SeedUser(Bob))
    BY <1>5, ScriptValue DEF Seed
  <2> QED
    BY <1>1, <1>2, <2>1 DEF SeedUser, Demo, Typed
<1>6. CASE k \in {7, 8}
  <2>1. UNCHANGED <<users, seeded>> /\ (SeedMessage(1) \/ SeedMessage(2))
    BY <1>6, ScriptValue DEF Seed
  <2> QED
    BY <1>1, <1>3, <2>1 DEF Typed
<1> QED
  BY <1>4, <1>5, <1>6

\* A call that does not move keeps what its stage tells, as long as rows are
\* only added, and not its own.
LEMMA StageKept ==
    ASSUME NEW r \in Request, Stage(r), Typed, Typed',
           pc'[r] = pc[r], found'[r] = found[r],
           users \subseteq users', sessions \subseteq sessions',
           Registered(r) \in users' => Registered(r) \in users,
           faults' >= faults
    PROVE  Stage(r)'
<1>1. faults \in Nat /\ faults' \in Nat
  BY BoundAssumption DEF Typed
<1>2. (DemoSeeded => DemoSeeded') /\ (Taken(r) => Taken(r)') /\ (Owns(r)' => Owns(r))
  BY DEF DemoSeeded, Taken, Owns, Registered
<1>3. Knows(r) => Knows(r)'
  BY DEF Knows
<1> QED
  BY <1>1, <1>2, <1>3 DEF Stage

-----------------------------------------------------------------------------
(* Types                                                                   *)

LEMMA TypedInit == Init => Typed
  BY BoundAssumption, ScriptValue DEF Init, Typed

\* Where a call goes on.
LEMMA GotoTyped ==
    ASSUME Typed, NEW r \in Request, NEW from, NEW to, Goto(r, from, to),
           to \in {"check", "find", "conflict", "user", "session", "failed", "denied", "ok"}
    PROVE  pc' \in [Request -> Awaiting \cup {"idle", "ok", "conflict", "denied", "failed",
                                              "lostUser", "lostSession"}]
  BY DEF Typed, Goto, Awaiting

\* A boot keeps the types.
LEMMA BootTyped ==
    ASSUME Typed, NEW i \in Instance,
           Start(i) \/ BootStep(i) \/ SchemaFails(i) \/ BootFails(i) \/ BootCut(i)
             \/ DropDemo(i) \/ Crash(i)
    PROVE  Typed'
<1>1. boots \in Nat /\ faults \in Nat /\ boot[i] \in 0 .. 9
  BY BoundAssumption DEF Typed
<1>2. CASE Start(i)
  BY <1>1, <1>2, BoundAssumption, ScriptValue DEF Start, Typed, tables, calls
<1>3. CASE BootStep(i)
  <2>1. boot[i] \in 1 .. 8 /\ Seed(Script[boot[i]])
    BY <1>3, ScriptValue DEF BootStep, Booting
  <2>2. boot' \in [Instance -> 0 .. 9]
    BY <1>3, <2>1 DEF BootStep, Typed
  <2>3. UNCHANGED <<pc, found, wiped, boots, faults>>
    BY <1>3 DEF BootStep, calls, bounds
  <2> QED
    BY <2>1, <2>2, <2>3, SeedTyped DEF Typed
<1>4. CASE SchemaFails(i)
  BY <1>1, <1>4, BoundAssumption, ScriptValue DEF SchemaFails, Booting, Typed, tables, calls
<1>5. CASE BootFails(i)
  BY <1>5, ScriptValue DEF BootFails, Typed, tables, calls, bounds
<1>6. CASE BootCut(i)
  <2>1. boot[i] \in 1 .. 8 /\ (Seed(Script[boot[i]]) \/ UNCHANGED tables)
    BY <1>6, ScriptValue DEF BootCut, Booting
  <2>2. /\ users' \subseteq Account /\ sessions' \subseteq Session
        /\ seeded' \subseteq {"schema", "rules", "conversation"}
        /\ copies' \in [1 .. 2 -> Nat]
    BY <2>1, SeedTyped DEF Typed, tables
  <2>3. boot' \in [Instance -> 0 .. 9] /\ faults' \in 0 .. MaxFaults
    BY <1>1, <1>6, BoundAssumption, ScriptValue DEF BootCut, Typed
  <2>4. UNCHANGED <<pc, found, wiped, boots>>
    BY <1>6 DEF BootCut, calls
  <2> QED
    BY <2>2, <2>3, <2>4 DEF Typed
<1>7. CASE DropDemo(i)
  BY <1>7 DEF DropDemo, Typed, calls, bounds
<1>8. CASE Crash(i)
  <2>1. boot' \in [Instance -> 0 .. 9] /\ faults' \in 0 .. MaxFaults
    BY <1>1, <1>8, BoundAssumption, ScriptValue DEF Crash, Typed
  <2>2. pc' \in [Request -> Awaiting \cup {"idle", "ok", "conflict", "denied", "failed",
                                          "lostUser", "lostSession"}]
    BY <1>8 DEF Crash, Typed, Lost
  <2> QED
    BY <1>8, <2>1, <2>2 DEF Crash, Typed, tables
<1> QED
  BY <1>2, <1>3, <1>4, <1>5, <1>6, <1>7, <1>8

\* A call keeps the types.
LEMMA CallTyped ==
    ASSUME Typed, NEW r \in Request, Stage(r), Arrive(r) \/ Work(r) \/ CallFails(r)
    PROVE  Typed'
<1>1. /\ Registered(r) \in Account /\ r \in UserId
      /\ Knows(r) => [req |-> r, user |-> found[r]] \in Session
  BY CallAssumption DEF Registered, Account, Session, UserId, Typed, Knows
<1>2. CASE Arrive(r)
  BY <1>2, GotoTyped DEF Arrive, Typed, tables, bounds
<1>3. CASE Check(r)
  BY <1>3, GotoTyped DEF Check, Typed, tables, bounds
<1>4. CASE InsertUser(r)
  BY <1>1, <1>4, GotoTyped DEF InsertUser, Typed, bounds
<1>5. CASE InsertUserTaken(r)
  BY <1>5, GotoTyped DEF InsertUserTaken, Typed, tables, bounds
<1>6. CASE Find(r)
  <2>1. found' \in [Request -> UserId \cup {Unknown}]
    BY <1>6 DEF Find, Typed, Account
  <2> QED
    BY <1>6, <2>1, GotoTyped DEF Find, Typed, tables, bounds
<1>7. CASE InsertSession(r)
  <2>1. Knows(r)
    BY <1>7 DEF InsertSession, Goto, Stage
  <2> QED
    BY <1>1, <1>7, <2>1, GotoTyped DEF InsertSession, Typed, bounds
<1>8. CASE LateStatement(r)
  <2>1. users' \subseteq Account /\ sessions' \subseteq Session
    BY <1>1, <1>8 DEF LateStatement, Stage, Typed
  <2>2. pc' \in [Request -> Awaiting \cup {"idle", "ok", "conflict", "denied", "failed",
                                          "lostUser", "lostSession"}]
    BY <1>8 DEF LateStatement, Typed
  <2> QED
    BY <1>8, <2>1, <2>2 DEF LateStatement, Typed, bounds
<1>9. CASE CallFails(r)
  <2>1. faults' \in 0 .. MaxFaults
    BY <1>9, BoundAssumption DEF CallFails, Typed
  <2>2. pc' \in [Request -> Awaiting \cup {"idle", "ok", "conflict", "denied", "failed",
                                          "lostUser", "lostSession"}]
    BY <1>9 DEF CallFails, Typed, Lost
  <2> QED
    BY <1>9, <2>1, <2>2 DEF CallFails, Typed, tables
<1> QED
  BY <1>2, <1>3, <1>4, <1>5, <1>6, <1>7, <1>8, <1>9 DEF Work

-----------------------------------------------------------------------------
(* What the stage of a call tells                                          *)

LEMMA CallsInit == Init => Calls
<1> SUFFICES ASSUME Init PROVE Calls
  OBVIOUS
<1>1. UniqueEmail /\ DemoKept
  BY DEF Init, UniqueEmail, DemoKept
<1>2. \A r \in Request : pc[r] = "idle" /\ ~Owns(r)
  BY DEF Init, Owns
<1> QED
  BY <1>1, <1>2 DEF Calls, Stage

\* A row of the seed is no registration.
LEMMA SeedIsNoRegistration ==
    ASSUME NEW r \in Request
    PROVE  Registered(r) \notin {Demo(Alice), Demo(Bob)}
<1>1. Registered(r).id = r /\ Demo(Alice).id = Alice /\ Demo(Bob).id = Bob
  BY DEF Registered, Demo
<1> QED
  BY <1>1, DemoAssumption, FreshIdAssumption

\* Two registrations are two rows.
LEMMA RegistrationIsOwn ==
    ASSUME NEW r, NEW s, Registered(r) = Registered(s)
    PROVE  r = s
<1>1. Registered(r).id = r /\ Registered(s).id = s
  BY DEF Registered
<1> QED
  BY <1>1

\* What a boot does keeps what is known of calls, except for those it ends.
LEMMA BootCalls ==
    ASSUME Typed, Typed', Calls, NEW i \in Instance,
           Start(i) \/ BootStep(i) \/ SchemaFails(i) \/ BootFails(i) \/ BootCut(i)
             \/ DropDemo(i)
    PROVE  Calls'
<1>1. UNCHANGED <<pc, found>>
  BY DEF Start, BootStep, SchemaFails, BootFails, BootCut, DropDemo, calls
<1>2. faults' >= faults
  <2>1. faults \in Nat
    BY BoundAssumption DEF Typed
  <2>2. faults' = faults \/ faults' = faults + 1
    BY DEF Start, BootStep, SchemaFails, BootFails, BootCut, DropDemo, bounds
  <2> QED
    BY <2>1, <2>2
<1>3. CASE UNCHANGED <<users, sessions>>
  <2>1. UniqueEmail' /\ DemoKept'
    BY <1>3 DEF Calls, UniqueEmail, DemoKept
  <2>2. ASSUME NEW r \in Request PROVE Stage(r)'
    BY <1>1, <1>2, <1>3, StageKept DEF Calls
  <2> QED
    BY <2>1, <2>2 DEF Calls
<1>4. CASE BootStep(i) \/ (BootCut(i) /\ ~UNCHANGED tables)
  <2>1. boot[i] \in 1 .. 8 /\ Seed(Script[boot[i]])
    BY <1>4, ScriptValue DEF BootStep, BootCut, Booting
  <2>2. sessions' = sessions
    BY <2>1, SeedTyped
  <2>3. /\ users \subseteq users' /\ UniqueEmail' /\ DemoKept'
        /\ \A u \in users' : u \in users \/ u \in {Demo(Alice), Demo(Bob)}
    BY <2>1, SeedUsers DEF Calls
  <2>4. ASSUME NEW r \in Request PROVE Stage(r)'
    BY <1>1, <1>2, <2>2, <2>3, StageKept, SeedIsNoRegistration DEF Calls
  <2> QED
    BY <2>3, <2>4 DEF Calls
<1> QED
  BY <1>3, <1>4 DEF Start, SchemaFails, BootFails, BootCut, DropDemo, tables

\* A crash loses the answer, and keeps the rows.
LEMMA CrashCalls ==
    ASSUME Typed, Typed', Calls, NEW i \in Instance, Crash(i)
    PROVE  Calls'
<1>1. UNCHANGED <<users, sessions, found>> /\ faults' = faults + 1 /\ faults \in Nat
  BY BoundAssumption DEF Crash, tables, Typed
<1>2. UniqueEmail' /\ DemoKept'
  BY <1>1 DEF Calls, UniqueEmail, DemoKept
<1>3. ASSUME NEW r \in Request PROVE Stage(r)'
  <2>1. CASE pc'[r] = pc[r]
    BY <1>1, <2>1, StageKept DEF Calls
  <2>2. CASE pc'[r] # pc[r]
    <3>1. pc[r] \in Awaiting /\ pc'[r] = Lost(pc[r])
      BY <2>2 DEF Crash, Typed
    <3>2. /\ DemoSeeded' = DemoSeeded /\ Owns(r)' = Owns(r) /\ Knows(r)' = Knows(r)
          /\ faults' > 0 /\ Stage(r)
      BY <1>1 DEF DemoSeeded, Owns, Knows, Calls
    <3> QED
      BY <3>1, <3>2 DEF Stage, Awaiting, Lost
  <2> QED
    BY <2>1, <2>2
<1> QED
  BY <1>2, <1>3 DEF Calls

\* A step of one call leaves what is known of the others, if rows are only
\* added and no registration but its own.
LEMMA OthersKept ==
    ASSUME Typed, Typed', Calls, NEW r \in Request, NEW s \in Request \ {r},
           pc'[s] = pc[s], found'[s] = found[s],
           users' = users \/ users' = users \cup {Registered(r)},
           sessions \subseteq sessions', faults' >= faults
    PROVE  Stage(s)'
<1>1. Registered(s) \in users' => Registered(s) \in users
  BY RegistrationIsOwn
<1> QED
  BY <1>1, StageKept DEF Calls

\* A registration under an unknown email keeps emails unique.
LEMMA NewEmail ==
    ASSUME NEW r \in Request, UniqueEmail, DemoKept, DemoSeeded, ~Taken(r),
           users' = users \cup {Registered(r)}
    PROVE  UniqueEmail' /\ DemoKept'
<1>1. Registered(r).email = Call[r].email
  BY DEF Registered
<1>2. \A u \in users : u.email # Call[r].email
  BY DEF Taken
<1>3. UniqueEmail'
  BY <1>1, <1>2 DEF UniqueEmail
<1>4. Call[r].email \notin {Alice, Bob}
  BY <1>2 DEF DemoSeeded, Demo
<1> QED
  BY <1>1, <1>3, <1>4 DEF DemoKept

\* A step of a call keeps what is known of calls.
LEMMA CallCalls ==
    ASSUME Typed, Typed', Calls, \A i \in Instance : Progress(i),
           NEW r \in Request, Arrive(r) \/ Work(r) \/ CallFails(r)
    PROVE  Calls'
<1>1. /\ Stage(r) /\ UniqueEmail /\ DemoKept /\ r \in DOMAIN pc /\ r \in DOMAIN found
      /\ faults \in Nat
  BY BoundAssumption DEF Calls, Typed
<1>2. At(r) \in Instance
  BY CallAssumption DEF At
<1>3. ASSUME UNCHANGED <<users, faults>>, sessions \subseteq sessions',
             \A s \in Request \ {r} : pc'[s] = pc[s] /\ found'[s] = found[s],
             Stage(r)'
      PROVE  Calls'
  <2>1. UniqueEmail' /\ DemoKept'
    BY <1>1, <1>3 DEF UniqueEmail, DemoKept
  <2> QED
    BY <1>1, <1>3, <2>1, OthersKept DEF Calls
<1>4. UNCHANGED users => /\ DemoSeeded' = DemoSeeded /\ Taken(r)' = Taken(r)
                         /\ Owns(r)' = Owns(r)
  BY DEF DemoSeeded, Taken, Owns
<1>5. CASE Arrive(r)
  <2>1. DemoSeeded
    BY <1>2, <1>5, ScriptValue DEF Arrive, Progress, DemoSeeded
  <2>2. /\ pc' = [pc EXCEPT ![r] = IF IsRegister(r) THEN "check" ELSE "find"]
        /\ pc[r] = "idle" /\ UNCHANGED <<users, sessions, found, faults>>
    BY <1>5 DEF Arrive, Goto, tables, bounds
  <2>3. Stage(r)'
    BY <1>1, <1>4, <2>1, <2>2 DEF Stage
  <2> QED
    BY <1>3, <2>2, <2>3
<1>6. CASE Check(r)
  <2>1. /\ pc' = [pc EXCEPT ![r] = IF Taken(r) THEN "conflict" ELSE "user"]
        /\ pc[r] = "check" /\ UNCHANGED <<users, sessions, found, faults>>
    BY <1>6 DEF Check, Goto, tables, bounds
  <2>2. Stage(r)'
    BY <1>1, <1>4, <2>1 DEF Stage
  <2> QED
    BY <1>3, <2>1, <2>2
<1>7. CASE InsertUser(r)
  <2>1. /\ pc' = [pc EXCEPT ![r] = "session"] /\ found' = [found EXCEPT ![r] = r]
        /\ users' = users \cup {Registered(r)} /\ UNCHANGED <<sessions, faults>>
        /\ pc[r] = "user" /\ ~Taken(r)
    BY <1>7 DEF InsertUser, Goto, bounds
  <2>2. DemoSeeded /\ DemoSeeded'
    BY <1>1, <2>1 DEF Stage, DemoSeeded
  <2>3. Knows(r)'
    <3>1. /\ Registered(r).id = r /\ Registered(r).email = Call[r].email
          /\ Registered(r).password = Call[r].password
      BY DEF Registered
    <3> QED
      BY <1>1, <2>1, <3>1 DEF Knows
  <2>4. Stage(r)'
    BY <1>1, <2>1, <2>2, <2>3 DEF Stage
  <2>5. UniqueEmail' /\ DemoKept'
    BY <1>1, <2>1, <2>2, NewEmail
  <2> QED
    BY <1>1, <2>1, <2>4, <2>5, OthersKept DEF Calls
<1>8. CASE InsertUserTaken(r)
  <2>1. /\ pc' = [pc EXCEPT ![r] = "failed"]
        /\ pc[r] = "user" /\ UNCHANGED <<users, sessions, found, faults>>
    BY <1>8 DEF InsertUserTaken, Goto, tables, bounds
  <2>2. Stage(r)'
    BY <1>1, <1>4, <2>1 DEF Stage
  <2> QED
    BY <1>3, <2>1, <2>2
<1>9. CASE Find(r)
  <2>1. UNCHANGED <<users, sessions, faults>> /\ pc[r] = "find" /\ ~IsRegister(r)
    BY <1>1, <1>9 DEF Find, Goto, tables, bounds, Stage
  <2>2. CASE pc' = [pc EXCEPT ![r] = "denied"] /\ UNCHANGED found
    <3>1. Stage(r)'
      BY <1>1, <1>4, <2>1, <2>2 DEF Stage
    <3> QED
      BY <1>3, <2>1, <2>2, <3>1
  <2>3. CASE \E u \in users :
               /\ u.email = Call[r].email /\ u.password = Call[r].password
               /\ pc' = [pc EXCEPT ![r] = "session"]
               /\ found' = [found EXCEPT ![r] = u.id]
    <3>1. Knows(r)'
      BY <1>1, <2>1, <2>3 DEF Knows
    <3>2. Stage(r)'
      BY <1>1, <1>4, <2>1, <2>3, <3>1 DEF Stage
    <3> QED
      BY <1>3, <2>1, <2>3, <3>2
  <2> QED
    BY <1>9, <2>2, <2>3 DEF Find, Goto
<1>10. CASE InsertSession(r)
  <2>1. /\ pc' = [pc EXCEPT ![r] = "ok"] /\ pc[r] = "session"
        /\ sessions' = sessions \cup {[req |-> r, user |-> found[r]]}
        /\ UNCHANGED <<users, found, faults>>
    BY <1>10 DEF InsertSession, Goto, bounds
  <2>2. Knows(r)'
    BY <1>1, <2>1 DEF Stage, Knows
  <2>3. Stage(r)'
    BY <1>1, <1>4, <2>1, <2>2 DEF Stage
  <2> QED
    BY <1>3, <2>1, <2>3
<1>11. CASE LateStatement(r)
  <2>1. /\ pc' = [pc EXCEPT ![r] = "failed"] /\ pc[r] \in {"lostUser", "lostSession"}
        /\ UNCHANGED <<found, faults>> /\ sessions \subseteq sessions'
        /\ users' = users \/ (~Taken(r) /\ users' = users \cup {Registered(r)})
    BY <1>11 DEF LateStatement, bounds
  <2>2. DemoSeeded /\ DemoSeeded' /\ faults > 0
    BY <1>1, <2>1 DEF Stage, DemoSeeded
  <2>3. Stage(r)'
    BY <1>1, <2>1, <2>2 DEF Stage
  <2>4. UniqueEmail' /\ DemoKept'
    BY <1>1, <2>1, <2>2, NewEmail DEF UniqueEmail, DemoKept
  <2> QED
    BY <1>1, <2>1, <2>3, <2>4, OthersKept DEF Calls
<1>12. CASE CallFails(r)
  <2>1. /\ pc' = [pc EXCEPT ![r] = Lost(pc[r])] /\ pc[r] \in Awaiting
        /\ faults' = faults + 1 /\ UNCHANGED <<users, sessions, found>>
    BY <1>12 DEF CallFails, tables
  <2>2. Knows(r)' = Knows(r) /\ faults' > 0
    BY <1>1, <2>1 DEF Knows
  <2>3. Stage(r)'
    BY <1>1, <1>4, <2>1, <2>2 DEF Stage, Lost, Awaiting
  <2>4. UniqueEmail' /\ DemoKept'
    BY <1>1, <2>1 DEF UniqueEmail, DemoKept
  <2> QED
    BY <1>1, <2>1, <2>3, <2>4, OthersKept DEF Calls
<1> QED
  BY <1>5, <1>6, <1>7, <1>8, <1>9, <1>10, <1>11, <1>12 DEF Work

-----------------------------------------------------------------------------
(* What the progress of a boot tells                                       *)

\* Sets of instances are finite, and can be counted.
LEMMA Count ==
    ASSUME NEW S \in SUBSET Instance, NEW i \in Instance
    PROVE  /\ Cardinality(S) \in Nat
           /\ i \notin S => Cardinality(S \cup {i}) = Cardinality(S) + 1
           /\ i \in S => Cardinality(S \ {i}) = Cardinality(S) - 1
           /\ i \notin S => S \ {i} = S
<1>1. IsFiniteSet(S)
  BY InstanceAssumption, FS_Subset
<1> QED
  BY <1>1, FS_CardinalityType, FS_AddElement, FS_RemoveElement

LEMMA BootsInit == Init => Boots
<1> SUFFICES ASSUME Init PROVE Boots
  OBVIOUS
<1>1. \A i \in Instance : boot[i] = 0
  BY ScriptValue DEF Init
<1>2. \A n \in 1 .. 2 : Ahead(n) = {} /\ copies[n] = 0 /\ boots = 0
  BY <1>1 DEF Init, Ahead, Place
<1>3. Cardinality({}) = 0
  BY FS_EmptySet
<1> QED
  BY <1>1, <1>2, <1>3 DEF Boots, Progress, OncePerBoot, Place

\* What the statements of the script leave, besides users.
LEMMA SeedRows ==
    ASSUME Typed, NEW k \in 1 .. 8, Seed(Script[k])
    PROVE  /\ k > 2 => "schema" \in seeded
           /\ k = 5 => "rules" \in seeded'
           /\ k = 6 => "conversation" \in seeded'
           /\ k > 6 => "conversation" \in seeded
           /\ \A n \in 1 .. 2 :
                copies'[n] = IF k = Place(n) THEN copies[n] + 1 ELSE copies[n]
<1>1. k > 2 => "schema" \in seeded
  BY ScriptValue DEF Seed
<1>2. CASE k \in {1, 2, 5, 6}
  <2>1. copies' = copies /\ seeded' = seeded \cup {Script[k]}
    BY <1>2, ScriptValue DEF Seed
  <2> QED
    BY <1>1, <1>2, <2>1, ScriptValue DEF Place
<1>3. CASE k \in {3, 4}
  <2>1. copies' = copies
    BY <1>3, ScriptValue DEF Seed
  <2> QED
    BY <1>1, <1>3, <2>1 DEF Place
<1>4. CASE k \in {7, 8}
  <2>1. SeedMessage(k - 6)
    BY <1>4, ScriptValue DEF Seed
  <2>2. /\ "conversation" \in seeded /\ k - 6 \in 1 .. 2
        /\ copies' = [copies EXCEPT ![k - 6] = copies[k - 6] + 1]
    BY <1>4, <2>1 DEF SeedMessage
  <2>3. \A n \in 1 .. 2 : k = Place(n) <=> n = k - 6
    BY <1>4 DEF Place
  <2> QED
    BY <1>1, <1>4, <2>2, <2>3 DEF Typed
<1> QED
  BY <1>2, <1>3, <1>4

\* A boot that does not move keeps what its progress tells, as long as rows
\* are only added.
LEMMA ProgressKept ==
    ASSUME NEW i \in Instance, Progress(i), boot'[i] = boot[i],
           Typed, Typed', i \in wiped => i \in wiped',
           users \subseteq users', seeded \subseteq seeded',
           \A n \in 1 .. 2 : copies'[n] >= copies[n]
    PROVE  Progress(i)'
<1>1. \A n \in 1 .. 2 : copies[n] \in Nat /\ copies'[n] \in Nat
  BY DEF Typed
<1> QED
  BY <1>1 DEF Progress, Place

\* What calls do leaves the progress of boots.
LEMMA CallBoots ==
    ASSUME Typed, Typed', Boots,
           NEW r \in Request, Arrive(r) \/ Work(r) \/ CallFails(r)
    PROVE  Boots'
<1>1. UNCHANGED <<boot, seeded, copies, wiped, boots>>
  BY DEF Arrive, Work, Check, InsertUser, InsertUserTaken, Find, InsertSession,
         LateStatement, CallFails, tables, bounds
<1>2. users \subseteq users'
  BY DEF Arrive, Work, Check, InsertUser, InsertUserTaken, Find, InsertSession,
         LateStatement, CallFails, tables
<1>3. ASSUME NEW n \in 1 .. 2 PROVE Ahead(n)' = Ahead(n) /\ copies[n] \in Nat
  BY <1>1 DEF Ahead, Typed
<1>4. OncePerBoot'
  BY <1>1, <1>3 DEF Boots, OncePerBoot
<1>5. ASSUME NEW i \in Instance PROVE Progress(i)'
  BY <1>1, <1>2, <1>3, ProgressKept DEF Boots
<1> QED
  BY <1>4, <1>5 DEF Boots

\* A boot that goes on from where it is, or ends, has no more ahead of it.
LEMMA AheadShrinks ==
    ASSUME Typed, Typed', NEW i \in Instance, boot[i] > 0,
           boot' = [boot EXCEPT ![i] = boot[i] + 1] \/ boot' = [boot EXCEPT ![i] = 0],
           NEW n \in 1 .. 2
    PROVE  /\ Cardinality(Ahead(n)) \in Nat /\ Cardinality(Ahead(n)') \in Nat
           /\ Cardinality(Ahead(n)') <= Cardinality(Ahead(n))
           /\ boot[i] = Place(n) => Cardinality(Ahead(n)') = Cardinality(Ahead(n)) - 1
<1>1. boot \in [Instance -> 0 .. 9]
  BY DEF Typed
<1>2. Ahead(n) \in SUBSET Instance /\ (i \in Ahead(n) <=> boot[i] <= Place(n))
  BY <1>1 DEF Ahead, Place
<1>3. Ahead(n)' = Ahead(n) \/ Ahead(n)' = Ahead(n) \ {i}
  BY <1>1 DEF Ahead, Place
<1>4. boot[i] = Place(n) => i \in Ahead(n) /\ Ahead(n)' = Ahead(n) \ {i}
  BY <1>1 DEF Ahead, Place
<1>5. /\ Cardinality(Ahead(n)) \in Nat
      /\ Cardinality(Ahead(n) \ {i}) \in {Cardinality(Ahead(n)), Cardinality(Ahead(n)) - 1}
      /\ Cardinality(Ahead(n) \ {i}) \in Nat
      /\ i \in Ahead(n) => Cardinality(Ahead(n) \ {i}) = Cardinality(Ahead(n)) - 1
  <2>1. Ahead(n) \in SUBSET Instance /\ Ahead(n) \ {i} \in SUBSET Instance
    BY <1>2
  <2> QED
    BY <2>1, Count
<1>6. CASE Ahead(n)' = Ahead(n)
  <2>1. Cardinality(Ahead(n)') = Cardinality(Ahead(n)) /\ boot[i] # Place(n)
    BY <1>4, <1>6
  <2> QED
    BY <1>5, <2>1
<1>7. CASE Ahead(n)' = Ahead(n) \ {i}
  <2>1. Cardinality(Ahead(n)') = Cardinality(Ahead(n) \ {i})
    BY <1>7
  <2> QED
    BY <1>4, <1>5, <2>1
<1> QED
  BY <1>3, <1>6, <1>7

\* A start has both messages ahead of it, once.
LEMMA StartBoots ==
    ASSUME Typed, Typed', Boots, NEW i \in Instance, Start(i)
    PROVE  Boots'
<1>1. /\ boot[i] = 0 /\ boot' = [boot EXCEPT ![i] = 1] /\ boot \in [Instance -> 0 .. 9]
      /\ boots' = boots + 1 /\ boots \in Nat /\ wiped' = wiped \ {i}
      /\ UNCHANGED <<users, seeded, copies>>
  BY BoundAssumption, ScriptValue DEF Start, Typed, tables
<1>2. ASSUME NEW n \in 1 .. 2
      PROVE  (copies[n] + Cardinality(Ahead(n)) <= boots)'
  <2>1. Ahead(n) \in SUBSET Instance /\ i \notin Ahead(n) /\ Ahead(n)' = Ahead(n) \cup {i}
    BY <1>1 DEF Ahead, Place
  <2>2. Cardinality(Ahead(n)') = Cardinality(Ahead(n)) + 1 /\ Cardinality(Ahead(n)) \in Nat
    BY <2>1, Count
  <2>3. copies[n] \in Nat /\ copies[n] + Cardinality(Ahead(n)) <= boots
    BY DEF Typed, Boots, OncePerBoot
  <2> QED
    BY <1>1, <2>2, <2>3
<1>3. Progress(i)'
  BY <1>1 DEF Progress, Place
<1>4. ASSUME NEW j \in Instance \ {i} PROVE Progress(j)'
  BY <1>1, <1>4, ProgressKept DEF Boots, Typed
<1> QED
  BY <1>2, <1>3, <1>4 DEF Boots, OncePerBoot

\* A statement of the script is what the next place in it tells of.
LEMMA BootStepBoots ==
    ASSUME Typed, Typed', UniqueEmail, DemoKept, Boots, NEW i \in Instance,
           boot[i] \in 1 .. 8, Seed(Script[boot[i]]), wiped' = wiped, boots' = boots,
           boot' = [boot EXCEPT ![i] = boot[i] + 1] \/ boot' = [boot EXCEPT ![i] = 0]
    PROVE  Boots'
<1>1. /\ users \subseteq users'
      /\ boot[i] = 3 => Demo(Alice) \in users'
      /\ boot[i] = 4 => Demo(Bob) \in users'
  BY SeedUsers
<1>2. seeded \subseteq seeded'
  BY SeedTyped
<1>3. /\ boot[i] > 2 => "schema" \in seeded
      /\ boot[i] = 5 => "rules" \in seeded'
      /\ boot[i] = 6 => "conversation" \in seeded'
      /\ \A n \in 1 .. 2 :
           copies'[n] = IF boot[i] = Place(n) THEN copies[n] + 1 ELSE copies[n]
  BY SeedRows
<1>4. \A n \in 1 .. 2 : copies[n] \in Nat /\ boots \in Nat
  BY BoundAssumption DEF Typed
<1>5. ASSUME NEW n \in 1 .. 2
      PROVE  (copies[n] + Cardinality(Ahead(n)) <= boots)'
  <2>1. /\ Cardinality(Ahead(n)) \in Nat /\ Cardinality(Ahead(n)') \in Nat
        /\ Cardinality(Ahead(n)') <= Cardinality(Ahead(n))
        /\ boot[i] = Place(n) => Cardinality(Ahead(n)') = Cardinality(Ahead(n)) - 1
    BY AheadShrinks
  <2>2. copies[n] + Cardinality(Ahead(n)) <= boots
    BY DEF Boots, OncePerBoot
  <2> QED
    BY <1>3, <1>4, <2>1, <2>2
<1>6. Progress(i)'
  <2>1. CASE boot'[i] = 0
    BY <2>1 DEF Progress, Place
  <2>2. CASE boot'[i] = boot[i] + 1
    <3>1. Progress(i)
      BY DEF Boots
    <3>2. ASSUME NEW n \in 1 .. 2, boot'[i] > Place(n), i \notin wiped
          PROVE  copies'[n] > 0
      <4>1. boot[i] > Place(n) \/ boot[i] = Place(n)
        BY <2>2, <3>2 DEF Place
      <4> QED
        BY <1>3, <1>4, <3>1, <3>2, <4>1 DEF Progress, Place
    <3> QED
      BY <1>1, <1>2, <1>3, <2>2, <3>1, <3>2 DEF Progress
  <2> QED
    BY <2>1, <2>2 DEF Typed
<1>7. ASSUME NEW j \in Instance \ {i} PROVE Progress(j)'
  <2>1. boot'[j] = boot[j] /\ \A n \in 1 .. 2 : copies'[n] >= copies[n]
    BY <1>3, <1>4, <1>7 DEF Typed
  <2> QED
    BY <1>1, <1>2, <2>1, ProgressKept DEF Boots
<1> QED
  BY <1>5, <1>6, <1>7 DEF Boots, OncePerBoot

\* A boot or a server that ends, or goes on without its schema, leaves the
\* rows as they are.
LEMMA EndBoots ==
    ASSUME Typed, Typed', Boots, NEW i \in Instance,
           boot[i] > 0, UNCHANGED <<users, seeded, copies, wiped, boots>>,
           \/ boot' = [boot EXCEPT ![i] = boot[i] + 1] /\ boot[i] \in 1 .. 2
           \/ boot' = [boot EXCEPT ![i] = 0]
    PROVE  Boots'
<1>1. \A n \in 1 .. 2 : copies[n] \in Nat /\ boots \in Nat
  BY BoundAssumption DEF Typed
<1>2. ASSUME NEW n \in 1 .. 2
      PROVE  (copies[n] + Cardinality(Ahead(n)) <= boots)'
  <2>1. /\ Cardinality(Ahead(n)) \in Nat /\ Cardinality(Ahead(n)') \in Nat
        /\ Cardinality(Ahead(n)') <= Cardinality(Ahead(n))
    BY AheadShrinks
  <2>2. copies[n] + Cardinality(Ahead(n)) <= boots
    BY DEF Boots, OncePerBoot
  <2> QED
    BY <1>1, <2>1, <2>2
<1>3. Progress(i)'
  <2>1. boot'[i] \in {0, 2, 3}
    BY DEF Typed
  <2> QED
    BY <2>1 DEF Progress, Place
<1>4. ASSUME NEW j \in Instance \ {i} PROVE Progress(j)'
  <2>1. boot'[j] = boot[j] /\ \A n \in 1 .. 2 : copies'[n] >= copies[n]
    BY <1>1, <1>4 DEF Typed
  <2> QED
    BY <1>4, <2>1, ProgressKept DEF Boots
<1> QED
  BY <1>2, <1>3, <1>4 DEF Boots, OncePerBoot

\* After a delete nobody counts on the conversation who has not started since.
LEMMA DropBoots ==
    ASSUME Typed, Typed', Boots, NEW i \in Instance, DropDemo(i)
    PROVE  Boots'
<1>1. /\ seeded' = seeded \ {"conversation"} /\ copies' = [n \in 1 .. 2 |-> 0]
      /\ wiped' = Instance /\ UNCHANGED <<users, boot, boots>>
  BY DEF DropDemo, bounds
<1>2. ASSUME NEW n \in 1 .. 2
      PROVE  (copies[n] + Cardinality(Ahead(n)) <= boots)'
  <2>1. Ahead(n)' = Ahead(n) /\ Ahead(n) \in SUBSET Instance
    BY <1>1 DEF Ahead
  <2>2. Cardinality(Ahead(n)) \in Nat
    BY <2>1, Count
  <2>3. copies[n] \in Nat /\ boots \in Nat
    BY BoundAssumption DEF Typed
  <2>4. copies[n] + Cardinality(Ahead(n)) <= boots
    BY DEF Boots, OncePerBoot
  <2> QED
    BY <1>1, <2>1, <2>2, <2>3, <2>4
<1>3. ASSUME NEW j \in Instance PROVE Progress(j)'
  BY <1>1 DEF Progress, Boots
<1> QED
  BY <1>2, <1>3 DEF Boots, OncePerBoot

\* What a boot does, and how it ends, keeps what is known of boots.
LEMMA BootBoots ==
    ASSUME Typed, Typed', UniqueEmail, DemoKept, Boots, NEW i \in Instance,
           Start(i) \/ BootStep(i) \/ SchemaFails(i) \/ BootFails(i) \/ BootCut(i)
             \/ DropDemo(i) \/ Crash(i)
    PROVE  Boots'
<1>1. CASE BootStep(i)
  BY <1>1, BootStepBoots, ScriptValue DEF BootStep, Booting, bounds
<1>2. CASE SchemaFails(i)
  <2>1. boot[i] \in 1 .. 8 /\ Script[boot[i]] = "schema"
    BY <1>2, ScriptValue DEF SchemaFails, Booting
  <2>2. boot[i] \in 1 .. 2
    BY <2>1, ScriptValue
  <2>3. /\ boot' = [boot EXCEPT ![i] = boot[i] + 1] /\ boot[i] > 0
        /\ UNCHANGED <<users, seeded, copies, wiped, boots>>
    BY <1>2, <2>2 DEF SchemaFails, tables
  <2> QED
    BY <2>2, <2>3, EndBoots
<1>3. CASE BootFails(i)
  <2>1. boot[i] \in 1 .. 8
    BY <1>3, ScriptValue DEF BootFails, Booting
  <2>2. /\ boot' = [boot EXCEPT ![i] = 0] /\ boot[i] > 0
        /\ UNCHANGED <<users, seeded, copies, wiped, boots>>
    BY <1>3, <2>1, ScriptValue DEF BootFails, tables, bounds
  <2> QED
    BY <2>2, EndBoots
<1>4. CASE BootCut(i)
  <2>1. /\ boot[i] \in 1 .. 8 /\ boot' = [boot EXCEPT ![i] = 0]
        /\ UNCHANGED <<wiped, boots>>
    BY <1>4, ScriptValue DEF BootCut, Booting
  <2>2. CASE Seed(Script[boot[i]])
    BY <2>1, <2>2, BootStepBoots
  <2>3. CASE UNCHANGED tables
    <3>1. UNCHANGED <<users, seeded, copies, wiped, boots>> /\ boot[i] > 0
      BY <2>1, <2>3 DEF tables
    <3> QED
      BY <2>1, <3>1, EndBoots
  <2> QED
    BY <1>4, <2>2, <2>3 DEF BootCut
<1>5. CASE Crash(i)
  <2>1. /\ boot' = [boot EXCEPT ![i] = 0] /\ boot[i] > 0
        /\ UNCHANGED <<users, seeded, copies, wiped, boots>>
    BY <1>5, ScriptValue DEF Crash, tables
  <2> QED
    BY <2>1, EndBoots
<1> QED
  BY <1>1, <1>2, <1>3, <1>4, <1>5, StartBoots, DropBoots

-----------------------------------------------------------------------------
(* The theorems                                                            *)

\* The three parts are kept together.
LEMMA InductiveStep == Inductive /\ [Next]_vars => Inductive'
<1> SUFFICES ASSUME Inductive, [Next]_vars PROVE Inductive'
  OBVIOUS
<1> USE DEF Inductive
<1>1. ASSUME NEW r \in Request, Arrive(r) \/ Work(r) \/ CallFails(r) PROVE Inductive'
  <2>1. Typed'
    BY <1>1, CallTyped DEF Calls
  <2> QED
    BY <1>1, <2>1, CallCalls, CallBoots DEF Boots
<1>2. ASSUME NEW i \in Instance,
             Start(i) \/ BootStep(i) \/ SchemaFails(i) \/ BootFails(i) \/ BootCut(i)
               \/ DropDemo(i) \/ Crash(i)
      PROVE  Inductive'
  <2>1. Typed'
    BY <1>2, BootTyped
  <2>2. Calls'
    BY <1>2, <2>1, BootCalls, CrashCalls
  <2>3. Boots'
    BY <1>2, <2>1, BootBoots DEF Calls
  <2> QED
    BY <2>1, <2>2, <2>3
<1>3. CASE UNCHANGED vars
  <2>1. UNCHANGED <<users, sessions, seeded, copies, boot, pc, found, wiped, boots, faults>>
    BY <1>3 DEF vars, tables, calls, bounds
  <2>2. Typed'
    BY <2>1 DEF Typed
  <2>3. Calls'
    BY <2>1 DEF Calls, UniqueEmail, DemoKept, Stage, DemoSeeded, Owns, Knows, Taken
  <2>4. Boots'
    BY <2>1 DEF Boots, Progress, OncePerBoot, Ahead
  <2> QED
    BY <2>2, <2>3, <2>4
<1> QED
  BY <1>1, <1>2, <1>3 DEF Next

LEMMA InductiveInvariant == Spec => []Inductive
<1>1. Init => Inductive
  BY TypedInit, CallsInit, BootsInit DEF Inductive
<1> QED
  BY <1>1, InductiveStep, PTL DEF Spec

\* A message is there at most once for each boot.
LEMMA CopiesBounded ==
    ASSUME Inductive, NEW n \in 1 .. 2
    PROVE  copies[n] <= boots /\ boots \in Nat
<1>1. copies[n] + Cardinality(Ahead(n)) <= boots
  BY DEF Inductive, Boots, OncePerBoot
<1>2. copies[n] \in Nat /\ boots \in Nat
  BY BoundAssumption DEF Inductive, Typed
<1>3. IsFiniteSet(Ahead(n))
  <2>1. Ahead(n) \in SUBSET Instance
    BY DEF Ahead
  <2> QED
    BY <2>1, InstanceAssumption, FS_Subset
<1>4. Cardinality(Ahead(n)) \in Nat
  BY <1>3, FS_CardinalityType
<1> QED
  BY <1>1, <1>2, <1>4

\* Every variable has its type in every behaviour; in particular no boot adds
\* a message of the demo conversation twice (seedDatabase).
THEOREM AccountsTypeCorrect == Spec => []TypeOK
<1>1. Inductive => TypeOK
  <2> SUFFICES ASSUME Inductive PROVE TypeOK
    OBVIOUS
  <2>1. Typed
    BY DEF Inductive
  <2>2. ASSUME NEW n \in 1 .. 2 PROVE copies[n] \in 0 .. boots
    BY <2>1, CopiesBounded DEF Typed
  <2>3. copies \in [1 .. 2 -> 0 .. boots]
    BY <2>1, <2>2 DEF Typed
  <2> QED
    BY <2>1, <2>3, ScriptValue DEF Typed, TypeOK
<1> QED
  BY <1>1, InductiveInvariant, PTL

\* Answers are true although registerUser is three statements and no
\* transaction: the row that a call knows of is there and alone, and a
\* registration that lost a race has left none (registerUser, loginUser).
THEOREM AnswersTrue == Spec => []AnswersAreTrue
<1>1. Inductive => AnswersAreTrue
  <2> SUFFICES ASSUME Inductive, NEW r \in Request
               PROVE  /\ pc[r] = "ok" => \E u \in users :
                           /\ u.email = Call[r].email /\ u.password = Call[r].password
                           /\ IsRegister(r) => u.id = r
                           /\ [req |-> r, user |-> u.id] \in sessions
                           /\ \A v \in users : v.email = u.email => v = u
                      /\ pc[r] = "conflict" => ~Owns(r) /\ Taken(r)
                      /\ IsRegister(r) /\ pc[r] = "failed" /\ Owns(r) => faults > 0
    BY DEF AnswersAreTrue
  <2>1. Stage(r) /\ UniqueEmail
    BY DEF Inductive, Calls
  <2>2. ASSUME pc[r] = "ok"
        PROVE  \E u \in users :
                 /\ u.email = Call[r].email /\ u.password = Call[r].password
                 /\ IsRegister(r) => u.id = r
                 /\ [req |-> r, user |-> u.id] \in sessions
                 /\ \A v \in users : v.email = u.email => v = u
    <3>1. PICK u \in users :
            /\ u.id = found[r]
            /\ u.email = Call[r].email /\ u.password = Call[r].password
            /\ IsRegister(r) => u.id = r
      BY <2>1, <2>2 DEF Stage, Knows
    <3>2. [req |-> r, user |-> u.id] \in sessions
      BY <2>1, <2>2, <3>1 DEF Stage
    <3>3. \A v \in users : v.email = u.email => v = u
      BY <2>1 DEF UniqueEmail
    <3> QED
      BY <3>1, <3>2, <3>3
  <2>3. /\ pc[r] = "conflict" => ~Owns(r) /\ Taken(r)
        /\ IsRegister(r) /\ pc[r] = "failed" /\ Owns(r) => faults > 0
    BY <2>1 DEF Stage
  <2> QED
    BY <2>2, <2>3
<1> QED
  BY <1>1, InductiveInvariant, PTL

\* Who serves is seeded, whatever other instances boot, fail or crash: a boot
\* has passed all its statements, and nobody takes back what it left except by
\* a delete (bootstrap, initDatabase, seedDatabase).
THEOREM ServingSeeded == Spec => []ServingIsSeeded
<1>1. Inductive => ServingIsSeeded
  <2> SUFFICES ASSUME Inductive, NEW i \in Instance, boot[i] = Up
               PROVE  /\ {"schema", "rules"} \subseteq seeded
                      /\ Demo(Alice) \in users /\ Demo(Bob) \in users
                      /\ i \notin wiped =>
                           "conversation" \in seeded /\ \A n \in 1 .. 2 : copies[n] \in 1 .. boots
    BY DEF ServingIsSeeded, Demo
  <2>1. Progress(i) /\ boot[i] = 9
    BY ScriptValue DEF Inductive, Boots
  <2>2. ASSUME NEW n \in 1 .. 2, i \notin wiped PROVE copies[n] \in 1 .. boots
    <3>1. copies[n] > 0 /\ copies[n] \in Nat
      BY <2>1, <2>2 DEF Progress, Place, Inductive, Typed
    <3>2. copies[n] <= boots /\ boots \in Nat
      BY CopiesBounded
    <3> QED
      BY <3>1, <3>2
  <2> QED
    BY <2>1, <2>2 DEF Progress
<1> QED
  BY <1>1, InductiveInvariant, PTL
===============================================================================
