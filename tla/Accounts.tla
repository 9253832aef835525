------------------------------- MODULE Accounts -------------------------------
(***************************************************************************)
(* Accounts, and the boot that a server goes through before it serves:     *)
(* registerUser and loginUser of src/services/authService.js, bootstrap of *)
(* src/server.js with initDatabase and seedDatabase.                       *)
(*                                                                         *)
(* Nothing here is a transaction: registration is a SELECT, an INSERT of   *)
(* the user and an INSERT of the session, a boot is a script of            *)
(* statements.  Instances boot, serve and crash beside each other, on one  *)
(* database.                                                               *)
(***************************************************************************)
EXTENDS Naturals, FiniteSets, Sequences

CONSTANTS
    Request,        \* calls of /register and /login, each made at most once
    Instance,       \* Node processes that share the database
    Email, Password,
    Alice, Bob,     \* emails of the demo users; the seed fixes their ids
    DemoPassword,
    Call,           \* Call[r]: what request r asks for, and of which instance
    Unknown,        \* no user
    MaxBoots,       \* bound on starts of instances
    MaxFaults       \* bound on failing statements and crashes

ASSUME DemoAssumption ==
    {Alice, Bob} \subseteq Email /\ Alice # Bob /\ DemoPassword \in Password
ASSUME CallAssumption ==
    Call \in [Request -> [kind : {"register", "login"}, at : Instance,
                          email : Email, password : Password]]
ASSUME FreshIdAssumption == Request \cap Email = {} /\ Unknown \notin Request \cup Email
ASSUME InstanceAssumption == IsFiniteSet(Instance)
ASSUME BoundAssumption == MaxBoots \in Nat /\ MaxFaults \in Nat

\* User ids: the uuid that a registration draws stands as the request.
UserId == Request \cup {Alice, Bob}
Account == [id : UserId, email : Email, password : Password]
Session == [req : Request, user : UserId]

At(r) == Call[r].at
IsRegister(r) == Call[r].kind = "register"

\* A slip: messages before the conversation that they belong to.
ScriptReordered ==
    <<"schema", "schema", "alice", "bob", "rules", "first", "second", "conversation">>

\* What bootstrap awaits before it listens, in order; initDatabase is called
\* once more by seedDatabase.  Statements that may come in any order are one.
Script ==
    <<"schema", "schema", "alice", "bob", "rules", "conversation", "first", "second">>
Down == 0
Up == Len(Script) + 1

VARIABLES
    users, sessions,    \* rows of the tables
    seeded,             \* schema, rules and demo conversation that exist
    copies,             \* how often messages 1 and 2 of that conversation exist
    boot,               \* the statement of Script that each instance awaits
    pc,                 \* what each request awaits, or how it ended
    found,              \* the user that a call has created or found
    wiped,              \* instances that started before the last delete
    boots, faults       \* counters

tables == <<users, sessions, seeded, copies>>
calls == <<pc, found>>
bounds == <<boots, faults>>
vars == <<tables, boot, calls, wiped, bounds>>

Init ==
    /\ users = {} /\ sessions = {} /\ seeded = {}
    /\ copies = [n \in 1 .. 2 |-> 0]
    /\ boot = [i \in Instance |-> Down]
    /\ pc = [r \in Request |-> "idle"]
    /\ found = [r \in Request |-> Unknown]
    /\ wiped = {} /\ boots = 0 /\ faults = 0

-----------------------------------------------------------------------------
(* Boot                                                                    *)

\* ON CONFLICT (email) DO UPDATE touches updated_at only.
SeedUser(email) ==
    users' = IF \E u \in users : u.email = email THEN users
             ELSE users \cup {[id |-> email, email |-> email, password |-> DemoPassword]}

\* The id is a fresh uuid, so that ON CONFLICT (id) never applies.
SeedMessage(n) ==
    /\ "conversation" \in seeded
    /\ copies' = [copies EXCEPT ![n] = @ + 1]

\* Whether and how a statement of the script takes effect.
Seed(s) ==
    /\ s = "schema" \/ "schema" \in seeded
    /\ \/ s = "alice" /\ SeedUser(Alice) /\ UNCHANGED <<seeded, copies>>
       \/ s = "bob" /\ SeedUser(Bob) /\ UNCHANGED <<seeded, copies>>
       \/ s = "first" /\ SeedMessage(1) /\ UNCHANGED <<users, seeded>>
       \/ s = "second" /\ SeedMessage(2) /\ UNCHANGED <<users, seeded>>
       \/ /\ s \in {"schema", "rules", "conversation"}
          /\ seeded' = seeded \cup {s}
          /\ UNCHANGED <<users, copies>>
    /\ UNCHANGED sessions

\* Whether it can: its table and the conversation it refers to exist.
Possible(s) ==
    /\ s = "schema" \/ "schema" \in seeded
    /\ s \in {"first", "second"} => "conversation" \in seeded

Booting(i) == boot[i] \in 1 .. Len(Script)

Start(i) ==
    /\ boot[i] = Down /\ boots < MaxBoots
    /\ boot' = [boot EXCEPT ![i] = 1]
    /\ wiped' = wiped \ {i}
    /\ boots' = boots + 1
    /\ UNCHANGED <<tables, calls, faults>>

\* A slip: seedDatabase is called and not awaited.
BootStepUnawaited(i) ==
    /\ Booting(i)
    /\ Seed(Script[boot[i]])
    /\ boot' = [boot EXCEPT ![i] = Up]
    /\ UNCHANGED <<calls, wiped, bounds>>

\* The next statement; after the last, app.listen.
BootStep(i) ==
    /\ Booting(i)
    /\ Seed(Script[boot[i]])
    /\ boot' = [boot EXCEPT ![i] = @ + 1]
    /\ UNCHANGED <<calls, wiped, bounds>>

\* initDatabase only warns when a statement of the schema fails.
SchemaFails(i) ==
    /\ faults < MaxFaults
    /\ Booting(i) /\ Script[boot[i]] = "schema"
    /\ boot' = [boot EXCEPT ![i] = @ + 1]
    /\ faults' = faults + 1
    /\ UNCHANGED <<tables, calls, wiped, boots>>

\* Any other failure: logger.fatal and process.exit(1).
BootFails(i) ==
    /\ Booting(i) /\ ~Possible(Script[boot[i]])
    /\ boot' = [boot EXCEPT ![i] = Down]
    /\ UNCHANGED <<tables, calls, wiped, bounds>>

\* A slip: a broken statement is made again.
BootCutRetries(i) ==
    /\ faults < MaxFaults
    /\ Booting(i)
    /\ Seed(Script[boot[i]]) \/ UNCHANGED tables
    /\ faults' = faults + 1
    /\ UNCHANGED <<boot, calls, wiped, boots>>

\* The connection or the process breaks; the statement was executed or not.
BootCut(i) ==
    /\ faults < MaxFaults
    /\ Booting(i)
    /\ Seed(Script[boot[i]]) \/ UNCHANGED tables
    /\ boot' = [boot EXCEPT ![i] = Down]
    /\ faults' = faults + 1
    /\ UNCHANGED <<calls, wiped, boots>>

\* Alice deletes the demo conversation; its messages go with it.
DropDemo(i) ==
    /\ boot[i] = Up /\ "conversation" \in seeded
    /\ seeded' = seeded \ {"conversation"}
    /\ copies' = [n \in 1 .. 2 |-> 0]
    /\ wiped' = Instance
    /\ UNCHANGED <<users, sessions, boot, calls, bounds>>

-----------------------------------------------------------------------------
(* registerUser and loginUser                                              *)

Goto(r, from, to) == pc[r] = from /\ pc' = [pc EXCEPT ![r] = to]
Taken(r) == \E u \in users : u.email = Call[r].email
Registered(r) == [id |-> r, email |-> Call[r].email, password |-> Call[r].password]

Arrive(r) ==
    /\ boot[At(r)] = Up
    /\ Goto(r, "idle", IF IsRegister(r) THEN "check" ELSE "find")
    /\ UNCHANGED <<tables, boot, found, wiped, bounds>>

\* 409 when the email is known.
Check(r) ==
    /\ Goto(r, "check", IF Taken(r) THEN "conflict" ELSE "user")
    /\ UNCHANGED <<tables, boot, found, wiped, bounds>>

\* A slip: ON CONFLICT DO NOTHING.
InsertUserOrNothing(r) ==
    /\ Goto(r, "user", "session")
    /\ users' = IF Taken(r) THEN users ELSE users \cup {Registered(r)}
    /\ found' = [found EXCEPT ![r] = r]
    /\ UNCHANGED <<sessions, seeded, copies, boot, wiped, bounds>>

\* After bcrypt.hash: UNIQUE (email) decides who is first.
InsertUser(r) ==
    /\ ~Taken(r)
    /\ Goto(r, "user", "session")
    /\ users' = users \cup {Registered(r)}
    /\ found' = [found EXCEPT ![r] = r]
    /\ UNCHANGED <<sessions, seeded, copies, boot, wiped, bounds>>

\* A slip: the error is caught by nobody, and the request hangs.
InsertUserTakenUnhandled(r) ==
    /\ Taken(r)
    /\ Goto(r, "user", "user")
    /\ UNCHANGED <<tables, boot, found, wiped, bounds>>

\* The other gets an error without a status: 500.
InsertUserTaken(r) ==
    /\ Taken(r)
    /\ Goto(r, "user", "failed")
    /\ UNCHANGED <<tables, boot, found, wiped, bounds>>

\* 401 for an unknown email and for a wrong password.
Find(r) ==
    /\ \/ \E u \in users :
            /\ u.email = Call[r].email /\ u.password = Call[r].password
            /\ Goto(r, "find", "session")
            /\ found' = [found EXCEPT ![r] = u.id]
       \/ /\ \A u \in users : u.email = Call[r].email => u.password # Call[r].password
          /\ Goto(r, "find", "denied")
          /\ UNCHANGED found
    /\ UNCHANGED <<tables, boot, wiped, bounds>>

InsertSession(r) ==
    /\ Goto(r, "session", "ok")
    /\ sessions' = sessions \cup {[req |-> r, user |-> found[r]]}
    /\ UNCHANGED <<users, seeded, copies, boot, found, wiped, bounds>>

Awaiting == {"check", "user", "session", "find"}

\* The connection breaks: 500; the server may have a statement to finish.
Lost(stage) ==
    IF stage = "user" THEN "lostUser"
    ELSE IF stage = "session" THEN "lostSession" ELSE "failed"

CallFails(r) ==
    /\ faults < MaxFaults
    /\ pc[r] \in Awaiting
    /\ pc' = [pc EXCEPT ![r] = Lost(@)]
    /\ faults' = faults + 1
    /\ UNCHANGED <<tables, boot, found, wiped, boots>>

LateStatement(r) ==
    /\ \/ /\ pc[r] = "lostUser" /\ ~Taken(r)
          /\ users' = users \cup {Registered(r)}
          /\ UNCHANGED sessions
       \/ /\ pc[r] = "lostSession"
          /\ sessions' = sessions \cup {[req |-> r, user |-> found[r]]}
          /\ UNCHANGED users
       \/ /\ pc[r] \in {"lostUser", "lostSession"}
          /\ UNCHANGED <<users, sessions>>
    /\ pc' = [pc EXCEPT ![r] = "failed"]
    /\ UNCHANGED <<seeded, copies, boot, found, wiped, bounds>>

\* A serving instance dies with its calls.
Crash(i) ==
    /\ faults < MaxFaults
    /\ boot[i] = Up
    /\ boot' = [boot EXCEPT ![i] = Down]
    /\ pc' = [r \in Request |->
                IF At(r) = i /\ pc[r] \in Awaiting THEN Lost(pc[r]) ELSE pc[r]]
    /\ faults' = faults + 1
    /\ UNCHANGED <<tables, found, wiped, boots>>

-----------------------------------------------------------------------------

Work(r) ==
    \/ Check(r) \/ InsertUser(r) \/ InsertUserTaken(r)
    \/ Find(r) \/ InsertSession(r) \/ LateStatement(r)

Next ==
    \/ \E r \in Request : Arrive(r) \/ Work(r) \/ CallFails(r)
    \/ \E i \in Instance :
         \/ Start(i) \/ BootStep(i) \/ SchemaFails(i) \/ BootFails(i) \/ BootCut(i)
         \/ DropDemo(i) \/ Crash(i)

\* A boot goes on by itself, and so does a call; nobody has to start an
\* instance or to call.
Spec ==
    /\ Init /\ [][Next]_vars
    /\ \A i \in Instance : WF_vars(BootStep(i) \/ BootFails(i))
    /\ \A r \in Request : WF_vars(Work(r))

-----------------------------------------------------------------------------
(* Properties                                                              *)

\* Every variable has its type.
TypeOK ==
    /\ users \subseteq Account /\ sessions \subseteq Session
    /\ seeded \subseteq {"schema", "rules", "conversation"}
    /\ copies \in [1 .. 2 -> 0 .. boots]
    /\ boot \in [Instance -> Down .. Up]
    /\ pc \in [Request -> Awaiting \cup {"idle", "ok", "conflict", "denied", "failed",
                                         "lostUser", "lostSession"}]
    /\ found \in [Request -> UserId \cup {Unknown}]
    /\ wiped \subseteq Instance
    /\ boots \in 0 .. MaxBoots /\ faults \in 0 .. MaxFaults

\* Answers are true although registerUser is three statements and no
\* transaction: whoever was told 201 owns the email alone, with the password
\* chosen and a session; 409 is told only of somebody else's account; a 500
\* leaves an account behind only if something broke (registerUser's second
\* INSERT), never to the loser of a race; and login lets nobody in without
\* that account's password.
Owns(r) == Registered(r) \in users
AnswersAreTrue ==
    \A r \in Request :
        /\ pc[r] = "ok" => \E u \in users :
             /\ u.email = Call[r].email /\ u.password = Call[r].password
             /\ IsRegister(r) => u.id = r
             /\ [req |-> r, user |-> u.id] \in sessions
             /\ \A v \in users : v.email = u.email => v = u
        /\ pc[r] = "conflict" => ~Owns(r) /\ Taken(r)
        /\ IsRegister(r) /\ pc[r] = "failed" /\ Owns(r) => faults > 0

\* Who serves is seeded: an instance that listens finds schema, rules, both
\* demo users with their fixed ids and passwords, and the demo conversation
\* with both messages, each at most once per boot, unless it was deleted since
\* that instance started; whatever other instances boot, fail or crash
\* (bootstrap awaits seedDatabase before listen; INSERT ... ON CONFLICT).
ServingIsSeeded ==
    \A i \in Instance : boot[i] = Up =>
        /\ {"schema", "rules"} \subseteq seeded
        /\ \A d \in {Alice, Bob} : [id |-> d, email |-> d, password |-> DemoPassword] \in users
        /\ i \notin wiped =>
             "conversation" \in seeded /\ \A n \in 1 .. 2 : copies[n] \in 1 .. boots

\* A boot comes up unless something breaks, or Alice deletes the conversation
\* under its hands, whose foreign key then ends the process (seedDatabase's
\* last two INSERTs); every restart on a database in use included.
QuietBootListens ==
    \A i \in Instance : Booting(i) ~> boot[i] = Up \/ faults > 0 \/ i \in wiped

\* Every call is answered, by 201, 200, 401, 409 or 500, whoever races.
EveryCallAnswered ==
    \A r \in Request : pc[r] \in Awaiting ~>
        pc[r] \in {"ok", "conflict", "denied", "failed"}
=============================================================================
