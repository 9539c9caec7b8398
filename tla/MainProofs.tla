------------------------------ MODULE MainProofs ------------------------------
(***************************************************************************)
(* Proofs about Main.tla, for every set of names and accounts, every way   *)
(* to start a process and any number of processes and of presses.          *)
(*                                                                         *)
(* The safety properties are about single states, and are inductive only   *)
(* with what a process remembers from one step of Main::poll to a later    *)
(* one: Asking ties Spirc to the flag of Main, Counting the flag to the    *)
(* keys pressed, Saving the credentials that are about to be written to    *)
(* the login that handed them back.                                        *)
(***************************************************************************)
EXTENDS Main, TLAPS

\* Spirc was asked only by a press that set the flag, and ends only if asked.
Asking ==
  /\ asked => shutdown
  /\ life \in {"closing", "gone"} => asked

\* A press is yet to be polled, or was taken for the flag, or was not the first.
Counting ==
  process = "up" => signals + (IF shutdown THEN 1 ELSE 0) <= presses

\* From the login to the file, last_login is what this process was handed back.
Saving ==
  process = "up" =>
    /\ connect = "accepted" => last_login = Reusable(credentials.username)
    /\ at \in {"create", "write"} => connect = "accepted"

\* Whoever is connected to, there are credentials to connect with.
Connecting == process = "up" /\ connect # "empty" => credentials # None

Inv == TypeOK /\ RightUser /\ OnePressIsClean /\ Asking /\ Counting /\ Saving /\ Connecting

USE MainAssumption
USE DEF Credentials, Torn, Reusable, Password

LEMMA InitInv == Init => Inv
<1> SUFFICES ASSUME Init PROVE Inv
  OBVIOUS
<1> USE DEF Init
<1>1. /\ signals \in 0 .. MaxPresses /\ presses \in 0 .. MaxPresses
      /\ starts \in 0 .. MaxStarts
  OBVIOUS
<1>2. TypeOK
  BY <1>1 DEF TypeOK
<1>3. RightUser /\ OnePressIsClean /\ Asking /\ Counting /\ Saving /\ Connecting
  BY DEF RightUser, OnePressIsClean, Asking, Counting, Saving, Connecting
<1> QED
  BY <1>2, <1>3 DEF Inv

\* What get_credentials returns has the name that was asked for, if there was one.
LEMMA CredentialsOfUser ==
  ASSUME TypeOK, NEW a \in CommandLines, ~ Unreadable(a)
  PROVE  /\ GetCredentials(a) \in Credentials \cup {None}
         /\ GetCredentials(a) # None /\ a.username # None
              => GetCredentials(a).username = a.username
<1>1. a \in [username : Names \cup {None}, password : BOOLEAN, cache : BOOLEAN]
  OBVIOUS
<1>2. Cached(a) \in Credentials \cup {None}
  BY <1>1 DEF TypeOK, Unreadable, Cached
<1>3. a.username \in Names => Password(a.username) \in Credentials
  OBVIOUS
<1> QED
  BY <1>1, <1>2, <1>3 DEF GetCredentials

LEMMA StartInv ==
  ASSUME Inv, NEW a \in CommandLines, Start(a)
  PROVE  Inv'
<1> USE DEF Start, Inv
<1>1. /\ signals' \in 0 .. MaxPresses /\ presses' \in 0 .. MaxPresses
      /\ starts' \in 0 .. MaxStarts
  BY DEF TypeOK
<1>2. /\ cache_file' \in Credentials \cup {None, Torn}
      /\ last_login' \in Credentials \cup {None}
      /\ args' \in CommandLines \cup {None}
      /\ shutdown' \in BOOLEAN /\ asked' \in BOOLEAN
      /\ life' \in {"none", "up", "closing", "gone", "panicked"}
      /\ at' \in {"connect", "create", "write", "signal", "spirc", "parked"} /\ progress' \in BOOLEAN
  BY DEF TypeOK
<1>3. /\ credentials' \in Credentials \cup {None}
      /\ credentials' # None /\ a.username # None => credentials'.username = a.username
  BY CredentialsOfUser
<1>4. /\ process' \in {"down", "up", "exited", "crashed"}
      /\ connect' \in {"empty", "pending", "accepted", "refused"}
      /\ connect' \in {"empty", "pending"}
      /\ connect' # "empty" => credentials' # None
  BY Zenon
<1>5. TypeOK'
  BY <1>1, <1>2, <1>3, <1>4 DEF TypeOK
<1>6. RightUser'
  BY <1>3 DEF RightUser
<1>7. OnePressIsClean' /\ Counting'
  BY DEF OnePressIsClean, Counting
<1>8. Asking' /\ Saving' /\ Connecting'
  BY <1>4 DEF Asking, Saving, Connecting
<1> QED
  BY <1>5, <1>6, <1>7, <1>8

LEMMA LoginInv ==
  ASSUME Inv, NEW answer \in {"accepted", "refused"}, Login(answer)
  PROVE  Inv'
<1> USE DEF Login, Inv, startup, spirc, terminal, loop
<1>1. Reusable(credentials.username) \in Credentials
  BY DEF TypeOK, Connecting
<1>2. TypeOK'
  BY <1>1 DEF TypeOK
<1>3. RightUser' /\ OnePressIsClean' /\ Asking' /\ Counting' /\ Saving' /\ Connecting'
  BY DEF RightUser, OnePressIsClean, Asking, Counting, Saving, Connecting
<1> QED
  BY <1>2, <1>3

LEMMA PollConnectInv == Inv /\ PollConnect => Inv'
<1> SUFFICES ASSUME Inv, PollConnect PROVE Inv'
  OBVIOUS
<1> USE DEF PollConnect, NewSpirc, Inv, startup, spirc, terminal, loop
<1>a. UNCHANGED <<cache_file, args, credentials, starts, shutdown, signals, presses, last_login>>
  OBVIOUS
<1>b. /\ process' \in {"down", "up", "exited", "crashed"}
      /\ connect' \in {"empty", "pending", "accepted", "refused"}
      /\ life' \in {"none", "up", "closing", "gone", "panicked"} /\ asked' \in BOOLEAN
      /\ at' \in {"connect", "create", "write", "signal", "spirc", "parked"} /\ progress' \in BOOLEAN
  BY DEF TypeOK
<1>1. TypeOK'
  BY <1>a, <1>b DEF TypeOK
<1>2. RightUser' /\ OnePressIsClean'
  BY DEF RightUser, OnePressIsClean
<1>3. Asking' /\ Counting' /\ Saving' /\ Connecting'
  BY DEF Asking, Counting, Saving, Connecting
<1> QED
  BY <1>1, <1>2, <1>3

LEMMA SaveInv == Inv /\ (CreateFile \/ WriteFile) => Inv'
<1> SUFFICES ASSUME Inv, CreateFile \/ WriteFile PROVE Inv'
  OBVIOUS
<1> USE DEF CreateFile, WriteFile, NewSpirc, Inv, startup, spirc, terminal, loop
<1>1. Reusable(credentials.username) \in Credentials \/ ~ WriteFile
  BY DEF TypeOK, Connecting, Saving
<1>a. cache_file' \in Credentials \cup {None, Torn}
  BY <1>1 DEF TypeOK
<1>b. UNCHANGED <<args, credentials, starts, shutdown, signals, presses, last_login>>
  OBVIOUS
<1>c. /\ process' \in {"down", "up", "exited", "crashed"}
      /\ connect' \in {"empty", "pending", "accepted", "refused"}
      /\ life' \in {"none", "up", "closing", "gone", "panicked"} /\ asked' \in BOOLEAN
      /\ at' \in {"connect", "create", "write", "signal", "spirc", "parked"} /\ progress' \in BOOLEAN
  BY DEF TypeOK
<1>2. TypeOK'
  BY <1>a, <1>b, <1>c DEF TypeOK
<1>3. RightUser' /\ OnePressIsClean'
  BY DEF RightUser, OnePressIsClean
<1>4. Asking' /\ Counting' /\ Saving' /\ Connecting'
  BY DEF Asking, Counting, Saving, Connecting
<1> QED
  BY <1>2, <1>3, <1>4

LEMMA PollSignalInv == Inv /\ PollSignal => Inv'
<1> SUFFICES ASSUME Inv, PollSignal PROVE Inv'
  OBVIOUS
<1> USE DEF PollSignal, AskSpirc, Inv, startup
<1>a. UNCHANGED <<cache_file, args, credentials, starts, connect, life, presses, last_login>>
  OBVIOUS
<1>b. signals' \in 0 .. MaxPresses
  BY DEF TypeOK
<1>c. /\ process' \in {"down", "up", "exited", "crashed"}
      /\ asked' \in BOOLEAN /\ shutdown' \in BOOLEAN
      /\ at' \in {"connect", "create", "write", "signal", "spirc", "parked"} /\ progress' \in BOOLEAN
  BY DEF TypeOK
<1>1. TypeOK'
  BY <1>a, <1>b, <1>c DEF TypeOK
<1>2. RightUser' /\ Asking' /\ Saving' /\ Connecting'
  BY DEF RightUser, Asking, Saving, Connecting
<1>3. OnePressIsClean' /\ Counting'
  BY DEF TypeOK, OnePressIsClean, Counting
<1> QED
  BY <1>1, <1>2, <1>3

LEMMA RunSpircInv == Inv /\ RunSpirc => Inv'
<1> SUFFICES ASSUME Inv, RunSpirc PROVE Inv'
  OBVIOUS
<1> USE DEF RunSpirc, Life!Work, Life!Close, Life!End, Life!Panic, Inv, startup, terminal, loop
<1>1. TypeOK'
  BY DEF TypeOK
<1>2. RightUser' /\ OnePressIsClean' /\ Asking' /\ Counting' /\ Saving' /\ Connecting'
  BY DEF RightUser, OnePressIsClean, Asking, Counting, Saving, Connecting
<1> QED
  BY <1>1, <1>2

LEMMA PollSpircInv == Inv /\ (PollSpirc \/ Repoll) => Inv'
<1> SUFFICES ASSUME Inv, PollSpirc \/ Repoll PROVE Inv'
  OBVIOUS
<1> USE DEF PollSpirc, Repoll, Inv, startup, spirc, terminal
<1>1. TypeOK'
  BY DEF TypeOK
<1>2. RightUser' /\ OnePressIsClean' /\ Asking' /\ Counting' /\ Saving' /\ Connecting'
  BY DEF RightUser, OnePressIsClean, Asking, Counting, Saving, Connecting
<1> QED
  BY <1>1, <1>2

LEMMA OutsideInv == Inv /\ (CtrlC \/ Die \/ UNCHANGED vars) => Inv'
<1> SUFFICES ASSUME Inv, CtrlC \/ Die \/ UNCHANGED vars PROVE Inv'
  OBVIOUS
<1> USE DEF CtrlC, Die, vars, Inv, startup, spirc, terminal, loop
<1>1. TypeOK'
  BY DEF TypeOK, Counting
<1>2. OnePressIsClean' /\ Counting'
  BY DEF TypeOK, OnePressIsClean, Counting
<1>3. RightUser' /\ Asking' /\ Saving' /\ Connecting'
  BY DEF RightUser, Asking, Saving, Connecting
<1> QED
  BY <1>1, <1>2, <1>3

LEMMA NextInv == Inv /\ [Next]_vars => Inv'
<1> SUFFICES ASSUME Inv, [Next]_vars PROVE Inv'
  OBVIOUS
<1>1. ASSUME NEW a \in CommandLines, Start(a) PROVE Inv'
  BY <1>1, StartInv
<1>2. ASSUME NEW answer \in {"accepted", "refused"}, Login(answer) PROVE Inv'
  BY <1>2, LoginInv
<1>3. CASE MainPoll
  BY <1>3, PollConnectInv, SaveInv, PollSignalInv, PollSpircInv DEF MainPoll, Wake
<1>4. CASE RunSpirc \/ SpircWakes \/ CtrlC \/ Die \/ Over \/ UNCHANGED vars
  BY <1>4, RunSpircInv, PollSpircInv, OutsideInv DEF Over, SpircWakes
<1> QED
  BY <1>1, <1>2, <1>3, <1>4 DEF Next

LEMMA InvAlways == Spec => []Inv
  BY InitInv, NextInv, PTL DEF Spec

-----------------------------------------------------------------------------
\* The variables of Main keep their types, whatever the last process left in
\* the cache: setup never goes on with a file that was cut short.
THEOREM MainTypeCorrect == Spec => []TypeOK
<1>1. Inv => TypeOK
  BY DEF Inv
<1> QED
  BY <1>1, InvAlways, PTL

\* get_credentials never picks the credentials of somebody else from the cache.
THEOREM UserIsRight == Spec => []RightUser
<1>1. Inv => RightUser
  BY DEF Inv
<1> QED
  BY <1>1, InvAlways, PTL

\* Main::poll never reaches its panic!("Spirc shut down unexpectedly").
THEOREM SpircEndsAsExpected == Spec => []EndIsExpected
<1>1. Inv => EndIsExpected
  BY DEF Inv, Asking, EndIsExpected
<1> QED
  BY <1>1, InvAlways, PTL

\* After a single Ctrl-C, Main only returns when Spirc has.
THEOREM OnePressEndsCleanly == Spec => []OnePressIsClean
<1>1. Inv => OnePressIsClean
  BY DEF Inv
<1> QED
  BY <1>1, InvAlways, PTL

\* The cache is only ever overwritten with what the last login handed back.
THEOREM CacheHoldsLogins == Spec => CacheIsFromLogin
<1>1. ASSUME Inv, [Next]_vars PROVE cache_file' \notin {cache_file, Torn} => cache_file' = last_login
  <2>1. CASE WriteFile
    BY <1>1, <2>1 DEF WriteFile, Inv, Saving
  <2>2. CASE ~ WriteFile
    BY <1>1, <2>2 DEF Next, vars, Start, Login, MainPoll, PollConnect, CreateFile,
       PollSignal, PollSpirc, Repoll, Wake, SpircWakes, RunSpirc, CtrlC, Die, Over
  <2> QED
    BY <2>1, <2>2
<1>2. Inv /\ [Next]_vars => [cache_file' \notin {cache_file, Torn} => cache_file' = last_login]_vars
  BY <1>1
<1> QED
  BY <1>2, InvAlways, PTL DEF Spec, CacheIsFromLogin
=============================================================================
