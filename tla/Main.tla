-------------------------------- MODULE Main --------------------------------
(***************************************************************************)
(* src/src/main.rs with core/src/authentication.rs and core/src/cache: one *)
(* process after another on the same machine.  setup() picks credentials   *)
(* from the command line and from the file an earlier process left in the  *)
(* cache; Main::poll connects (Session::connect saves the credentials the  *)
(* access point hands back, then the session exists), watches for Ctrl-C   *)
(* and polls the SpircTask, which is module SpircLife here.                *)
(*                                                                         *)
(* A process may die at any point: killed from outside, or by one of the   *)
(* panics of the code that runs in it (a lost connection, a failed login). *)
(***************************************************************************)
EXTENDS Integers

CONSTANTS
  Names,        \* names a user may type at login
  Account,      \* Account[n]: the canonical user name the login n belongs to
  CommandLines, \* how the process may be started
  None,         \* an option that is not given; no credentials
  MaxStarts,    \* bound: number of processes
  MaxPresses    \* bound: how often Ctrl-C is pressed in one of them

ASSUME MainAssumption ==
  /\ Account \in [Names -> Names]
  /\ \A n \in Names : Account[Account[n]] = Account[n]
  /\ None \notin Names \cup [username : Names \cup {None}, reusable : BOOLEAN]
  /\ CommandLines \subseteq
       [username : Names \cup {None}, password : BOOLEAN, cache : BOOLEAN]
  /\ MaxStarts \in Nat /\ MaxPresses \in Nat

VARIABLES
  cache_file,   \* credentials.json: None, Torn, or credentials
  process,      \* "down", "up", "exited", "crashed"
  args, credentials,
  connect,      \* "empty", "pending", "accepted", "refused"
  shutdown,
  life, asked,  \* SpircLife; life is "none" before Spirc::new
  signals,      \* presses of Ctrl-C not yet polled
  at,           \* the step Main::poll has reached, or "parked" when it returned
  progress,     \* its local of that name
  \* History.
  starts, presses, last_login

spirc == <<life, asked>>
startup == <<args, credentials, starts>>
terminal == <<signals, presses>>
loop == <<at, progress>>
vars == <<cache_file, process, startup, connect, shutdown, spirc, terminal, loop, last_login>>

Life == INSTANCE SpircLife

\* with_password, and the reusable credentials of an APWelcome.
Credentials == [username : Names, reusable : BOOLEAN]
Password(n) == [username |-> n, reusable |-> FALSE]
Reusable(n) == [username |-> Account[n], reusable |-> TRUE]
Torn == [username |-> None, reusable |-> FALSE]  \* a file cut short

TypeOK ==
  /\ cache_file \in Credentials \cup {None, Torn}
  /\ process \in {"down", "up", "exited", "crashed"}
  /\ args \in CommandLines \cup {None}
  /\ credentials \in Credentials \cup {None}
  /\ connect \in {"empty", "pending", "accepted", "refused"}
  /\ life \in {"none", "up", "closing", "gone", "panicked"} /\ asked \in BOOLEAN
  /\ shutdown \in BOOLEAN
  /\ signals \in 0 .. MaxPresses /\ presses \in 0 .. MaxPresses
  /\ at \in {"connect", "create", "write", "signal", "spirc", "parked"} /\ progress \in BOOLEAN
  /\ starts \in 0 .. MaxStarts
  /\ last_login \in Credentials \cup {None}

Init ==
  /\ cache_file = None /\ process = "down" /\ args = None /\ credentials = None
  /\ connect = "empty" /\ shutdown = FALSE /\ life = "none" /\ asked = FALSE
  /\ signals = 0 /\ presses = 0 /\ at = "connect" /\ progress = FALSE
  /\ starts = 0 /\ last_login = None

-----------------------------------------------------------------------------
Cached(a) == IF a.cache THEN cache_file ELSE None

\* Mutant of GetCredentials: the name on the command line is not compared with
\* the one in the file.
GetCredentialsOfAnyone(a) ==
  IF Cached(a) # None /\ ~ a.password THEN Cached(a)
  ELSE IF a.username = None THEN None ELSE Password(a.username)

\* get_credentials; a password that is not on the command line is asked for.
GetCredentials(a) ==
  IF a.username = None THEN Cached(a)
  ELSE IF ~ a.password /\ Cached(a) # None /\ Cached(a).username = a.username
  THEN Cached(a)
  ELSE Password(a.username)

\* Mutant of Unreadable: a file that does not parse is taken as it is.
NeverUnreadable(a) == FALSE

Unreadable(a) == Cached(a) = Torn

\* setup and Main::new.  Reading the cache comes first: a file that does not
\* parse is unwrapped.  Without credentials nothing is ever connected to.
Start(a) ==
  /\ process # "up"
  /\ starts < MaxStarts
  /\ starts' = starts + 1
  /\ args' = a
  /\ IF Unreadable(a)
     THEN /\ process' = "crashed"
          /\ credentials' = None
          /\ connect' = "empty"
     ELSE /\ process' = "up"
          /\ credentials' = GetCredentials(a)
          /\ connect' = IF credentials' = None THEN "empty" ELSE "pending"
  /\ shutdown' = FALSE /\ life' = "none" /\ asked' = FALSE
  /\ signals' = 0 /\ presses' = 0 /\ at' = "connect" /\ progress' = FALSE
  /\ UNCHANGED <<cache_file, last_login>>

\* The access point lets the user in or does not.
Login(answer) ==
  /\ process = "up"
  /\ connect = "pending"
  /\ connect' = answer
  /\ last_login' = IF answer = "accepted" THEN Reusable(credentials.username) ELSE last_login
  /\ UNCHANGED <<cache_file, process, startup, shutdown, spirc, terminal, loop>>

\* Spirc::new, after the session was created.
NewSpirc ==
  /\ connect' = "empty"
  /\ life' = "up"
  /\ asked' = FALSE
  /\ at' = "signal" /\ progress' = TRUE

\* Mutant of PollConnect: the credentials typed in are saved, accepted or not.
PollConnectSavesFirst ==
  /\ process = "up" /\ at = "connect"
  /\ \/ /\ connect = "empty"
        /\ at' = "signal" /\ progress' = FALSE
        /\ UNCHANGED <<cache_file, process, connect, spirc>>
     \/ /\ connect = "pending"
        /\ at' = "signal" /\ progress' = FALSE
        /\ cache_file' = IF args.cache THEN credentials ELSE cache_file
        /\ UNCHANGED <<process, connect, spirc>>
     \/ connect = "accepted" /\ NewSpirc /\ UNCHANGED <<cache_file, process>>
     \/ /\ connect = "refused"
        /\ process' = "crashed"
        /\ UNCHANGED <<cache_file, connect, spirc, loop>>
  /\ UNCHANGED <<startup, shutdown, terminal, last_login>>

PollConnect ==
  /\ process = "up" /\ at = "connect"
  /\ \/ /\ connect \in {"empty", "pending"}
        /\ at' = "signal" /\ progress' = FALSE
        /\ UNCHANGED <<process, connect, spirc>>
     \/ /\ connect = "accepted" /\ args.cache
        /\ at' = "create"
        /\ UNCHANGED <<process, connect, spirc, progress>>
     \/ /\ connect = "accepted" /\ ~ args.cache
        /\ NewSpirc
        /\ UNCHANGED process
     \/ /\ connect = "refused"
        /\ process' = "crashed"
        /\ UNCHANGED <<connect, spirc, loop>>
  /\ UNCHANGED <<cache_file, startup, shutdown, terminal, last_login>>

\* save_to_file: File::create empties the file, then the contents are written,
\* unless the disk is full.
CreateFile ==
  /\ process = "up" /\ at = "create"
  /\ cache_file' = Torn
  /\ at' = "write"
  /\ UNCHANGED <<process, startup, connect, shutdown, spirc, terminal, progress, last_login>>

WriteFile ==
  /\ process = "up" /\ at = "write"
  /\ \/ /\ cache_file' = Reusable(credentials.username)
        /\ NewSpirc
        /\ UNCHANGED process
     \/ /\ process' = "crashed"
        /\ UNCHANGED <<cache_file, connect, spirc, loop>>
  /\ UNCHANGED <<startup, shutdown, terminal, last_login>>

\* Mutant of PollSignal: the flag is set only by a press that finds no Spirc.
PollSignalForgets ==
  /\ process = "up" /\ at = "signal"
  /\ at' = "spirc"
  /\ \/ /\ signals = 0
        /\ UNCHANGED <<process, asked, shutdown, signals, progress>>
     \/ /\ signals > 0
        /\ signals' = signals - 1 /\ progress' = TRUE
        /\ process' = IF shutdown THEN "exited" ELSE process
        /\ shutdown' = (shutdown \/ life = "none")
        /\ asked' = (asked \/ life = "up")
  /\ UNCHANGED <<cache_file, startup, connect, life, presses, last_login>>

\* Mutant of PollSignal: the first press stops the loop.
PollSignalHurries ==
  /\ process = "up" /\ at = "signal"
  /\ at' = "spirc"
  /\ signals' = IF signals > 0 THEN signals - 1 ELSE 0
  /\ process' = IF signals > 0 THEN "exited" ELSE process
  /\ shutdown' = (shutdown \/ signals > 0)
  /\ progress' = (progress \/ signals > 0)
  /\ UNCHANGED <<cache_file, startup, connect, spirc, presses, last_login>>

\* Mutant of AskSpirc: Main sets its own flag and tells nobody.
AskNobody == UNCHANGED asked

AskSpirc == asked' = (asked \/ life = "up")

\* The first Ctrl-C asks Spirc to shut down, if there is one; the next ends
\* the loop as it is.
PollSignal ==
  /\ process = "up" /\ at = "signal"
  /\ at' = "spirc"
  /\ \/ /\ signals = 0
        /\ UNCHANGED <<process, asked, shutdown, signals, progress>>
     \/ /\ signals > 0 /\ ~ shutdown
        /\ signals' = signals - 1 /\ progress' = TRUE
        /\ shutdown' = TRUE
        /\ AskSpirc
        /\ UNCHANGED process
     \/ /\ signals > 0 /\ shutdown
        /\ signals' = signals - 1
        /\ process' = "exited"
        /\ UNCHANGED <<asked, shutdown, progress>>
  /\ UNCHANGED <<cache_file, startup, connect, life, presses, last_login>>

\* SpircTask does some of its work ...
RunSpirc ==
  /\ process = "up" /\ at = "spirc"
  /\ Life!Work
  /\ UNCHANGED <<cache_file, process, startup, connect, shutdown, terminal, loop, last_login>>

\* ... and returns: Ready ends Main, or makes it panic ("Spirc shut down
\* unexpectedly").  Otherwise Main goes round again if it made progress, and
\* returns NotReady if not.
PollSpirc ==
  /\ process = "up" /\ at = "spirc"
  /\ \/ /\ life \in {"none", "up", "closing"}
        /\ at' = IF progress THEN "connect" ELSE "parked"
        /\ UNCHANGED process
     \/ /\ life = "gone"
        /\ process' = IF shutdown THEN "exited" ELSE "crashed"
        /\ UNCHANGED at
     \/ /\ life = "panicked"
        /\ process' = "crashed"
        /\ UNCHANGED at
  /\ UNCHANGED <<cache_file, startup, connect, shutdown, spirc, terminal, progress, last_login>>

Repoll ==
  /\ process = "up" /\ at = "parked"
  /\ at' = "connect"
  /\ UNCHANGED <<cache_file, process, startup, connect, shutdown, spirc, terminal, progress,
                 last_login>>

\* It returned after a round in which nothing was ready, so that it is woken by
\* what comes later: the login, a press, or for a Spirc that was asked to shut
\* down a way to send what it still has to.
Wake == (connect \in {"accepted", "refused"} \/ signals > 0 \/ asked) /\ Repoll

\* Something else that SpircTask waited for.
SpircWakes == life # "none" /\ Repoll

MainPoll == PollConnect \/ CreateFile \/ WriteFile \/ PollSignal \/ PollSpirc \/ Wake

-----------------------------------------------------------------------------
CtrlC ==
  /\ process = "up"
  /\ presses < MaxPresses
  /\ signals' = signals + 1
  /\ presses' = presses + 1
  /\ UNCHANGED <<cache_file, process, startup, connect, shutdown, spirc, loop, last_login>>

Die ==
  /\ process = "up"
  /\ process' = "crashed"
  /\ UNCHANGED <<cache_file, startup, connect, shutdown, spirc, terminal, loop, last_login>>

\* Nobody starts the program again.
Over == process # "up" /\ starts = MaxStarts /\ UNCHANGED vars

Next ==
  \/ \E a \in CommandLines : Start(a)
  \/ \E answer \in {"accepted", "refused"} : Login(answer)
  \/ MainPoll \/ RunSpirc \/ SpircWakes
  \/ CtrlC \/ Die \/ Over

Spec == Init /\ [][Next]_vars

\* Main::poll goes on until it returns, and the reactor polls it again when
\* something it waited for has come; SpircTask does what SpircLife promises.
FairSpec == Spec /\ WF_vars(MainPoll) /\ SF_vars(RunSpirc /\ (Life!Close \/ Life!End))

-----------------------------------------------------------------------------
\* Nobody is logged in under another name than the one asked for.
RightUser ==
  credentials # None /\ args.username # None =>
    Account[credentials.username] = Account[args.username]

\* The file, when it can be read, is what the last accepted login handed back
\* or what an earlier one did: a refused login never replaces it.
CacheIsFromLogin ==
  [][ cache_file' \notin {cache_file, Torn} => cache_file' = last_login ]_vars

\* main.rs:242, panic!("Spirc shut down unexpectedly"), is never reached.
EndIsExpected == process = "up" /\ life = "gone" => shutdown

\* A user who pressed Ctrl-C once and sees the program exit can rely on Spirc
\* having said Goodbye and on all its frames having been answered.
OnePressIsClean == process = "exited" /\ presses = 1 => life = "gone"

\* A press of Ctrl-C that finds Spirc running ends the process.
PressStops == process = "up" /\ life = "up" /\ signals > 0 ~> process # "up"
=============================================================================
