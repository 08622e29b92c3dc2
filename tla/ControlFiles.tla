----------------------------- MODULE ControlFiles -----------------------------
(* The files by which the operator steers the desk, and the two programs that
   write them: the Telegram bot (gateway/telegram_handler.py) and the dashboard
   (gateway/dashboard.py, dashboard_state.py), separate processes. Both write
   with Path.write_text (core/kill_switch.py): one system call empties the file,
   another writes from its start, and the other program may act in between. What
   a shorter text leaves of a longer one is no JSON. *)
EXTENDS Integers, FiniteSetsExt, SequencesExt

CONSTANTS
    Staff,          \* analysts that may be paused
    MaxCommands,    \* bound on commands of the operator
    MaxCrashes      \* bound on crashes of the two programs

Writers == {"bot", "dashboard"}
Commands == [act : {"kill"}] \cup [act : {"pause", "resume"}, analyst : Staff] \cup [act : {"other"}]
DashboardOnly == [act : {"clear"}]

VARIABLES
    killFile,       \* texts of files: their size, and the names in them if they
    pausedFile,     \* are JSON; a kill is the name "active"
    doing,          \* the command that a program is in, or Nothing
    standing,       \* a kill was written, and no command on the file has begun since
    decreed,        \* the analysts that the commands, one after the other, pause
    disturbed,      \* two commands met on the file of pauses, or one was cut short
    updates,        \* what the operator sent to the bot
    confirmed,      \* how many of them Telegram need not keep
    lastUpdate,     \* _last_update_id
    batch,          \* ids fetched and not handled
    answered,       \* ids handled to the end
    dropped,        \* ids whose handler raised, or that came behind one that did
    asked, upsets   \* counters for the bounds

controlVars == <<killFile, pausedFile, doing, standing, decreed, disturbed, updates, confirmed,
                 lastUpdate, batch, answered, dropped, asked, upsets>>
telegram == <<updates, confirmed, lastUpdate, batch, answered, dropped>>

Nothing == [act |-> "nothing"]

NoText == [size |-> 0, json |-> FALSE, names |-> {}]
\* set_blocked's text, with a reason, is longer than set_healthy's.
Text(names) == [size |-> 1 + Cardinality(names), json |-> TRUE, names |-> names]

ControlInit ==
    /\ killFile \in {NoText, Text({}), Text({"active"})}
    /\ pausedFile = Text({})
    /\ doing = [w \in Writers |-> Nothing]
    /\ standing = FALSE
    /\ decreed = {} /\ disturbed = FALSE
    /\ updates = <<>> /\ confirmed = 0 /\ lastUpdate = 0
    /\ batch = <<>> /\ answered = {} /\ dropped = {}
    /\ asked = 0 /\ upsets = 0

\* A file that is missing or no JSON blocks, but pauses nobody.
IsBlocked == ~killFile.json \/ killFile.names # {}
LoadPaused == IF pausedFile.json THEN pausedFile.names ELSE {}

-----------------------------------------------------------------------------
(* A command in a program: for a pause or resume a read, then for every file
   write its two system calls. *)

Pausing(c) == c.act \in {"pause", "resume"}
Other(w) == IF w = "bot" THEN "dashboard" ELSE "bot"

Decreed(c) == IF c.act = "pause" THEN decreed \cup {c.analyst} ELSE decreed \ {c.analyst}

\* A pause that does not read what is there.
PausedAlone(c, present) == IF c.act = "pause" THEN {c.analyst} ELSE present \ {c.analyst}
Paused(c, present) == IF c.act = "pause" THEN present \cup {c.analyst} ELSE present \ {c.analyst}

\* A write that replaces the file, as atomic_write_json would.
Replaced(old, new) == new
Overwritten(old, new) ==
    IF old.size > new.size THEN [old EXCEPT !.json = FALSE, !.names = {}] ELSE new

Begin(w, c) ==
    /\ doing[w] = Nothing
    /\ doing' = [doing EXCEPT ![w] =
          IF c.act = "other" THEN Nothing
          ELSE [act |-> c.act, step |-> "empty",
                names |-> IF Pausing(c) THEN Paused(c, LoadPaused)
                          ELSE IF c.act = "kill" THEN {"active"} ELSE {}]]
    /\ decreed' = IF Pausing(c) THEN Decreed(c) ELSE decreed
    /\ disturbed' = (disturbed \/ (Pausing(c) /\ Pausing(doing[Other(w)])))

Truncate(w) ==
    /\ doing[w] # Nothing /\ doing[w].step = "empty"
    /\ doing' = [doing EXCEPT ![w].step = "write"]
    /\ IF Pausing(doing[w])
       THEN pausedFile' = NoText /\ UNCHANGED <<killFile, standing>>
       ELSE /\ killFile' = NoText
            /\ standing' = FALSE
            /\ UNCHANGED pausedFile
    /\ UNCHANGED <<decreed, disturbed, telegram, asked, upsets>>

\* The dashboard broadcasts and answers after the write, the bot answers after
\* it; either may fail without a trace in the files.
Write(w) ==
    /\ doing[w] # Nothing /\ doing[w].step = "write"
    /\ doing' = [doing EXCEPT ![w] = Nothing]
    /\ IF Pausing(doing[w])
       THEN pausedFile' = Overwritten(pausedFile, Text(doing[w].names)) /\ UNCHANGED <<killFile, standing>>
       ELSE /\ killFile' = Overwritten(killFile, Text(doing[w].names))
            /\ standing' = (standing \/ doing[w].act = "kill")
            /\ UNCHANGED pausedFile
    /\ IF w = "bot"
       THEN answered' = answered \cup {Head(batch)} /\ batch' = Tail(batch)
       ELSE UNCHANGED <<answered, batch>>
    /\ UNCHANGED <<decreed, disturbed, updates, confirmed, lastUpdate, dropped, asked, upsets>>

DashboardRequest(c) ==
    /\ asked < MaxCommands
    /\ c.act # "other"
    /\ Begin("dashboard", c)
    /\ asked' = asked + 1
    /\ UNCHANGED <<killFile, pausedFile, standing, telegram, upsets>>

-----------------------------------------------------------------------------
(* The bot's long poll. getUpdates with offset n makes Telegram forget what is
   before n; the bot moves its offset before it handles what came. *)

SendUpdate(c) ==
    /\ asked < MaxCommands
    /\ updates' = Append(updates, c)
    /\ asked' = asked + 1
    /\ UNCHANGED <<killFile, pausedFile, doing, standing, decreed, disturbed, confirmed, lastUpdate,
                   batch, answered, dropped, upsets>>

\* A fetch that confirms what it returns.
ConfirmAtOnce(offset) == Len(updates)
ConfirmedBy(offset) == IF offset - 1 > confirmed THEN offset - 1 ELSE confirmed

\* What Telegram still has from an offset on, in the order of the ids.
Pending(offset) ==
    LET first == IF offset > confirmed THEN offset ELSE confirmed + 1
    IN  [k \in 1..(Len(updates) - first + 1) |-> first + k - 1]

GetUpdates ==
    /\ doing["bot"] = Nothing /\ batch = <<>>
    /\ LET offset == lastUpdate + 1
           results == Pending(offset)
       IN  /\ confirmed' = ConfirmedBy(offset)
           /\ batch' = results
           /\ lastUpdate' = IF results = <<>> THEN lastUpdate ELSE Last(results)
    /\ UNCHANGED <<killFile, pausedFile, doing, standing, decreed, disturbed, updates, answered,
                   dropped, asked, upsets>>

\* A command that writes nothing is answered at once.
HandleUpdate ==
    /\ batch # <<>>
    /\ Begin("bot", updates[Head(batch)])
    /\ IF updates[Head(batch)].act = "other"
       THEN answered' = answered \cup {Head(batch)} /\ batch' = Tail(batch)
       ELSE UNCHANGED <<answered, batch>>
    /\ UNCHANGED <<killFile, pausedFile, standing, updates, confirmed, lastUpdate, dropped, asked, upsets>>

\* An exception of a handler leaves the loop over the batch: run_polling logs it
\* and fetches what comes after the batch.
HandlerRaises ==
    /\ batch # <<>> /\ upsets < MaxCrashes
    /\ dropped' = dropped \cup Range(batch)
    /\ batch' = <<>>
    /\ doing' = [doing EXCEPT !["bot"] = Nothing]
    /\ disturbed' = (disturbed \/ Pausing(doing["bot"]))
    /\ upsets' = upsets + 1
    /\ UNCHANGED <<killFile, pausedFile, standing, decreed, updates, confirmed, lastUpdate, answered, asked>>

\* The programs keep nothing; Telegram delivers again what it was not told to
\* forget.
CrashWriter(w) ==
    /\ upsets < MaxCrashes
    /\ doing' = [doing EXCEPT ![w] = Nothing]
    /\ disturbed' = (disturbed \/ w = "bot" \/ Pausing(doing[w]))
    /\ IF w = "bot" THEN lastUpdate' = 0 /\ batch' = <<>> ELSE UNCHANGED <<lastUpdate, batch>>
    /\ upsets' = upsets + 1
    /\ UNCHANGED <<killFile, pausedFile, standing, decreed, updates, confirmed, answered, dropped, asked>>

ControlNext ==
    \/ \E c \in Commands : SendUpdate(c)
    \/ \E c \in Commands \cup DashboardOnly : DashboardRequest(c)
    \/ GetUpdates \/ HandleUpdate \/ HandlerRaises
    \/ \E w \in Writers : Truncate(w) \/ Write(w) \/ CrashWriter(w)

ControlSpec == ControlInit /\ [][ControlNext]_controlVars

-----------------------------------------------------------------------------
\* A kill that was written holds until the next command on the file begins: a
\* clear of the other program that began before it cannot end, after it, as a
\* file that says healthy (set_blocked and set_healthy without a lock or a rename,
\* is_blocked on what is no JSON).
KillStands == standing => IsBlocked

\* A restart of the bot loses no command: each is handled, in hand, still with
\* Telegram, or was in a batch whose handler raised (_get_updates moves the
\* offset, the next call confirms it).
NoCommandLostByCrash ==
    \A i \in DOMAIN updates :
       i \in answered \/ i \in dropped \/ i \in Range(batch) \/ i > confirmed

\* As long as no two commands meet on the file of pauses and none is cut short,
\* it names whom the commands paused and did not resume, whichever program they
\* went through (_cmd_pause, pause_analyst).
PausesAreKept ==
    ~disturbed /\ (\A w \in Writers : ~Pausing(doing[w])) => LoadPaused = decreed
=============================================================================
