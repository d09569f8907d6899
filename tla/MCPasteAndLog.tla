---------------------------- MODULE MCPasteAndLog ----------------------------
(* What the daemon leaves outside of itself: the clipboard and the log.  The  *)
(* two do not touch; `part` is which of them a behaviour is of, chosen at the *)
(* start.                                                                     *)
(*                                                                            *)
(* Paste has two windows and two phrases, whose delays are shorter and longer *)
(* than ChainLimit, over a content with every kind of format, a private one   *)
(* and none.  Logging has the main thread and another one, on a queue of two. *)
EXTENDS Paste, TLC

CONSTANTS v, w, main, worker, Nobody, LogEnvironments

VARIABLES
    part, thread, budget, queue, writer, attached, failing, files, dropped, selected,
    ended, calls, sent, missed, tried, done, told, filed, deleted, waited, quiet

MCCopies  == {<<"rich", "drawn", "text">>, <<"marks", "text">>, <<>>}
MCBackoff == <<1, 1>>
Windows   == Permutations({v, w})

Logs == INSTANCE Logging
    WITH Thread <- {main, worker}, Main <- main, Limit <- 2, KeptFiles <- 3,
         Capacity <- 2, FlushTimeout <- 2, ReportBudget <- 1, Episode <- 2,
         LineSize <- {1, 3}, MaxLines <- 3, MaxCalls <- 2, MaxDeletes <- 1,
         Environments <- LogEnvironments

ASSUME LogAssumption == Logs!LoggingAssumption

ClipVars == <<now, at, ending, paste, fired, pending, window, lastWindow, made,
              registered, clipboard, held, foreground, modifier, moves, busy, gone,
              unread, left>>
LogVars  == <<thread, budget, queue, writer, attached, failing, files, dropped,
              selected, ended, calls, sent, missed, tried, done, told, filed,
              deleted, waited, quiet>>
partVars == <<part, env, ClipVars, LogVars>>

NoClip ==
    /\ now = None /\ at = None /\ ending = None /\ paste = None /\ fired = None
    /\ pending = None /\ window = None /\ lastWindow = None /\ made = None
    /\ registered = None /\ clipboard = None /\ held = None /\ foreground = None
    /\ modifier = None /\ moves = None /\ busy = None /\ gone = None
    /\ unread = None /\ left = None

NoLog ==
    /\ thread = None /\ budget = None /\ queue = None /\ writer = None
    /\ attached = None /\ failing = None /\ files = None /\ dropped = None
    /\ selected = None /\ ended = None /\ calls = None /\ sent = None
    /\ missed = None /\ tried = None /\ done = None /\ told = None /\ filed = None
    /\ deleted = None /\ waited = None /\ quiet = None

PartInit ==
    \/ part = "clipboard" /\ Init /\ NoLog
    \/ part = "log" /\ Logs!Init /\ NoClip

PartNext ==
    /\ \/ part = "clipboard" /\ Next /\ UNCHANGED LogVars
       \/ part = "log" /\ Logs!Next /\ UNCHANGED ClipVars
    /\ UNCHANGED part

PartSpec == PartInit /\ [][PartNext]_partVars
-----------------------------------------------------------------------------
(* The properties of the paste session (paste.rs): the user's clipboard comes *)
(* back, no copy of another program is lost, and the target reads its phrase. *)
ClipboardBack == [][part = "clipboard" => ComesBack]_partVars
CopiesKept    == [][part = "clipboard" => OnlySaved]_partVars
PhraseRead    == [][part = "clipboard" => ReadsPhrase]_partVars

(* And of the log (writer.rs, sink.rs, panic.rs): a flush and the counter     *)
(* tell the truth, the files are whole (with the types of both parts), and    *)
(* panics are brief.                                                          *)
FlushTold   == part = "log" => Logs!FlushTold
FilesWhole  == IF part = "log" THEN Logs!TypeOK /\ Logs!FilesWhole ELSE TypeOK
HeldBriefly == part = "log" => Logs!HeldBriefly
=============================================================================
