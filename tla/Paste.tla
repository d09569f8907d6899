-------------------------------- MODULE Paste --------------------------------
(* The Paste action (src/core/executor/paste.rs): the phrase goes on the      *)
(* clipboard, the keystroke that pastes it goes out, and what the clipboard   *)
(* held comes back.  The tries of a paste and of the restore are calls of the *)
(* executor's polls; between the calls, and between the polls, other programs *)
(* use the clipboard and the keyboard.  One paste tries at a time: the jobs   *)
(* behind it are those of Executor.                                           *)
EXTENDS Integers, SequencesExt

CONSTANTS
    None,
    Other,            \* the window of another program that owns the clipboard
    Window,           \* the windows a keystroke can go to
    Copies,           \* the contents other programs put on the clipboard
    Delays,           \* PasteSpec: the restore delays of the phrases
    ChainLimit,       \* CHAIN_WAIT_LIMIT
    ModifierLimit,    \* MODIFIER_LIMIT
    OpenBackoff,      \* OPEN_BACKOFF
    HungLimit,        \* HUNG_LIMIT
    TargetRetry,      \* TARGET_RETRY
    Settle,           \* SETTLE
    RestoreLimit,     \* RESTORE_RETRY_LIMIT
    ClosingLimit,     \* CLOSING_LIMIT
    MaxPastes,        \* bound: the pastes that are fired
    MaxMoves,         \* bound: what other programs and the user do
    MaxTime,          \* bound: the ticks of the clock
    Environments      \* the sets of troubles that occur together

Troubles == {"copy",      \* another program copies, or adds a format
             "hold",      \* another program keeps the clipboard open
             "hung",      \* a window's thread does not answer
             "gone",      \* a window goes away
             "user",      \* the user holds a modifier, or goes to another window
             "cancel",    \* the paste's epoch ends
             "refuse",    \* Windows refuses a call
             "slow",      \* the save runs out of its budget
             "timer",     \* the executor's timer fails
             "stop"}      \* the executor stops, or dies

(* The formats of the clipboard: "drawn" stands for those the daemon does not *)
(* copy, "ansi" for those Windows makes from a text, "marks" for the markers  *)
(* of private content, "restored" for the daemon's own marker.                *)
Format == {"text", "rich", "drawn", "ansi", "marks", "restored", "added"}

ASSUME PasteAssumption ==
    /\ None \notin Window \cup {Other} \cup Nat /\ Other \notin Window \cup Nat
    /\ Copies \subseteq Seq(Format \ {"ansi", "restored", "added"})
    /\ Delays \cup {Settle} \subseteq Nat \ {0}
    /\ {ChainLimit, ModifierLimit, HungLimit, TargetRetry, RestoreLimit,
        ClosingLimit, MaxPastes, MaxMoves, MaxTime} \subseteq Nat
    /\ OpenBackoff \in Seq(Nat \ {0})
    /\ Environments \subseteq SUBSET Troubles

(* What the clipboard holds: the formats another program copied, with the     *)
(* number of the copy, or a phrase, with the number of its paste negated, or  *)
(* what the daemon put back; and the window that owns it.                     *)
Contents == [of : Int, formats : Seq(Format), owner : Nat \cup {Other}]
Original == [of : Int, formats : Seq(Format)]

(* Pending: the restore that waits.  Run: the paste that does.                *)
Pending ==
    [window : Nat, original : Original, written : SUBSET Format, restoreAt : Nat,
     hardLimit : Nat, target : Window \cup {None}, seenBusy : BOOLEAN, settled : BOOLEAN,
     due : BOOLEAN, retrySince : Nat \cup {None}, nextTry : Nat \cup {None}]
Run ==
    [window : Window \cup {None}, delay : Delays, live : BOOLEAN,
     chainSince : Nat \cup {None}, wentAhead : BOOLEAN, modifiersSince : Nat \cup {None},
     prechecked : BOOLEAN, tries : 0 .. Len(OpenBackoff), resume : Nat]

(* A paste keystroke: the paste, and when its window handles it at the latest.*)
Keystroke ==
    [paste : Nat, window : Window, sent : Nat, delay : Delays, by : Nat]

(* How long the executor that ends tries on, and when next.                   *)
Ending == [until : Nat, next : Nat]

ASSUME NoneAssumption == None \notin Pending \cup Run \cup Ending

VARIABLES
    env,         \* the troubles of this behaviour
    now,
    at,          \* what the executor does next
    ending,      \* Ending: when it gives up the restore and tries next, or None
    paste,       \* Run: the paste that waits or tries, or None
    fired,       \* how many pastes were fired
    pending,     \* PasteSession: the restore that waits, or None
    window,      \* PasteSession: the idle window of the next paste, or None
    lastWindow,  \* PasteSession: the window of the session that ended last, or None
    made,        \* the windows made, numbered
    registered,  \* Markers: the markers that Windows registered
    clipboard,   \* what the clipboard holds, and the window that owns it
    held,        \* another program has the clipboard open
    foreground,  \* the foreground window, or None
    modifier,    \* the user holds a modifier
    moves,       \* how much other programs and the user did
    busy,        \* the windows whose thread handles no message
    gone,        \* the windows that went away
    unread,      \* the paste keystrokes their windows have not handled
    left         \* history: the content other programs left on the clipboard, or
                 \* the phrase the daemon had to leave there

session == <<pending, window, lastWindow, made, registered>>
world   == <<clipboard, held, foreground, modifier, moves, busy, gone>>
vars == <<env, now, at, ending, paste, fired, session, world, unread, left>>


(* Whether a call that Windows can refuse is carried out.                     *)
Granted == {TRUE} \cup {FALSE : refused \in {"refuse"} \cap env}
-----------------------------------------------------------------------------
(* Content of the clipboard: where it came from and its formats, in order.    *)
(* A copy has a number above 0, the phrase of paste n is -n.                  *)
Content(of, formats, owner) == [of |-> of, formats |-> formats, owner |-> owner]

(* EnumClipboardFormats: with what Windows makes of a text.                   *)
Enumerated(formats) ==
    formats \o IF "text" \in ToSet(formats) THEN <<"ansi">> ELSE <<>>

(* Those of the formats that are in a set, in their order.                    *)
Only(formats, set) ==
    LET taken[i \in 0 .. Len(formats)] ==
            IF i = 0 THEN <<>>
            ELSE IF formats[i] \in set THEN Append(taken[i - 1], formats[i])
            ELSE taken[i - 1]
    IN  taken[Len(formats)]

(* classify, kept_formats: the formats that are copied.                       *)
Copied == Format \ {"drawn", "ansi", "marks", "restored"}
Kept(formats) == Only(formats, Copied)

(* save: private content is not copied, but the daemon's own copy is.         *)
IsPrivate_OwnToo(formats) == "marks" \in ToSet(formats)
IsPrivate(formats) == "marks" \in ToSet(formats) /\ "restored" \notin ToSet(formats)

(* The text is read first, whatever the time; another format may be too slow. *)
Reads(formats) ==
    {reads \in SUBSET ToSet(formats) : "slow" \in env \/ reads = ToSet(formats)}
SavedFormats_TextLate(formats, reads) == Only(Kept(formats), reads)
SavedFormats(formats, reads) == Only(Kept(formats), reads \cup {"text"})

(* What the restore puts back: "private" and "empty" originals empty the      *)
(* clipboard.                                                                 *)
Save(reads) ==
    [of      |-> clipboard.of,
     formats |-> IF IsPrivate(clipboard.formats) THEN <<>>
                 ELSE SavedFormats(Enumerated(clipboard.formats), reads)]

Marked == Only(<<"marks", "restored">>, registered)

(* Pending: the restore from the EmptyClipboard of the paste on.              *)
NewPending(w, original) ==
    [window |-> w, original |-> original,
     written |-> {"text"} \cup (registered \ {"restored"}),
     restoreAt |-> now, hardLimit |-> now, target |-> None, seenBusy |-> FALSE,
     settled |-> FALSE, due |-> FALSE, retrySince |-> None, nextTry |-> None]
Renewed(p) == NewPending(p.window, p.original)

(* foreign_format_present, still_ours: the clipboard holds the phrase.        *)
StillOurs_OwnerOnly == clipboard.owner = pending.window
StillOurs ==
    /\ clipboard.owner = pending.window
    /\ ToSet(Enumerated(clipboard.formats)) \subseteq pending.written \cup {"ansi"}

(* put_back, over the present content: what was saved, and the markers; or    *)
(* less where Windows refuses to empty the clipboard or to take a format.     *)
PutBack(p, present) ==
    LET back(formats) == Content(p.original.of, formats, p.window)
        saved == p.original.formats
    IN  {back(IF saved = <<>> THEN <<>> ELSE saved \o Marked)}
            \cup {c \in {present, back(<<>>)} : "refuse" \in env}

(* create_window, and end_session with the idle window of the next paste.     *)
MakeWindow ==
    \/ made' = made + 1 /\ window' = made + 1
    \/ "refuse" \in env /\ UNCHANGED <<made, window>>
EndSession(exit) ==
    /\ pending' = None
    /\ lastWindow' = pending.window
    /\ IF exit \/ window # None THEN UNCHANGED <<made, window>> ELSE MakeWindow
    /\ UNCHANGED registered
-----------------------------------------------------------------------------
(* next: when the session is polled again, and with it the paste that waits.  *)
SessionNext ==
    IF pending = None THEN {}
    ELSE IF pending.due /\ pending.nextTry # None THEN {pending.nextTry}
    ELSE {pending.restoreAt}
Deadlines == SessionNext \cup {paste.resume : on \in {paste} \ {None}}
Expired == \E deadline \in Deadlines : deadline <= now

(* What a thread makes of a WM_NULL: a busy one does not answer, or answers   *)
(* late, when it is done; a window that went away is no thread's.             *)
Responds(w) ==
    IF w \in gone THEN {"gone"} ELSE IF w \in busy THEN {"silent", "late"} ELSE {"answered"}

(* A thread that is done handles the keystroke queued for it within Settle,   *)
(* and one that was never busy within the delay its phrase asks for.          *)
Done(w) ==
    /\ busy' = busy \ {w}
    /\ unread' =
         {IF u.window = w THEN [u EXCEPT !.by = now + Settle - 1] ELSE u : u \in unread}

(* The poll: a paste that was cancelled is dropped, and the session decides   *)
(* whether its restore is due (tick).                                         *)
NotDecided ==
    /\ pending # None => pending.due \/ now < pending.restoreAt
    /\ UNCHANGED <<pending, busy, unread>>
DecideAtOnce ==
    /\ pending # None /\ ~pending.due /\ now >= pending.restoreAt
    /\ pending.target = None \/ now >= pending.hardLimit
    /\ pending' = [pending EXCEPT !.due = TRUE]
    /\ UNCHANGED <<busy, unread>>

(* The target answered: a busy one is given Settle once.                      *)
AnsweredBy_NoSettle(probe) == [pending EXCEPT !.due = TRUE]
AnsweredBy(probe) ==
    LET seen == pending.seenBusy \/ probe = "late" IN
    IF seen /\ ~pending.settled
    THEN [pending EXCEPT !.seenBusy = TRUE, !.settled = TRUE,
                         !.restoreAt = Min({now + Settle, pending.hardLimit})]
    ELSE [pending EXCEPT !.seenBusy = seen, !.due = TRUE]
Probed(probe) ==
    CASE probe = "gone" -> [pending EXCEPT !.due = TRUE]
      [] probe = "silent" ->
           [pending EXCEPT !.seenBusy = TRUE,
                           !.restoreAt = Min({now + TargetRetry, pending.hardLimit})]
      [] OTHER -> AnsweredBy(probe)
DecideByProbe ==
    /\ pending # None /\ ~pending.due /\ now >= pending.restoreAt
    /\ pending.target # None /\ now < pending.hardLimit
    /\ \E probe \in Responds(pending.target) :
         /\ pending' = Probed(probe)
         /\ IF probe = "late" THEN Done(pending.target) ELSE UNCHANGED <<busy, unread>>

Poll ==
    /\ at = "idle" /\ ending = None
    /\ Expired \/ (paste # None /\ ~paste.live)
    /\ NotDecided \/ DecideAtOnce \/ DecideByProbe
    /\ paste' = IF paste # None /\ ~paste.live THEN None ELSE paste
    /\ at' = IF paste' # None /\ paste.resume <= now THEN "advance" ELSE "restore"
    /\ UNCHANGED <<env, now, ending, fired, window, lastWindow, made, registered,
                   clipboard, held, foreground, modifier, moves, gone, left>>
-----------------------------------------------------------------------------
(* A try of the paste (advance): over, or waiting until a time.               *)
Over == paste' = None /\ at' = "restore"
WaitUntil(p, time) == paste' = [p EXCEPT !.resume = time] /\ at' = "restore"

Since(time) == IF time = None THEN now ELSE time

(* It waits for the restore of the paste before it, at most ChainLimit, and   *)
(* then for the modifiers, at most ModifierLimit.                             *)
Behind == pending # None /\ ~pending.due /\ ~paste.wentAhead
Patience == Since(paste.chainSince) + ChainLimit
Begun ==
    [paste EXCEPT !.window = IF @ = None THEN foreground ELSE @,
                  !.chainSince = IF Behind THEN Since(@) ELSE @,
                  !.wentAhead = @ \/ (Behind /\ now >= Patience)]

AdvanceNowhere == Begun.window = None /\ Over
AdvanceBehind ==
    /\ Begun.window # None /\ Behind /\ now < Patience
    /\ WaitUntil(Begun, Min({pending.restoreAt, Patience}))
AdvanceModifier ==
    /\ Begun.window # None /\ (Behind => now >= Patience) /\ modifier
    /\ LET since == Since(paste.modifiersSince) IN
       IF now - since >= ModifierLimit THEN Over
       ELSE WaitUntil([Begun EXCEPT !.modifiersSince = since], now + 1)

(* Then it goes on if remapping is still on and the window is the same.       *)
AdvanceOn ==
    /\ Begun.window # None /\ (Behind => now >= Patience) /\ ~modifier
    /\ IF paste.live /\ foreground = Begun.window
       THEN paste' = Begun /\ at' = "open"
       ELSE Over

Advance ==
    /\ at = "advance"
    /\ AdvanceNowhere \/ AdvanceBehind \/ AdvanceModifier \/ AdvanceOn
    /\ UNCHANGED <<env, now, ending, fired, session, world, unread, left>>

(* The window of a fresh paste, and the probe of the clipboard's owner.       *)
OpenWindow ==
    /\ pending = None /\ window = None
    /\ MakeWindow
    /\ IF window' = None THEN Over ELSE UNCHANGED <<paste, at>>
    /\ UNCHANGED <<pending, lastWindow, registered, clipboard>>
OwnerHangs ==
    /\ pending = None /\ window # None /\ ~paste.prechecked
    /\ IF clipboard.owner = Other /\ "hung" \in env /\ Other \in busy THEN Over
       ELSE paste' = [paste EXCEPT !.prechecked = TRUE] /\ UNCHANGED at
    /\ UNCHANGED <<session, clipboard>>

Ready == pending # None \/ (window # None /\ paste.prechecked)

(* Another program has the clipboard open.                                    *)
OpenBusy ==
    /\ Ready /\ held
    /\ IF paste.tries < Len(OpenBackoff)
       THEN WaitUntil([paste EXCEPT !.tries = @ + 1], now + OpenBackoff[paste.tries + 1])
       ELSE Over
    /\ UNCHANGED <<session, clipboard>>

(* set_phrase, on a clipboard just emptied for p: the phrase and its markers, *)
(* or the original again if Windows refuses the text.                         *)
Phrase(p) == Content(-fired, <<"text">> \o Only(Marked, {"marks"}), p.window)
SetPhrase(p) ==
    \E granted \in Granted :
       IF granted
       THEN /\ pending' = Renewed(p) /\ clipboard' = Phrase(p)
            /\ at' = "send" /\ window' = None
            /\ UNCHANGED <<paste, lastWindow, made>>
       ELSE /\ clipboard' \in PutBack(p, Content(-fired, <<>>, p.window))
            /\ pending' = None /\ lastWindow' = p.window
            /\ \/ made' = made + 1 /\ window' = made + 1
               \/ window' = None /\ UNCHANGED made
            /\ Over

(* A chained paste takes the phrase before it over, and its original.         *)
OpenChained ==
    /\ pending # None /\ ~held /\ StillOurs
    /\ SetPhrase(pending)
    /\ UNCHANGED registered
OpenChanged ==
    /\ pending # None /\ ~held /\ ~StillOurs
    /\ EndSession(FALSE)
    /\ UNCHANGED <<paste, at, clipboard>>
OpenFresh ==
    /\ pending = None /\ Ready /\ ~held
    /\ \E reads \in Reads(Enumerated(clipboard.formats)) :
          SetPhrase(NewPending(window, Save(reads)))
    /\ UNCHANGED registered
OpenNotEmptied ==
    /\ "refuse" \in env /\ Ready /\ ~held /\ (pending # None => StillOurs)
    /\ Over
    /\ UNCHANGED <<session, clipboard>>

Open ==
    /\ at = "open"
    /\ \/ OpenWindow \/ OwnerHangs \/ OpenBusy
       \/ OpenChained \/ OpenChanged \/ OpenFresh \/ OpenNotEmptied
    /\ UNCHANGED <<env, now, ending, fired, held, foreground, modifier, moves, busy, gone,
                   unread, left>>

(* The clipboard is closed; the keystroke goes out if nothing changed.        *)
Unchanged == paste.live /\ foreground = paste.window /\ ~modifier

NotSent ==
    /\ ~Unchanged \/ "refuse" \in env
    /\ UNCHANGED <<pending, unread>>
Sent ==
    /\ Unchanged
    /\ pending' = [pending EXCEPT !.restoreAt = now + paste.delay, !.target = paste.window,
                                  !.hardLimit = now + Max({paste.delay, HungLimit})]
    /\ unread' = unread \cup
         {[paste |-> fired, window |-> paste.window, sent |-> now, delay |-> paste.delay,
           by |-> now + paste.delay - 1]}
Send ==
    /\ at = "send"
    /\ NotSent \/ Sent
    /\ Over
    /\ UNCHANGED <<env, now, ending, fired, window, lastWindow, made, registered, world, left>>
-----------------------------------------------------------------------------
(* try_restore: the original goes back if the clipboard still holds the       *)
(* phrase; the session ends unless another program has the clipboard open.    *)
TryRestore(exit) ==
    /\ ~held
    /\ clipboard' \in IF StillOurs THEN PutBack(pending, clipboard) ELSE {clipboard}
    /\ EndSession(exit)
    /\ UNCHANGED left

(* Another program keeps the clipboard open: the phrase is left on it.        *)
GivenUp(exit) == held /\ EndSession(exit) /\ left' = clipboard /\ UNCHANGED clipboard

(* One try, and no later one (restore_now, abandon).                          *)
Untouched == UNCHANGED <<session, clipboard, left>>
LastTry(exit) == IF pending = None THEN Untouched ELSE TryRestore(exit) \/ GivenUp(exit)

(* restore_if_due, the end of a poll.                                         *)
RestoreDue ==
    /\ pending # None
    /\ pending.due \/ (pending.target = None /\ now >= pending.restoreAt)
    /\ pending.nextTry # None => now >= pending.nextTry
RestoreTries == RestoreDue /\ TryRestore(FALSE)
GivesUp_AtFirst(since) == TRUE
GivesUp(since) == now - since >= RestoreLimit
RestoreBusy ==
    /\ RestoreDue /\ held
    /\ LET since == Since(pending.retrySince) IN
       IF GivesUp(since) THEN GivenUp(FALSE)
       ELSE /\ UNCHANGED <<clipboard, left>>
            /\ pending' = [pending EXCEPT !.due = TRUE, !.retrySince = since,
                                          !.nextTry = now + 1]
            /\ UNCHANGED <<window, lastWindow, made, registered>>

RestoreIfDue ==
    /\ at = "restore"
    /\ \/ RestoreTries
       \/ RestoreBusy
       \/ ~RestoreDue /\ Untouched
    /\ at' = "arm"
    /\ UNCHANGED <<env, now, ending, paste, fired, held, foreground, modifier, moves, busy,
                   gone, unread>>

(* The timer is set for the next deadline; if it cannot be, the paste that    *)
(* waits is dropped and the restore tried once (drop_timed, restore_now).     *)
Arm ==
    /\ at = "arm" /\ at' = "idle"
    /\ Untouched /\ UNCHANGED <<ending, paste>>
ArmFails ==
    /\ at = "arm" /\ "timer" \in env /\ Deadlines # {}
    /\ at' = "idle" /\ paste' = None /\ UNCHANGED ending
    /\ LastTry(FALSE)

(* A stop: the restore is due at once, and tried for ClosingLimit (close);    *)
(* where no wait can wake it again, once more as the thread ends (abandon).   *)
Stop ==
    /\ "stop" \in env /\ at = "idle" /\ ending = None
    /\ ending' = [until |-> now + ClosingLimit, next |-> now] /\ at' = "closing"
    /\ Untouched /\ UNCHANGED paste
Die ==
    /\ "stop" \in env /\ at \in {"idle", "closing"}
    /\ at' = "ending"
    /\ Untouched /\ UNCHANGED <<ending, paste>>
CloseRetried == now < ending.until
Close ==
    /\ at = "closing" /\ now >= ending.next
    /\ \/ /\ pending = None /\ at' = "ending"
          /\ Untouched /\ UNCHANGED ending
       \/ /\ pending # None /\ TryRestore(TRUE)
          /\ at' = "ending" /\ UNCHANGED ending
       \/ /\ pending # None /\ held /\ CloseRetried
          /\ ending' = [ending EXCEPT !.next = Min({now + 1, ending.until})]
          /\ Untouched /\ UNCHANGED at
       \/ /\ pending # None /\ ~CloseRetried
          /\ at' = "ending" /\ GivenUp(TRUE) /\ UNCHANGED ending
    /\ UNCHANGED paste
Abandon ==
    /\ at = "ending" /\ at' = "ended"
    /\ paste' = None /\ UNCHANGED ending
    /\ LastTry(TRUE)

Executor ==
    /\ Arm \/ ArmFails \/ Stop \/ Die \/ Close \/ Abandon
    /\ UNCHANGED <<env, now, fired, held, foreground, modifier, moves, busy, gone, unread>>
-----------------------------------------------------------------------------
(* Other programs and the user, whenever the daemon has the clipboard closed. *)
(* A content another program leaves is the user's from then on.               *)
Copy ==
    /\ "copy" \in env
    /\ \/ \E formats \in Copies : clipboard' = Content(moves + 1, formats, Other)
       \/ /\ "added" \notin ToSet(clipboard.formats)
          /\ clipboard' = [clipboard EXCEPT !.formats = Append(@, "added")]
    /\ left' = clipboard'
    /\ UNCHANGED <<held, foreground, modifier, busy, gone, unread, paste>>
Hold ==
    /\ "hold" \in env /\ ~held /\ held' = TRUE
    /\ UNCHANGED <<clipboard, foreground, modifier, busy, gone, unread, left, paste>>
Hang ==
    /\ "hung" \in env
    /\ \E w \in (Window \cup {Other}) \ busy :
         /\ \A u \in unread : u.window # w
         /\ busy' = busy \cup {w}
    /\ UNCHANGED <<clipboard, held, foreground, modifier, gone, unread, left, paste>>
Vanish ==
    /\ "gone" \in env
    /\ \E w \in Window \ gone :
         /\ gone' = gone \cup {w}
         /\ foreground' = IF foreground = w THEN None ELSE foreground
         /\ unread' = {u \in unread : u.window # w}
    /\ UNCHANGED <<clipboard, held, modifier, busy, left, paste>>
Act ==
    /\ "user" \in env
    /\ \/ ~modifier /\ modifier' = TRUE /\ UNCHANGED foreground
       \/ /\ foreground' \in (Window \cup {None}) \ (gone \cup {foreground})
          /\ UNCHANGED modifier
    /\ UNCHANGED <<clipboard, held, busy, gone, unread, left, paste>>
Cancel ==
    /\ "cancel" \in env /\ paste # None /\ paste.live
    /\ paste' = [paste EXCEPT !.live = FALSE]
    /\ UNCHANGED <<clipboard, held, foreground, modifier, busy, gone, unread, left>>
Others ==
    /\ moves < MaxMoves /\ moves' = moves + 1
    /\ Copy \/ Hold \/ Hang \/ Vanish \/ Act \/ Cancel
    /\ UNCHANGED <<env, now, at, ending, fired, session>>

Release ==
    /\ \/ held /\ held' = FALSE /\ UNCHANGED modifier
       \/ modifier /\ modifier' = FALSE /\ UNCHANGED held
    /\ UNCHANGED <<env, now, at, ending, paste, fired, session, clipboard, foreground, moves,
                   busy, gone, unread, left>>

(* A busy thread is done.  The session cannot know of one that is done, unasked, *)
(* so late that its keystroke is not handled before the restore: left out.    *)
InSight(w) ==
    pending # None /\ pending.target = w =>
        pending.seenBusy \/ now + Settle <= pending.restoreAt
Recover ==
    /\ \E w \in busy : /\ (\E u \in unread : u.window = w) => InSight(w)
                       /\ Done(w)
    /\ UNCHANGED <<env, now, at, ending, paste, fired, session, clipboard, held, foreground,
                   modifier, moves, gone, left>>

(* A window handles the keystroke, and reads the clipboard.                   *)
Handle ==
    /\ \E u \in unread : u.window \notin busy /\ unread' = unread \ {u}
    /\ UNCHANGED <<env, now, at, ending, paste, fired, session, world, left>>

Fire ==
    /\ at = "idle" /\ ending = None /\ paste = None /\ fired < MaxPastes
    /\ fired' = fired + 1
    /\ \E delay \in Delays :
         paste' = [window |-> None, delay |-> delay, live |-> TRUE, chainSince |-> None,
                   wentAhead |-> FALSE, modifiersSince |-> None, prechecked |-> FALSE,
                   tries |-> 0, resume |-> now]
    /\ UNCHANGED <<env, now, at, ending, session, world, unread, left>>

(* Time passes while the executor waits, and no window is late.               *)
Waits ==
    \/ at = "idle" /\ ~Expired /\ (paste # None => paste.live)
    \/ at = "closing" /\ now < ending.next
Tick ==
    /\ now < MaxTime /\ Waits
    /\ \A u \in unread : u.window \in busy \/ now < u.by
    /\ now' = now + 1
    /\ UNCHANGED <<env, at, ending, paste, fired, session, world, unread, left>>

Init ==
    /\ env \in Environments
    /\ now = 0 /\ at = "idle" /\ ending = None /\ paste = None /\ fired = 0
    /\ pending = None /\ window = None /\ lastWindow = None /\ made = 0
    /\ registered \in {{"marks", "restored"}} \cup {{} : no \in {"refuse"} \cap env}
    /\ clipboard \in {Content(0, formats, Other) : formats \in Copies}
    /\ held = FALSE /\ foreground \in Window /\ modifier = FALSE /\ moves = 0
    /\ busy = {} /\ gone = {} /\ unread = {}
    /\ left = clipboard

Next ==
    \/ Poll \/ Advance \/ Open \/ Send \/ RestoreIfDue \/ Executor
    \/ Others \/ Release \/ Recover \/ Handle \/ Fire \/ Tick

Spec == Init /\ [][Next]_vars
-----------------------------------------------------------------------------
TypeOK ==
    /\ env \in Environments /\ now \in 0 .. MaxTime
    /\ at \in {"idle", "advance", "open", "send", "restore", "arm",
               "closing", "ending", "ended"}
    /\ ending \in Ending \cup {None}
    /\ paste \in Run \cup {None} /\ fired \in 0 .. MaxPastes
    /\ pending \in Pending \cup {None}
    /\ pending # None =>
         /\ window = None /\ pending.window \in 1 .. made
         /\ pending.restoreAt <= pending.hardLimit
         /\ pending.seenBusy \/ pending.settled => pending.target # None
    /\ made \in Nat /\ registered \in SUBSET {"marks", "restored"}
    /\ window \in {None} \cup 1 .. made /\ lastWindow \in {None} \cup 1 .. made
    /\ {clipboard, left} \subseteq Contents
    /\ held \in BOOLEAN /\ modifier \in BOOLEAN
    /\ foreground \in (Window \ gone) \cup {None}
    /\ moves \in 0 .. MaxMoves
    /\ busy \subseteq Window \cup {Other} /\ gone \subseteq Window
    /\ unread \subseteq Keystroke

(* The user's content is back: every format that is copied, in its order, or  *)
(* at least the text where the save ran out of time; a private one is gone.   *)
Back(content) ==
    LET formats == Kept(content.formats)
        all     == Kept(left.formats)
    IN  /\ content.of = left.of
        /\ IF IsPrivate(left.formats) THEN content.formats = <<>>
           ELSE /\ formats = all \/ "slow" \in env
                /\ formats = Only(all, ToSet(formats))
                /\ "text" \in ToSet(all) => "text" \in ToSet(formats)

(* The phrase is on the clipboard for a bounded time (next), and when a paste *)
(* session ends, the clipboard has the user's content again, or what another  *)
(* program put there since; only a program that keeps it open for             *)
(* RestoreLimit, or as the executor ends, has the phrase left on it           *)
(* (restore_if_due, close, restore_now, abandon).                             *)
InTime == pending # None /\ ending = None => now <= pending.hardLimit + RestoreLimit

Outlasted ==
    held /\ \/ now >= pending.restoreAt + RestoreLimit
            \/ at \in {"closing", "ending"} \/ "timer" \in env

ComesBack ==
    /\ InTime
    /\ pending # None /\ pending' = None /\ "refuse" \notin env =>
          clipboard' = left \/ Back(clipboard') \/ Outlasted

(* The daemon replaces what another program left on the clipboard only when a *)
(* paste has just saved it (still_ours, save).                                *)
OnlySaved ==
    clipboard = left /\ clipboard' # clipboard /\ left' = left =>
       \/ pending = None /\ pending' # None /\ pending'.original.of = left.of
       \/ pending = None /\ "refuse" \in env

(* A window that handles the keystroke pastes the phrase it was sent for, or  *)
(* what another program copied since, unless it was busy for HungLimit, the   *)
(* next paste had waited ChainLimit for it, or the executor ended or lost its *)
(* timer (tick, advance, set_phrase).                                         *)
ReadsPhrase ==
    \A u \in unread \ unread' :
       \/ u.window \in gone'
       \/ clipboard.of = -u.paste
       \/ clipboard = left
       \/ now >= u.sent + Max({u.delay, HungLimit})
       \/ fired > u.paste /\ now >= u.sent + ChainLimit
       \/ env \cap {"stop", "timer"} # {}
=============================================================================
