---------------------------- MODULE MovieChannel ----------------------------
(***************************************************************************)
(* The movie channel: the hooks on the game's movie decoder (bink_movie),  *)
(* the shared frame under a mutex (movie_frame) and the host's decision to *)
(* show the movie in its theatre (openxr_runtime).                         *)
(*                                                                         *)
(* The four import cells of the decoder are exchanged one after the other, *)
(* and a decoder call may run through a wrapper as soon as its cell is     *)
(* ours.  A copied picture is published under the mutex in several writes; *)
(* the game may die between any two of them, which abandons the mutex.     *)
(* A picture is two halves labelled with the number of its publication.    *)
(***************************************************************************)
EXTENDS Integers, FiniteSets

CONSTANTS Movies,          \* decoder handles
          MaxPublications, \* bound: publications
          MovieTimeout,    \* kMovieFrameTimeoutMs, in ticks of the clock
          MaxClock         \* bound: ticks of the clock

ASSUME MovieAssumption == {MaxPublications, MovieTimeout, MaxClock} \subseteq Nat

VARIABLES bink,        \* where InstallBinkMovieHooks stands
          binkCells,   \* the cells, in the order they are exchanged
          chained,     \* the originals of all four are remembered
          mutex,       \* who owns it: none, free, game, host or abandoned
          region,      \* the shared frame, NoRegion before it is mapped
          gameAlive,
          copyCall,     \* where each movie's copy call stands
          capturing,   \* capture_lock is held
          ending,      \* movies whose end still has to be told to the host
          activeMovie, \* active_movie
          hostOpen,    \* the host's channel has the mapping open
          kept,        \* movie_snapshot
          image,       \* movie_image
          theatre,     \* [on, at]: movie_was_active and when it was decided
          clock

installVars == <<bink, binkCells, chained>>
decoderVars == <<copyCall, capturing, ending, activeMovie, gameAlive>>
theatreVars == <<hostOpen, kept, image, theatre>>
movieVars == <<installVars, mutex, region, decoderVars, theatreVars, clock>>

BinkHooks == {"Copy", "Close", "Pause", "Summary"}
\* The cells are exchanged in this order, then the page is protected again.
AfterHook == [Copy |-> "Close", Close |-> "Pause", Pause |-> "Summary", Summary |-> "protect"]
NoMovie == "none"
NoRegion == [magic |-> 0, active |-> 0, seq |-> 0, tick |-> 0, halves |-> <<0, 0>>]
Publishing == {"locked", "blanked", "half", "painted", "stamped", "active"}

MovieInit ==
    /\ bink = "idle" /\ binkCells = [i \in BinkHooks |-> "original"] /\ chained = FALSE
    /\ mutex = "none" /\ region = NoRegion /\ gameAlive = TRUE
    /\ copyCall = [m \in Movies |-> "out"] /\ capturing = FALSE
    /\ ending = {} /\ activeMovie = NoMovie
    /\ hostOpen = FALSE
    /\ kept = [seq |-> 0, tick |-> 0] /\ image = [seq |-> 0, halves |-> <<0, 0>>]
    /\ theatre = [on |-> FALSE, at |-> 0] /\ clock = 0

----------------------------------------------------------------------------
(* InstallBinkMovieHooks.                                                  *)

Installing(from, to) == gameAlive /\ bink = from /\ bink' = to

\* The decoder validates and the four cells are the originals; the mutex is
\* created, then the mapping.
CreateMutex ==
    /\ Installing("idle", "mutex") /\ \A i \in BinkHooks : binkCells[i] = "original"
    /\ mutex' = "free"
    /\ UNCHANGED <<binkCells, chained, region, decoderVars, theatreVars, clock>>

CreateRegion ==
    /\ Installing("mutex", "mapped") /\ UNCHANGED <<mutex, region>>
    /\ UNCHANGED <<binkCells, chained, decoderVars, theatreVars, clock>>

\* The writer's first lock does not wait: a host that holds it, having opened
\* the mapping already, makes Open fail.
OpenWriter ==
    /\ \/ Installing("mapped", "Copy") /\ mutex = "free"
          /\ region' = [region EXCEPT !.magic = 1] /\ chained' = TRUE
       \/ Installing("mapped", "failed") /\ mutex = "host" /\ UNCHANGED <<region, chained>>
    /\ UNCHANGED <<binkCells, mutex, decoderVars, theatreVars, clock>>

\* The decoder is another build, a cell is not the original's, a call of the
\* system fails, or the cells' page cannot be unprotected.
InstallRefused ==
    /\ gameAlive /\ bink \in {"idle", "mutex", "Copy"} /\ bink' = "failed"
    /\ binkCells["Copy"] # "ours"
    /\ UNCHANGED <<binkCells, chained, mutex, region, decoderVars, theatreVars, clock>>

ExchangeBinkCell(i) ==
    /\ gameAlive /\ bink = i
    /\ \/ /\ binkCells[i] = "original" /\ binkCells' = [binkCells EXCEPT ![i] = "ours"]
          /\ bink' = AfterHook[i]
       \/ binkCells[i] # "original" /\ bink' = "undo" /\ UNCHANGED binkCells
    /\ UNCHANGED <<chained, mutex, region, decoderVars, theatreVars, clock>>

ProtectCells ==
    /\ gameAlive /\ bink = "protect" /\ bink' \in {"installed", "undo"}
    /\ UNCHANGED <<binkCells, chained, mutex, region, decoderVars, theatreVars, clock>>

\* Our own cells go back to the originals.
UndoCells == [i \in BinkHooks |-> IF binkCells[i] = "ours" THEN "original" ELSE binkCells[i]]

UndoInstall ==
    /\ Installing("undo", "failed") /\ binkCells' = UndoCells
    /\ UNCHANGED <<chained, mutex, region, decoderVars, theatreVars, clock>>

\* Another library patches one cell, ours or the original.
ForeignBinkCell(i) ==
    /\ gameAlive /\ bink \in BinkHooks \cup {"protect", "undo"}
    /\ \A j \in BinkHooks : binkCells[j] # "foreign"
    /\ binkCells' = [binkCells EXCEPT ![i] = "foreign"]
    /\ UNCHANGED <<bink, chained, mutex, region, decoderVars, theatreVars, clock>>

----------------------------------------------------------------------------
(* The decoder's wrappers: Copy, Close and Pause.                          *)

Copying(m, from, to) == gameAlive /\ copyCall[m] = from /\ copyCall' = [copyCall EXCEPT ![m] = to]

\* CaptureMovie tries its lock, and gives up when another copy has it.
BeginCopy(m) ==
    /\ Copying(m, "out", "reading") /\ binkCells["Copy"] = "ours" /\ ~capturing /\ capturing' = TRUE
    /\ region.seq < MaxPublications
    /\ UNCHANGED <<installVars, mutex, region, ending, activeMovie, gameAlive, theatreVars, clock>>

\* The pixels cannot be read, or the mutex is busy: nothing is published.
CopyGivesUp(m) ==
    /\ Copying(m, "reading", "out") /\ capturing' = FALSE
    /\ UNCHANGED <<installVars, mutex, region, ending, activeMovie, gameAlive, theatreVars, clock>>

LockRegion(m) ==
    /\ Copying(m, "reading", "locked") /\ mutex = "free" /\ mutex' = "game"
    /\ UNCHANGED <<installVars, region, capturing, ending, activeMovie, gameAlive, theatreVars,
                   clock>>

\* The frame is inactive while it is written.
Blank == region' = [region EXCEPT !.active = 0]

PublishMovie(m) ==
    /\ \/ Copying(m, "locked", "blanked") /\ Blank
       \/ Copying(m, "blanked", "half") /\ region' = [region EXCEPT !.halves[1] = region.seq + 1]
       \/ Copying(m, "half", "painted") /\ region' = [region EXCEPT !.halves[2] = region.seq + 1]
       \/ Copying(m, "painted", "stamped") /\ region' = [region EXCEPT !.tick = clock, !.seq = @ + 1]
       \/ Copying(m, "stamped", "active") /\ region' = [region EXCEPT !.active = 1]
    /\ UNCHANGED <<installVars, mutex, capturing, ending, activeMovie, gameAlive, theatreVars,
                   clock>>

UnlockRegion(m) ==
    /\ Copying(m, "active", "published") /\ mutex' = "free"
    /\ UNCHANGED <<installVars, region, capturing, ending, activeMovie, gameAlive, theatreVars,
                   clock>>

\* Only now is the movie known as the active one.
CopyReturns(m) ==
    /\ Copying(m, "published", "out") /\ activeMovie' = m /\ capturing' = FALSE
    /\ UNCHANGED <<installVars, mutex, region, ending, gameAlive, theatreVars, clock>>

\* Close, or Pause with a pause, ends the movie if it is the active one.
BeginEnd(m) ==
    /\ gameAlive /\ activeMovie = m /\ activeMovie' = NoMovie
    /\ \E i \in {"Close", "Pause"} : binkCells[i] = "ours"
    /\ ending' = ending \cup {m}
    /\ UNCHANGED <<installVars, mutex, region, copyCall, capturing, gameAlive, theatreVars, clock>>

\* EndMovie waits 50 ms for the mutex; when that is not enough the time
\* stamp ends the movie.
EndMovie(m) ==
    /\ gameAlive /\ m \in ending /\ ending' = ending \ {m}
    /\ \/ mutex = "free" /\ Blank
       \/ mutex # "free" /\ UNCHANGED region
    /\ UNCHANGED <<installVars, mutex, copyCall, capturing, activeMovie, gameAlive, theatreVars,
                   clock>>

\* The game dies; a mutex it held is abandoned.
GameDies ==
    /\ gameAlive /\ gameAlive' = FALSE
    /\ mutex' = IF mutex = "game" THEN "abandoned" ELSE mutex
    /\ UNCHANGED <<installVars, region, copyCall, capturing, ending, activeMovie, theatreVars,
                   clock>>

----------------------------------------------------------------------------
(* The host.                                                               *)

\* Retried every 100 ms until the mapping is there.
OpenReader ==
    /\ ~hostOpen /\ bink \notin {"idle", "mutex"} /\ mutex # "none" /\ hostOpen' = TRUE
    /\ UNCHANGED <<installVars, mutex, region, decoderVars, kept, image, theatre, clock>>

Fresh == region.magic = 1 /\ region.active = 1 /\ region.seq # 0
         /\ clock - region.tick \in 0..MovieTimeout

\* movie_active: a movie read now, or one shown before while the mutex is
\* busy and its frame has not expired.
Shows(read, k, i) ==
    /\ i.seq # 0
    /\ \/ read \in {"Fresh", "Unchanged"}
       \/ read = "Unavailable" /\ theatre.on /\ clock - k.tick \in 0..MovieTimeout

Dark == [on |-> FALSE, at |-> 0]

Decide(read, k, i) ==
    /\ kept' = k /\ image' = i
    /\ theatre' = IF Shows(read, k, i) THEN [on |-> TRUE, at |-> clock] ELSE Dark

\* The mutex is busy, or the channel is not open.
ReadUnavailable ==
    /\ ~hostOpen \/ mutex = "game"
    /\ Decide("Unavailable", kept, image)
    /\ UNCHANGED <<installVars, mutex, region, decoderVars, hostOpen, clock>>

\* An abandoned mutex is taken and given back, its frame not looked at.
ReadAbandoned ==
    /\ hostOpen /\ mutex = "abandoned" /\ mutex' = "free"
    /\ Decide("Inactive", kept, image)
    /\ UNCHANGED <<installVars, region, decoderVars, hostOpen, clock>>

LockReader ==
    /\ hostOpen /\ mutex = "free" /\ mutex' = "host"
    /\ UNCHANGED <<installVars, region, decoderVars, theatreVars, clock>>

ReadMovie ==
    /\ mutex = "host" /\ mutex' = "free"
    /\ \/ ~Fresh /\ Decide("Inactive", kept, image)
       \/ Fresh /\ region.seq = kept.seq /\ Decide("Unchanged", kept, image)
       \/ /\ Fresh /\ region.seq # kept.seq
          /\ Decide("Fresh", [seq |-> region.seq, tick |-> region.tick],
                    [seq |-> region.seq, halves |-> region.halves])
    /\ UNCHANGED <<installVars, region, decoderVars, hostOpen, clock>>

\* The host's shutdown closes the channel and forgets the movie.
CloseReader ==
    /\ hostOpen /\ mutex # "host" /\ hostOpen' = FALSE
    /\ kept' = [seq |-> 0, tick |-> 0] /\ image' = [seq |-> 0, halves |-> <<0, 0>>]
    /\ theatre' = Dark
    /\ UNCHANGED <<installVars, mutex, region, decoderVars, clock>>

Tick ==
    /\ clock < MaxClock /\ clock' = clock + 1
    /\ UNCHANGED <<installVars, mutex, region, decoderVars, theatreVars>>

----------------------------------------------------------------------------

MovieNext ==
    \/ CreateMutex \/ CreateRegion \/ OpenWriter \/ InstallRefused \/ ProtectCells
    \/ UndoInstall \/ GameDies \/ OpenReader \/ ReadUnavailable \/ ReadAbandoned
    \/ LockReader \/ ReadMovie \/ CloseReader \/ Tick
    \/ \E i \in BinkHooks : ExchangeBinkCell(i) \/ ForeignBinkCell(i)
    \/ \E m \in Movies :
          \/ BeginCopy(m) \/ CopyGivesUp(m) \/ LockRegion(m) \/ PublishMovie(m)
          \/ UnlockRegion(m) \/ CopyReturns(m) \/ BeginEnd(m) \/ EndMovie(m)

MovieSpec == MovieInit /\ [][MovieNext]_movieVars

----------------------------------------------------------------------------

\* Every variable of the hooks, the shared frame and the host has its type.
MovieTypeOK ==
    /\ bink \in BinkHooks \cup {"idle", "mutex", "mapped", "protect", "undo", "failed",
                              "installed"}
    /\ binkCells \in [BinkHooks -> {"original", "ours", "foreign"}]
    /\ {chained, capturing, gameAlive, hostOpen, theatre.on} \subseteq BOOLEAN
    /\ mutex \in {"none", "free", "game", "host", "abandoned"}
    /\ copyCall \in [Movies -> Publishing \cup {"out", "reading", "published"}]
    /\ ending \subseteq Movies /\ activeMovie \in Movies \cup {NoMovie}
    /\ clock \in 0..MaxClock

\* What the theatre shows is one publication, both halves of it, and when
\* the host decided to show it it was no older than the time-out: whatever
\* the game was doing when it died, and however the movie ended.
MovieShownWhole ==
    theatre.on =>
        /\ image.halves = <<image.seq, image.seq>>
        /\ theatre.at - kept.tick \in 0..MovieTimeout

\* An installation that failed leaves none of the four cells ours; a cell
\* that is ours has its original remembered and the channel open; and the
\* mutex is the game's exactly while one copy call publishes.
BinkAllOrNothing ==
    /\ bink = "failed" => \A i \in BinkHooks : binkCells[i] # "ours"
    /\ (\E i \in BinkHooks : binkCells[i] = "ours") => chained /\ region.magic = 1
    /\ gameAlive => (mutex = "game" <=> \E m \in Movies : copyCall[m] \in Publishing)
    /\ Cardinality({m \in Movies : copyCall[m] # "out"}) <= 1
=============================================================================
