----------------------------- MODULE ArbitrageScan -----------------------------
(***************************************************************************)
(* When the arbitrage scanner runs.  A listener task turns every event on  *)
(* the listings bus, and web handlers turn every change of settings, into  *)
(* one permit of a tokio Notify; ArbitrageDaemon takes the permit, lets    *)
(* the changes settle, scans all profiles and rests.  All of them write    *)
(* the status the dashboard shows.                                         *)
(*                                                                         *)
(* Time passes in ticks; a sleep takes at least the ticks asked for.       *)
(***************************************************************************)
EXTENDS Integers

CONSTANTS
    Capacity,      (* events the listings bus holds for the listener         *)
    Profiles,      (* player profiles a scan goes through                    *)
    Debounce,      (* ticks the daemon lets changes settle (30 seconds)      *)
    Frequency      (* ticks that pass at least between scans (2 minutes)     *)

ASSUME ScanAssumption ==
    /\ Capacity \in Nat \ {0}
    /\ Profiles \in Nat
    /\ Debounce \in Nat /\ Frequency \in Nat

VARIABLES
    queued,       (* events the bus holds for the listener                   *)
    overrun,      (* the bus has overwritten one of them: recv will say so   *)
    listener,     (* recv, mark, notify, or gone                             *)
    handler,      (* a web handler: none, or notify (it has marked)          *)
    permit,       (* the permit stored in Notify                             *)
    daemon,       (* idle, settling, scanning, resting                       *)
    left,         (* ticks of sleep left                                     *)
    elapsed,      (* ticks since the last scan started, up to Frequency      *)
    done,         (* profiles scanned                                        *)
    status,       (* ArbitrageScanStatus.phase                               *)
    unscanned     (* history: a change that no scan has started after        *)

scanVars == <<queued, overrun, listener, handler, permit, daemon, left, elapsed,
              done, status, unscanned>>

ScanInit ==
    /\ queued = 0 /\ overrun = FALSE
    /\ listener = "recv"
    /\ handler = "none"
    /\ permit = TRUE
    /\ daemon = "idle"
    /\ left = 0
    /\ elapsed = Frequency
    /\ done = 0
    /\ status = "idle"
    /\ unscanned = FALSE

-----------------------------------------------------------------------------
(* The listener task of main and the web handlers.                          *)

(* A slip: a full bus takes the event all the same.                         *)
OverfillsBus ==
    /\ queued' = IF listener = "gone" THEN queued ELSE queued + 1
    /\ unscanned' = TRUE
    /\ UNCHANGED <<overrun, listener, handler, permit, daemon, left, elapsed, done, status>>

(* Some task sends an event on the listings bus.                            *)
ListingsChange ==
    /\ IF listener = "gone" THEN UNCHANGED <<queued, overrun>>
       ELSE IF queued = Capacity THEN overrun' = TRUE /\ UNCHANGED queued
       ELSE queued' = queued + 1 /\ UNCHANGED overrun
    /\ unscanned' = TRUE
    /\ UNCHANGED <<listener, handler, permit, daemon, left, elapsed, done, status>>

ListenerReceives ==
    /\ listener = "recv" /\ ~overrun /\ queued > 0
    /\ queued' = queued - 1
    /\ listener' = "mark"
    /\ UNCHANGED <<overrun, handler, permit, daemon, left, elapsed, done, status, unscanned>>

(* while let Ok(..) = recv(): Lagged ends the task.                         *)
ListenerLags ==
    /\ listener = "recv" /\ overrun
    /\ listener' = "gone"
    /\ queued' = 0 /\ overrun' = FALSE
    /\ UNCHANGED <<handler, permit, daemon, left, elapsed, done, status, unscanned>>

ListenerMarks ==
    /\ listener = "mark"
    /\ status' = "queued"
    /\ listener' = "notify"
    /\ UNCHANGED <<queued, overrun, handler, permit, daemon, left, elapsed, done, unscanned>>

ListenerNotifies ==
    /\ listener = "notify"
    /\ permit' = TRUE
    /\ listener' = "recv"
    /\ UNCHANGED <<queued, overrun, handler, daemon, left, elapsed, done, status, unscanned>>

(* Settings were saved, or a refresh was asked for.                         *)
HandlerMarks ==
    /\ handler = "none"
    /\ status' = "queued"
    /\ handler' = "notify"
    /\ unscanned' = TRUE
    /\ UNCHANGED <<queued, overrun, listener, permit, daemon, left, elapsed, done>>

HandlerNotifies ==
    /\ handler = "notify"
    /\ permit' = TRUE
    /\ handler' = "none"
    /\ UNCHANGED <<queued, overrun, listener, daemon, left, elapsed, done, status, unscanned>>

(* update_profile notifies without marking.                                 *)
ProfileUpdated ==
    /\ permit' = TRUE
    /\ unscanned' = TRUE
    /\ UNCHANGED <<queued, overrun, listener, handler, daemon, left, elapsed, done, status>>

-----------------------------------------------------------------------------
(* The daemon.                                                              *)

Wake ==
    /\ daemon = "idle" /\ permit
    /\ permit' = FALSE
    /\ status' = "queued"
    /\ daemon' = "settling"
    /\ left' = Debounce
    /\ UNCHANGED <<queued, overrun, listener, handler, elapsed, done, unscanned>>

(* A slip: a permit stored meanwhile is taken as served by this scan, but   *)
(* is only thrown away when the scan ends.                                  *)
EndsForgetful(phase) ==
    /\ status' = phase
    /\ daemon' = "resting"
    /\ permit' = FALSE
    /\ left' = Frequency - elapsed
    /\ UNCHANGED <<queued, overrun, listener, handler, elapsed, done, unscanned>>

(* A slip: the rest is taken from the frequency without the scan.           *)
EndsHasty(phase) ==
    /\ status' = phase
    /\ daemon' = "resting"
    /\ left' = elapsed
    /\ UNCHANGED <<queued, overrun, listener, handler, permit, elapsed, done, unscanned>>

(* A slip: the status is left to the next scan.                             *)
EndsSilently(phase) ==
    /\ daemon' = "resting"
    /\ left' = Frequency - elapsed
    /\ UNCHANGED <<queued, overrun, listener, handler, permit, elapsed, done, status, unscanned>>

(* The scan is over; what is left of the two minutes is slept.              *)
Ends(phase) ==
    /\ status' = phase
    /\ daemon' = "resting"
    /\ left' = Frequency - elapsed
    /\ UNCHANGED <<queued, overrun, listener, handler, permit, elapsed, done, unscanned>>

(* The profiles are read and the status is set.                             *)
ScanStarts ==
    /\ daemon = "settling" /\ left = 0
    /\ daemon' = "scanning"
    /\ status' = "scanning"
    /\ elapsed' = 0
    /\ done' = 0
    /\ unscanned' = FALSE
    /\ UNCHANGED <<queued, overrun, listener, handler, permit, left>>

(* Reading the profiles fails: nothing was scanned.                         *)
ScanFailsAtOnce ==
    /\ daemon = "settling" /\ left = 0
    /\ status' = "failed"
    /\ daemon' = "resting"
    /\ elapsed' = 0
    /\ left' = Frequency
    /\ unscanned' = FALSE
    /\ UNCHANGED <<queued, overrun, listener, handler, permit, done>>

ScanProfile ==
    /\ daemon = "scanning" /\ done < Profiles
    /\ done' = done + 1
    /\ status' = "scanning"
    /\ UNCHANGED <<queued, overrun, listener, handler, permit, daemon, left, elapsed, unscanned>>

(* An error in one profile ends the scan for the profiles after it.         *)
ScanFails == daemon = "scanning" /\ done < Profiles /\ Ends("failed")

ScanCompletes == daemon = "scanning" /\ done = Profiles /\ Ends("complete")

Rested ==
    /\ daemon = "resting" /\ left = 0
    /\ daemon' = "idle"
    /\ UNCHANGED <<queued, overrun, listener, handler, permit, left, elapsed, done,
                   status, unscanned>>

ScanTick ==
    /\ left > 0 \/ elapsed < Frequency
    /\ left' = IF left > 0 THEN left - 1 ELSE 0
    /\ elapsed' = IF elapsed < Frequency THEN elapsed + 1 ELSE elapsed
    /\ UNCHANGED <<queued, overrun, listener, handler, permit, daemon, done, status, unscanned>>

Listener == ListenerReceives \/ ListenerLags \/ ListenerMarks \/ ListenerNotifies

Daemon == Wake \/ ScanStarts \/ ScanFailsAtOnce \/ ScanProfile \/ ScanFails
              \/ ScanCompletes \/ Rested

ScanNext ==
    \/ ListingsChange
    \/ Listener
    \/ HandlerMarks
    \/ HandlerNotifies
    \/ ProfileUpdated
    \/ Daemon
    \/ ScanTick

(* Tasks are scheduled and time passes; nobody has to change anything.      *)
ScanFairness ==
    /\ WF_scanVars(Listener)
    /\ WF_scanVars(HandlerNotifies)
    /\ WF_scanVars(Daemon)
    /\ WF_scanVars(ScanTick)

ScanSpec == ScanInit /\ [][ScanNext]_scanVars /\ ScanFairness

-----------------------------------------------------------------------------

(* Types, with the bus between the listing tasks and the listener inside    *)
(* its capacity, and a scan inside its profiles.                            *)
ScanTypeOK ==
    /\ queued \in 0 .. Capacity /\ overrun \in BOOLEAN
    /\ listener \in {"recv", "mark", "notify", "gone"}
    /\ handler \in {"none", "notify"}
    /\ permit \in BOOLEAN
    /\ daemon \in {"idle", "settling", "scanning", "resting"}
    /\ left \in Nat
    /\ elapsed \in 0 .. Frequency
    /\ done \in 0 .. Profiles
    /\ status \in {"idle", "queued", "scanning", "complete", "failed"}
    /\ unscanned \in BOOLEAN

(* "Limit frequency: run at most once every 2 minutes": however long a scan *)
(* takes and however it ends, the next one starts no sooner.                *)
ScansAreApart ==
    [][daemon = "settling" /\ daemon' # "settling" => elapsed = Frequency]_scanVars

(* No wakeup is lost: a change made while the daemon settles, scans or      *)
(* rests is followed by a scan that starts after it, as long as the         *)
(* listener lives.                                                          *)
ChangeIsScannedOrListenerGone == unscanned ~> ~unscanned \/ listener = "gone"

(* The status does not stay queued: a scan ends and says so, although the   *)
(* listener, a handler and the daemon all write the status.                 *)
QueuedIsResolved == status = "queued" ~> status \in {"complete", "failed"}

=============================================================================
