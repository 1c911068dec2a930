------------------------------- MODULE Probe --------------------------------
(***************************************************************************)
(* The read-only probe of the game library (probe): initialisation by hand *)
(* or by the bootstrap, the sampler thread it starts and the shutdown that *)
(* waits for that thread for two seconds and no longer.                    *)
(*                                                                         *)
(* A call under the state lock is one step.  The bootstrap lock is held    *)
(* over several steps, the shutdown's wait among them, and a call by hand  *)
(* does not take it.  A session is one initialisation.                     *)
(***************************************************************************)
EXTENDS Integers, FiniteSets

CONSTANTS ProbeCallers,  \* threads that call the exports
          MaxSessions,   \* bound: initialisations
          MaxSamples     \* bound: samples a sampler takes

ASSUME ProbeAssumption ==
    MaxSessions \in Nat \ {0} /\ MaxSamples \in Nat /\ "free" \notin ProbeCallers

VARIABLES initState,   \* g_initialization_state: none, done or down
          initResult,  \* g_initialization_result
          verified,    \* g_verified_build holds a build
          session,     \* initialisations so far
          complete,    \* g_bootstrap_complete
          bootResult,  \* g_bootstrap_result
          lockedBy,    \* the holder of g_bootstrap_lock
          caller,      \* where each caller stands
          samplers,    \* running samplers: [of, samples]
          samplerOf,   \* g_sampler_thread: its session, 0 for null
          logOpen      \* g_log_file is open

initVars == <<initState, initResult, verified, session>>
bootstrapVars == <<complete, bootResult, lockedBy, caller>>
samplerVars == <<samplers, samplerOf>>
probeVars == <<initVars, bootstrapVars, samplerVars, logOpen>>

FreeLock == "free"
InitResults == {"Ok", "PinFailure", "LogFailure", "NotExactBuild"}

ProbeInit ==
    /\ initState = "none" /\ initResult = "NotInitialized" /\ verified = FALSE /\ session = 0
    /\ complete = FALSE /\ bootResult = "NotInitialized"
    /\ lockedBy = FreeLock /\ caller = [c \in ProbeCallers |-> "out"]
    /\ samplers = {} /\ samplerOf = 0 /\ logOpen = FALSE

Caller(c, from, to) == caller[c] = from /\ caller' = [caller EXCEPT ![c] = to]

\* The bootstrap ends with a result, under its lock, and gives the lock back.
Concludes(c, from, result) ==
    /\ Caller(c, from, "out") /\ lockedBy' = FreeLock
    /\ complete' = TRUE /\ bootResult' = result

\* InitializeProbe, when nothing is initialised: whatever comes out, the
\* state is done; the pin comes before the log, the log before the build.
Initialises ==
    /\ initState = "none" /\ session < MaxSessions
    /\ initState' = "done" /\ session' = session + 1
    /\ initResult' \in InitResults /\ verified' = (initResult' = "Ok")
    /\ logOpen' \in BOOLEAN /\ (logOpen => logOpen')
    /\ initResult' = "PinFailure" => logOpen' = logOpen
    /\ initResult' \in {"Ok", "NotExactBuild"} => logOpen'

----------------------------------------------------------------------------

\* K2VR_ProbeInitialize, by hand and without the bootstrap lock.
InitializeByHand(c) ==
    /\ caller[c] = "out" /\ Initialises
    /\ UNCHANGED <<bootstrapVars, samplerVars>>

\* BootstrapProbe takes its lock; a completed bootstrap returns at once.
BeginBootstrap(c) ==
    /\ lockedBy = FreeLock /\ ~complete /\ lockedBy' = c
    /\ Caller(c, "out", "initialise")
    /\ UNCHANGED <<initVars, complete, bootResult, samplerVars, logOpen>>

BootstrapInitialises(c) ==
    /\ \/ Initialises
       \/ initState # "none" /\ UNCHANGED <<initVars, logOpen>>
    /\ IF initResult' = "Ok"
         THEN Caller(c, "initialise", "snapshot") /\ UNCHANGED <<lockedBy, complete, bootResult>>
         ELSE Concludes(c, "initialise", initResult')
    /\ UNCHANGED samplerVars

\* RunReadOnlyProbe reads the state again.
TakeSnapshot(c) ==
    /\ IF initState = "done" /\ verified
         THEN Caller(c, "snapshot", "create") /\ UNCHANGED <<lockedBy, complete, bootResult>>
         ELSE Concludes(c, "snapshot", "NotInitialized")
    /\ UNCHANGED <<initVars, samplerVars, logOpen>>

CreateSampler(c) ==
    /\ \/ /\ Caller(c, "create", "report") /\ samplerOf' = session
          /\ samplers' = samplers \cup {[of |-> session, samples |-> 0]}
          /\ UNCHANGED <<lockedBy, complete, bootResult>>
       \/ Concludes(c, "create", "SamplerStartFailure") /\ UNCHANGED samplerVars
    /\ UNCHANGED <<initVars, logOpen>>

ReportBootstrap(c) ==
    /\ \E result \in {"Ok", "LogFailure"} : Concludes(c, "report", result)
    /\ UNCHANGED <<initVars, samplerVars, logOpen>>

----------------------------------------------------------------------------
(* ShutdownProbe.                                                          *)

BeginShutdown(c) ==
    /\ lockedBy = FreeLock /\ lockedBy' = c
    /\ Caller(c, "out", IF samplerOf = 0 THEN "closeLog" ELSE "wait")
    /\ initState' = "down" /\ initResult' = "NotInitialized" /\ verified' = FALSE
    /\ UNCHANGED <<session, complete, bootResult, samplerVars, logOpen>>

Running == \E s \in samplers : s.of = samplerOf

\* The wait sees the sampler's end.
StopObserved == ~Running

SamplerStopped(c) ==
    /\ Caller(c, "wait", "closeLog") /\ StopObserved
    /\ samplerOf' = 0
    /\ UNCHANGED <<initVars, complete, bootResult, lockedBy, samplers, logOpen>>

\* The wait times out, or fails: both handles stay, and so does the state.
SamplerStopTimesOut(c) ==
    /\ Concludes(c, "wait", "SamplerStopTimeout")
    /\ initResult' = "SamplerStopTimeout"
    /\ UNCHANGED <<initState, verified, session, samplerVars, logOpen>>

CloseLog(c) ==
    /\ Caller(c, "closeLog", "reset") /\ logOpen' = FALSE
    /\ UNCHANGED <<initVars, complete, bootResult, lockedBy, samplerVars>>

\* The state may be initialised by hand before the lock is given back.
ResetState(c) ==
    /\ Caller(c, "reset", "release")
    /\ initState' = "none" /\ initResult' = "NotInitialized"
    /\ UNCHANGED <<verified, session, complete, bootResult, lockedBy, samplerVars, logOpen>>

EndShutdown(c) ==
    /\ Caller(c, "release", "out") /\ lockedBy' = FreeLock
    /\ complete' = FALSE /\ bootResult' = "NotInitialized"
    /\ UNCHANGED <<initVars, samplerVars, logOpen>>

----------------------------------------------------------------------------
(* RunReadOnlySampler and the log lines of other threads.                  *)

\* The loop's bound.  Variant: one sample more.
MaySampleOnceMore(s) == s.samples <= MaxSamples

MaySample(s) == s.samples < MaxSamples

SampleCamera ==
    /\ initState = "done" /\ verified
    /\ \E s \in samplers : /\ MaySample(s)
                           /\ samplers' = (samplers \ {s}) \cup {[s EXCEPT !.samples = @ + 1]}
    /\ UNCHANGED <<initVars, bootstrapVars, samplerOf, logOpen>>

\* It ends after its samples, or when the state is not ready any more.
SamplerEnds ==
    /\ \E s \in samplers : /\ ~MaySample(s) \/ initState # "done" \/ ~verified
                           /\ samplers' = samplers \ {s}
    /\ UNCHANGED <<initVars, bootstrapVars, samplerOf, logOpen>>

\* AppendPersistentProbeLogLine of any hook opens the log when it is closed.
AppendLine ==
    /\ ~logOpen /\ logOpen' = TRUE
    /\ UNCHANGED <<initVars, bootstrapVars, samplerVars>>

ProbeNext ==
    \/ \E c \in ProbeCallers :
          \/ InitializeByHand(c) \/ BeginBootstrap(c) \/ BootstrapInitialises(c)
          \/ TakeSnapshot(c) \/ CreateSampler(c) \/ ReportBootstrap(c)
          \/ BeginShutdown(c) \/ SamplerStopped(c) \/ SamplerStopTimesOut(c)
          \/ CloseLog(c) \/ ResetState(c) \/ EndShutdown(c)
    \/ SampleCamera \/ SamplerEnds \/ AppendLine

ProbeSpec == ProbeInit /\ [][ProbeNext]_probeVars

----------------------------------------------------------------------------

\* Every variable of the probe has its type.
ProbeTypeOK ==
    /\ initState \in {"none", "done", "down"}
    /\ initResult \in InitResults \cup {"NotInitialized", "SamplerStopTimeout"}
    /\ {verified, complete, logOpen} \subseteq BOOLEAN
    /\ session \in 0..MaxSessions /\ samplerOf \in 0..MaxSessions
    /\ lockedBy \in ProbeCallers \cup {FreeLock}
    /\ samplers \subseteq [of : 1..MaxSessions, samples : 0..MaxSamples]

\* There is one sampler at most, its handle is kept as long as it runs, and
\* it belongs to the last initialisation: a sampler that outlived the wait of
\* a shutdown keeps every later initialisation and bootstrap out.
OneSampler ==
    /\ Cardinality(samplers) <= 1
    /\ \A s \in samplers : s.of = samplerOf /\ s.of = session /\ initState # "none"
    /\ Cardinality({c \in ProbeCallers : caller[c] # "out"}) <= 1
=============================================================================
