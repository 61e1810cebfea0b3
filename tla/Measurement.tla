---------------------------- MODULE Measurement ----------------------------
(***************************************************************************)
(* From a request to the data on the disk: an acquisition is admitted,     *)
(* taken from the camera (in batches, in one gated sweep, or paced step by *)
(* step), corrected with a dark reference for its previews, saved file by  *)
(* file, reduced, and logged; a dark measurement also leaves a reference;  *)
(* a log entry can be run again, and a scheduled job has its entry before  *)
(* it is run.  Live frames, FLIM acquisitions and calibrations take turns  *)
(* with them.  Meanwhile the save path is changed, a stop is requested and *)
(* given up on, and the bridge restarts.                                   *)
(*                                                                         *)
(* Acquisition.tla has the instrument's states, the lock of the socket and *)
(* the stop handler in detail; here one exchange with the camera is one    *)
(* step, and what counts is the data.                                      *)
(***************************************************************************)
EXTENDS Requests, DarkReference, DataFiles, FiniteSets

CONSTANTS
  BATCH_SIZE,                            \* iterations per intensity command
  IntensityBodies, Raw1BitBodies, GatedBodies,   \* the bodies that are sent
  IntensityReferenceBodies, GatedReferenceBodies,
  FlimBodies, LiveBodies,
  ScheduledJobs,                         \* the jobs that are scheduled
  CalibrationKinds,                      \* the calibrations that are asked for
  Overrides,                             \* what a rerun changes
  SavePaths,                             \* the save paths that are set
  MaxRuns, MaxEvents                     \* bounds

CALIBRATION_KINDS == {"breakdown", "noise", "dead_pixel", "master_slave_offset"}

ASSUME MeasurementAssumption ==
  /\ BATCH_SIZE \in Nat \ {0}
  /\ SavePaths \subseteq Seq(STRING) /\ NoPath \notin SavePaths \cup LocalPaths
  /\ CalibrationKinds \subseteq CALIBRATION_KINDS
  /\ MaxRuns \in Nat /\ MaxEvents \in Nat

(* The route's model coerces the numbers of a body (calibration.py:169).    *)
ASSUME BodiesAssumption ==
  \A b \in GatedReferenceBodies :
    LET body == GatedReferenceBody(b)
    IN  body.iterations \in Int /\ body.gate_steps \in Int /\ Arbitrary(body) \in Seq(Int)

VARIABLES
  savePath,   \* DataLocation._save_path, in memory only
  busy,       \* the instrument is not idle
  stop,       \* its stop_requested
  stopping,   \* a /stop handler waits for the operation in flight
  runs,       \* the acquisitions admitted so far
  folders,    \* the acquisition folders on the disk
  refs,       \* the stored dark references
  log,        \* the experiment log
  jobs,       \* the entries of the jobs the scheduler waits to start, in memory only
  calibration,   \* CalibrationStore._entries: their states, in memory only
  events      \* how often the environment acted, for the bound

disk == <<folders, refs, log>>
vars == <<savePath, busy, stop, stopping, runs, disk, jobs, calibration, events>>

Saving == {"list", "make", "frames", "sidecar", "reduce"}
Underway == {"io", "boundary", "correct", "finish"} \cup Saving
PCs == Underway \cup {"answer", "over"}

Init ==
  /\ savePath = NoPath
  /\ busy = FALSE /\ stop = FALSE /\ stopping = FALSE
  /\ runs = <<>> /\ folders = [f \in {} |-> EmptyFolder] /\ refs = <<>> /\ log = <<>>
  /\ jobs = {} /\ calibration = [kind \in CalibrationKinds |-> "none"]
  /\ events = 0

(* The camera, the network or the disk lets the run down, or takes its time;*)
(* people and restarts interfere.                                           *)
Happens == events < MaxEvents /\ events' = events + 1

Paced(p) == p.mode = "gated" /\ p.cooloff > 0

-----------------------------------------------------------------------------
(* Admission.                                                               *)

(* The run that starts, with its reference resolved: one that cannot be is  *)
(* an error before any command is sent.                                     *)
NewRun(via, mode, body, p, entry) ==
  [via |-> via, mode |-> mode, body |-> body, params |-> p, entry |-> entry,
   pc |-> IF Resolvable(refs, p) THEN "io" ELSE "finish",
   status |-> IF Resolvable(refs, p) THEN "done" ELSE "error",
   reference |-> IF Resolvable(refs, p) THEN ResolveDarkReference(refs, p) ELSE NoReference,
   done |-> 0, wire |-> <<>>, stack |-> <<>>, view |-> <<>>,
   folder |-> NoFolder, made |-> FALSE, written |-> 0, shown |-> NoFolder, told |-> FALSE,
   beside |-> {r \in DOMAIN runs : runs[r].pc \in Underway}]

Takes(via, mode, body, p, entry) ==
  /\ ~busy /\ Len(runs) < MaxRuns
  /\ busy' = TRUE
  /\ runs' = Append(runs, NewRun(via, mode, body, p, entry))
  /\ UNCHANGED <<savePath, stop, stopping, folders, refs, events>>

Admit(via, mode, body, p, entry) ==
  Takes(via, mode, body, p, entry) /\ UNCHANGED <<log, jobs, calibration>>

acquire_intensity ==
  \E b \in IntensityBodies :
    /\ IntensityValid(IntensityBody(b))
    /\ Admit("route", "intensity", IntensityBody(b), IntensityParams(IntensityBody(b)), 0)

acquire_raw_1bit ==
  \E b \in Raw1BitBodies :
    /\ WidthAndIterationsValid(Raw1BitBody(b))
    /\ Admit("route", "raw1bit", Raw1BitBody(b), Raw1BitParams(Raw1BitBody(b)), 0)

acquire_gated ==
  \E b \in GatedBodies :
    /\ GatedValid(GatedBody(b))
    /\ Admit("route", "gated", GatedBody(b), GatedParams(GatedBody(b)), 0)

measure_intensity_dark_reference ==
  \E b \in IntensityReferenceBodies :
    /\ IntensityValid(IntensityReferenceBody(b))
    /\ Admit("reference", "intensity_dark_reference", IntensityReferenceBody(b),
             IntensityParamsOf(IntensityReferenceBody(b)), 0)

measure_gated_dark_reference ==
  \E b \in GatedReferenceBodies :
    /\ GatedReferenceValid(GatedReferenceBody(b))
    /\ Admit("reference", "gated_dark_reference", GatedReferenceBody(b),
             GatedParamsOf(GatedReferenceBody(b)), 0)

acquire_flim ==
  \E b \in FlimBodies :
    Admit("route", "flim", b, [mode |-> "flim", subsampling |-> Subsampling(b), dark |-> 0], 0)

(* A live frame is neither saved nor logged.                                *)
live_frame ==
  \E b \in LiveBodies :
    /\ IntensityValid(IntensityBody(b))
    /\ Admit("live", "intensity", IntensityBody(b), LiveParams(b), 0)

calibrate ==
  \E kind \in CalibrationKinds :
    /\ Takes("calibrate", kind, [x \in {} |-> 0],
             [mode |-> "calibration", kind |-> kind, dark |-> 0], 0)
    /\ calibration' = [calibration EXCEPT ![kind] = "running"]
    /\ UNCHANGED <<log, jobs>>

(* Every entry that is not a gated one is run as an intensity acquisition.  *)
ParamsOf(mode, body) == IF mode = "gated" THEN GatedParamsOf(body) ELSE IntensityParamsOf(body)

(* A rerun is logged whatever comes of it, a busy instrument included.      *)
rerun_entry ==
  \E e \in DOMAIN log, o \in Overrides :
    LET body == With(log[e].params, o)
    IN  \/ Admit("rerun", log[e].mode, body, ParamsOf(log[e].mode, body), e)
        \/ /\ busy /\ Len(log) < MaxRuns /\ Happens
           /\ log' = Append(log, [mode |-> log[e].mode, params |-> body, path |-> NoFolder,
                                  run |-> 0, state |-> "completed"])
           /\ UNCHANGED <<savePath, busy, stop, stopping, runs, folders, refs, jobs, calibration>>

ScheduledEntry(job) ==
  [mode |-> job.mode, params |-> job.params, path |-> NoFolder, run |-> 0, state |-> "scheduled"]

(* A job is in the log from the moment it is scheduled.                     *)
schedule_job ==
  /\ Happens /\ Len(log) < MaxRuns
  /\ \E job \in ScheduledJobs :
       log' = Append(log, ScheduledEntry(job))
  /\ jobs' = jobs \cup {Len(log) + 1}
  /\ UNCHANGED <<savePath, busy, stop, stopping, runs, folders, refs, calibration>>

(* Its time has come.  It does not wait for a busy instrument.              *)
StartJob(e) ==
  /\ jobs' = jobs \ {e}
  /\ \/ /\ Takes("schedule", log[e].mode, log[e].params, ParamsOf(log[e].mode, log[e].params), e)
        /\ log' = [log EXCEPT ![e].state = "running", ![e].run = Len(runs) + 1]
        /\ UNCHANGED calibration
     \/ /\ busy
        /\ log' = [log EXCEPT ![e].state = "failed"]
        /\ UNCHANGED <<savePath, busy, stop, stopping, runs, folders, refs, calibration, events>>

-----------------------------------------------------------------------------
(* Taking the data.                                                         *)

Goes(r, fields) == runs' = [runs EXCEPT ![r] = With(runs[r], fields)]

Advance(r, fields) ==
  /\ Goes(r, fields)
  /\ UNCHANGED <<savePath, busy, stop, stopping, disk, jobs, calibration, events>>

Fail(r, status) == Advance(r, [pc |-> "finish", status |-> status])

Broken(r, status) ==
  /\ Happens
  /\ Goes(r, [pc |-> "finish", status |-> status])
  /\ UNCHANGED <<savePath, busy, stop, stopping, disk, jobs, calibration>>

(* A payload of another length than expected is a protocol error.           *)
Received(r, data, frames, fields) ==
  LET p == runs[r].params
  IN  IF Len(data) = frames * BytesPerFrame(p.depth, p.width, p.pileup)
      THEN Advance(r, fields) ELSE Fail(r, "error")

IntensityExchange(r) ==
  LET p == runs[r].params
      left == p.iterations - runs[r].done
      n == IF left < BATCH_SIZE THEN left ELSE BATCH_SIZE
      data == HandleIntensity(r, IntensityCommand(p, n), p.pileup, runs[r].done)
  IN  /\ runs[r].pc = "io" /\ p.mode = "intensity"
      /\ Received(r, data, n,
           [wire |-> runs[r].wire \o data, done |-> runs[r].done + n,
            pc |-> IF p.iterations <= BATCH_SIZE THEN "correct" ELSE "boundary"])

GatedExchange(r) ==
  LET p == runs[r].params
      steps == EffectiveSteps(p)
      data == HandleGated(r, GatedCommand(p, steps, p.offset, p.dir, p.arbitrary # <<>>),
                          p.pileup, p.arbitrary)
  IN  /\ runs[r].pc = "io" /\ p.mode = "gated" /\ ~Paced(p)
      /\ Received(r, data, p.iterations * steps,
                  [wire |-> data, done |-> steps, pc |-> "correct"])

(* One step of a paced run; its frames are decoded at once.  A run without  *)
(* steps is over before the first.                                          *)
PacedExchange(r) ==
  LET p == runs[r].params
      offsets == Offsets(p)
      next == runs[r].done + 1
      data == HandleGated(r, GatedCommand(p, 1, offsets[next], "forward", FALSE), p.pileup, <<>>)
  IN  /\ runs[r].pc = "io" /\ Paced(p)
      /\ IF offsets = <<>> THEN Fail(r, "aborted")
         ELSE Received(r, data, p.iterations,
                [stack |-> runs[r].stack
                             \o DecodeIntensity(data, p.depth, Rows, p.iterations, p.pileup),
                 done |-> next, pc |-> IF next < Len(offsets) THEN "boundary" ELSE "correct"])

(* The raw counts of the gates, as text.                                    *)
FlimExchange(r) ==
  LET gates == DecodeFlim(HandleFlim(r, runs[r].params.subsampling))
  IN  /\ runs[r].pc = "io" /\ runs[r].params.mode = "flim"
      /\ Advance(r, [pc |-> "finish", done |-> Len(gates)])

(* A lost connection, an error answer, or, for intensity only, a timeout.   *)
ExchangeFails(r) ==
  /\ runs[r].pc = "io" /\ runs[r].params.mode # "calibration"
  /\ \/ Broken(r, "error")
     \/ runs[r].params.mode = "intensity" /\ Broken(r, "timeout")

(* Where a stop takes effect: after every batch, between two paced steps.   *)
Boundary(r) ==
  /\ runs[r].pc = "boundary"
  /\ Advance(r, IF stop THEN [pc |-> "correct", status |-> "aborted"]
                ELSE [pc |-> IF Paced(runs[r].params)
                                \/ runs[r].done < runs[r].params.iterations
                             THEN "io" ELSE "correct"])

-----------------------------------------------------------------------------
(* Correcting: decoding, and for a paced run the transposition to sweeps.   *)

SweepMajor(stack, iterations, steps) ==
  [k \in 1..(iterations * steps) |->
     stack[((k - 1) % steps) * iterations + ((k - 1) \div steps) + 1]]

Decoded(run) ==
  LET p == run.params
  IN  IF Paced(p) THEN SweepMajor(run.stack, p.iterations, run.done)
      ELSE DecodeIntensity(run.wire, p.depth, p.width,
             IF p.mode = "gated" THEN p.iterations * run.done ELSE run.done, p.pileup)

(* Mutant: it keeps it.                                                     *)
ReferenceKept(run) == run.reference

(* A sweep that was cut short goes without its reference.                   *)
ReferenceOf(run) ==
  IF Paced(run.params) /\ run.status = "aborted" /\ run.done # EffectiveSteps(run.params)
  THEN NoReference ELSE run.reference

Correct(r) ==
  LET stack == Decoded(runs[r])
      reference == ReferenceOf(runs[r])
  IN  /\ runs[r].pc = "correct"
      /\ IF reference # NoReference /\ ~Correctable(stack, reference)
         THEN Fail(r, "uncorrectable")
         ELSE Advance(r, [pc |-> IF runs[r].via = "live" THEN "finish" ELSE "list",
                          wire |-> <<>>, stack |-> stack, reference |-> reference,
                          view |-> IF reference = NoReference THEN <<>>
                                   ELSE apply_dark_correction(stack, reference)])

-----------------------------------------------------------------------------
(* Saving, in a worker thread.                                              *)

GateStepsOf(run) == IF run.params.mode = "gated" THEN run.done ELSE 0

List(r) ==
  /\ runs[r].pc = "list"
  /\ LET mode == runs[r].params.mode
         base == BaseDir(savePath)
     IN  Advance(r, [pc |-> "make",
                     folder |-> [base |-> base, mode |-> mode,
                                 number |-> NextNumber(DOMAIN folders, base, mode),
                                 name |-> runs[r].params.name]])

(* What happens to the folder of the run.                                   *)
Writes(r, content, fields) ==
  /\ folders' = [f \in DOMAIN folders \cup {runs[r].folder} |->
                  IF f = runs[r].folder THEN content ELSE folders[f]]
  /\ Goes(r, fields)
  /\ UNCHANGED <<savePath, busy, stop, stopping, refs, log, jobs, calibration, events>>

(* Mutant: the folder is taken for granted.                                 *)
MakeNothing(r) == runs[r].pc = "make" /\ Advance(r, [pc |-> "frames", made |-> TRUE])

(* A folder that exists is taken as it is.                                  *)
Make(r) ==
  /\ runs[r].pc = "make"
  /\ Writes(r, IF runs[r].folder \in DOMAIN folders THEN folders[runs[r].folder] ELSE EmptyFolder,
            [pc |-> "frames", made |-> TRUE])

MetadataOf(run) ==
  build_png_metadata(run.params, integration_time_unit(run.params.depth),
    IF run.params.mode = "gated" THEN run.params.iterations ELSE run.done,
    IF run.params.mode = "gated" THEN EffectiveSteps(run.params) ELSE 0)

WriteFrame(r) ==
  LET run == runs[r]
      k == run.written + 1
      file == ImageFile(run.stack[k], k - 1, run.params.depth, GateStepsOf(run))
      folder == folders[run.folder]
  IN  /\ run.pc = "frames"
      /\ Writes(r, [folder EXCEPT
                      !.images = IF k <= Len(@) THEN [@ EXCEPT ![k] = file] ELSE Append(@, file),
                      !.meta = IF k = 1 THEN MetadataOf(run) ELSE @],
                [written |-> k, pc |-> IF k < Len(run.stack) THEN "frames" ELSE "sidecar"])

(* The sidecar, and the path the client will be told.                       *)
WriteSidecar(r) ==
  /\ runs[r].pc = "sidecar"
  /\ Writes(r, [folders[runs[r].folder] EXCEPT
                  !.sidecar = [params |-> SidecarParams(runs[r].params), frames |-> runs[r].written,
                               corrected |-> runs[r].reference # NoReference,
                               calibration |-> calibration]],
            [shown |-> DisplayPath(savePath, runs[r].folder),
             pc |-> IF runs[r].params.reducer THEN "reduce" ELSE "finish"])

Reduce(r) ==
  /\ runs[r].pc = "reduce"
  /\ Writes(r, [folders[runs[r].folder] EXCEPT !.movie = reduce_folder(folders[runs[r].folder])],
            [pc |-> "finish"])

(* The disk is full, the directory is gone: the exception ends the request. *)
SaveFails(r) == runs[r].pc \in Saving /\ Broken(r, "raised")

-----------------------------------------------------------------------------
(* Ending.                                                                  *)

(* A route logs what is done or aborted; a rerun logs whatever comes back;  *)
(* the entry of a job learns of every end.                                  *)
Logged(run) ==
  CASE run.via = "route" -> run.status \in {"done", "aborted"}
    [] run.via = "rerun" -> run.status # "raised"
    [] run.via = "reference" -> run.status = "done"
    [] run.via = "live" -> FALSE
    [] run.via = "schedule" -> TRUE

Over == [pc |-> "over", wire |-> <<>>, stack |-> <<>>, view |-> <<>>, reference |-> NoReference]

Entry(r, path) ==
  [mode |-> runs[r].mode, params |-> runs[r].body, path |-> path, run |-> r, state |-> "completed"]

(* What the log says of a run that is over, or of one still running.        *)
LogWith(r, path) ==
  IF runs[r].via # "schedule" THEN Append(log, Entry(r, path))
  ELSE [log EXCEPT ![runs[r].entry].path = IF runs[r].status = "raised" THEN @ ELSE path,
                   ![runs[r].entry].state =
                     IF runs[r].status \in {"error", "uncorrectable", "raised"}
                     THEN "failed" ELSE "completed"]

(* An intensity request that outlasts its grace is told "running", and hears*)
(* nothing more: a route logs nothing, a rerun and a job without a path.    *)
Impatient(run) == run.params.mode = "intensity" /\ run.via \in {"route", "rerun", "schedule"}

LogOfRunning(r) ==
  IF runs[r].via = "route" THEN log
  ELSE IF runs[r].via = "rerun" THEN Append(log, Entry(r, NoFolder))
  ELSE [log EXCEPT ![runs[r].entry].state = "completed"]

GraceExpires(r) ==
  /\ Happens
  /\ runs[r].pc \in Underway /\ Impatient(runs[r]) /\ ~runs[r].told
  /\ Goes(r, [told |-> TRUE])
  /\ log' = LogOfRunning(r)
  /\ UNCHANGED <<savePath, busy, stop, stopping, folders, refs, jobs, calibration>>

Finish(r) ==
  /\ runs[r].pc = "finish"
  /\ busy' = FALSE /\ stop' = FALSE
  /\ Goes(r, IF Logged(runs[r]) /\ ~runs[r].told THEN [pc |-> "answer"] ELSE Over)
  /\ UNCHANGED <<savePath, stopping, disk, jobs, calibration, events>>

(* The instrument is idle, but unless it raised the operation still has to  *)
(* show its end: the grace may pass as late as that.                        *)
Answer(r) ==
  /\ runs[r].pc = "answer"
  /\ Goes(r, Over)
  /\ \/ log' = LogWith(r, runs[r].shown) /\ UNCHANGED events
     \/ /\ Impatient(runs[r]) /\ runs[r].status # "raised"
        /\ Happens /\ log' = LogOfRunning(r)
  /\ refs' = IF runs[r].via # "reference" THEN refs
             ELSE Save(refs, runs[r].params,
                    build_reference(runs[r].stack, runs[r].params.iterations,
                      IF runs[r].params.mode = "gated" THEN EffectiveSteps(runs[r].params) ELSE 1),
                    runs[r].shown)
  /\ UNCHANGED <<savePath, busy, stop, stopping, folders, jobs, calibration>>

(* A calibration is one command.                                            *)
CalibrationEnds(r) ==
  /\ runs[r].pc = "io" /\ runs[r].params.mode = "calibration"
  /\ \/ /\ Goes(r, Over)
        /\ calibration' = [calibration EXCEPT ![runs[r].params.kind] = "done"]
        /\ UNCHANGED events
     \/ /\ Goes(r, With(Over, [status |-> "error"]))
        /\ calibration' = [calibration EXCEPT ![runs[r].params.kind] = "failed"]
        /\ Happens
  /\ busy' = FALSE /\ stop' = FALSE
  /\ UNCHANGED <<savePath, stopping, disk, jobs>>

-----------------------------------------------------------------------------
(* The environment.                                                         *)

SetSavePath ==
  /\ Happens
  /\ \E path \in SavePaths \ {savePath} : savePath' = path
  /\ UNCHANGED <<busy, stop, stopping, runs, disk, jobs, calibration>>

(* Whoever asks for the state of the calibrations sets that of breakdown:   *)
(* the camera has done that one on its own when it is connected.            *)
calibration_status ==
  /\ Happens
  /\ "breakdown" \in CalibrationKinds
  /\ calibration' = [calibration EXCEPT !["breakdown"] = "done"]
  /\ UNCHANGED <<savePath, busy, stop, stopping, runs, disk, jobs>>

(* By the operator, whose request then waits.                               *)
RequestStop ==
  /\ Happens
  /\ stop' = TRUE
  /\ stopping' = TRUE
  /\ UNCHANGED <<savePath, busy, runs, disk, jobs, calibration>>

(* The /stop handler has waited long enough: whatever runs, it says idle.   *)
StopReturns ==
  /\ stopping
  /\ stopping' = FALSE
  /\ busy' = FALSE
  /\ stop' = IF busy THEN FALSE ELSE stop
  /\ UNCHANGED <<savePath, runs, disk, jobs, calibration, events>>

(* A restart: what was in memory is gone, what was on the disk is not.      *)
Crash ==
  /\ Happens
  /\ savePath' = NoPath
  /\ busy' = FALSE /\ stop' = FALSE /\ stopping' = FALSE
  /\ runs' = [r \in DOMAIN runs |->
                IF runs[r].pc = "over" THEN runs[r]
                ELSE With(runs[r], With(Over, [status |-> "lost"]))]
  /\ jobs' = {} /\ calibration' = [kind \in CalibrationKinds |-> "none"]
  /\ UNCHANGED disk

Request ==
  \/ acquire_intensity \/ acquire_raw_1bit \/ acquire_gated
  \/ acquire_flim \/ live_frame \/ calibrate
  \/ measure_intensity_dark_reference \/ measure_gated_dark_reference
  \/ rerun_entry \/ schedule_job

Step(r) ==
  \/ IntensityExchange(r) \/ GatedExchange(r) \/ PacedExchange(r) \/ FlimExchange(r)
  \/ CalibrationEnds(r) \/ ExchangeFails(r) \/ Boundary(r) \/ Correct(r)
  \/ List(r) \/ Make(r) \/ WriteFrame(r) \/ WriteSidecar(r) \/ Reduce(r) \/ SaveFails(r)
  \/ GraceExpires(r) \/ Finish(r) \/ Answer(r)

Next ==
  \/ Request
  \/ \E r \in DOMAIN runs : Step(r)
  \/ \E e \in jobs : StartJob(e)
  \/ SetSavePath \/ calibration_status \/ RequestStop \/ StopReturns \/ Crash

Spec == Init /\ [][Next]_vars

-----------------------------------------------------------------------------
(* Properties.                                                              *)

Run ==
  [via : {"route", "reference", "rerun", "schedule", "live", "calibrate"},
   status : {"done", "aborted", "error", "timeout", "raised", "uncorrectable", "lost"},
   pc : PCs]

(* The types of the state; no more runs than the bound, a file for each     *)
(* frame written, references and entries of runs that were admitted.        *)
TypeOK ==
  /\ savePath \in SavePaths \cup {NoPath}
  /\ busy \in BOOLEAN /\ stop \in BOOLEAN /\ stopping \in BOOLEAN
  /\ Len(runs) <= MaxRuns
  /\ \A r \in DOMAIN runs :
       /\ [via |-> runs[r].via, status |-> runs[r].status, pc |-> runs[r].pc] \in Run
       /\ runs[r].made => runs[r].folder \in DOMAIN folders
       /\ runs[r].pc \in {"frames", "sidecar", "reduce"} => runs[r].made
       /\ runs[r].beside \subseteq 1..(r - 1)
       /\ runs[r].via \in {"rerun", "schedule"} => runs[r].entry \in DOMAIN log
  /\ \A d \in DOMAIN refs : Len(refs[d].reference) > 0
  /\ \A e \in DOMAIN log :
       \/ log[e].run \in DOMAIN runs
       \/ log[e].run = 0 /\ log[e].state \in {"scheduled", "failed", "completed"}
  /\ \A e \in jobs : e \in DOMAIN log /\ log[e].state = "scheduled"
  /\ calibration \in [CalibrationKinds -> {"none", "running", "done", "failed"}]

(* Two runs in the same folder: the later one was admitted beside the       *)
(* other, which only a /stop that has given up waiting makes possible.      *)
Together(r, s) == r \in runs[s].beside \/ s \in runs[r].beside

(* Every run saves to a folder of its own, also after restarts, with other  *)
(* save paths and other names, beside folders left half written.            *)
(* (file_writer._next_acq_dir, data_location.base_dir)                      *)
OwnFolder ==
  \A r, s \in DOMAIN runs :
    r # s /\ runs[r].made /\ runs[s].made /\ runs[r].folder = runs[s].folder => Together(r, s)

Alone(r) ==
  runs[r].made /\ \A s \in DOMAIN runs : s # r /\ runs[s].made => runs[s].folder # runs[r].folder

(* What the vendor's own client shows of an exposure.                       *)
Truth(r, i, s) ==
  LET p == runs[r].params
      exposed == Expose(r, p.depth, p.width, p.pileup, i,
                        IF p.mode = "gated" THEN Offsets(p)[s + 1] ELSE 0)
      bytes == EncodeOne(exposed, p.depth, p.width, p.pileup)
  IN  IF p.mode = "gated" THEN VendorGatedImage(bytes, p.depth, p.pileup)
      ELSE VendorImage(bytes, p.depth, p.pileup)

(* The counts saved are those, except that pile-up corrected counts of few  *)
(* bits lose what does not fit into a byte.                                 *)
Shows(r, counts, i, s) ==
  LET p == runs[r].params
      truth == Truth(r, i, s)
  IN  counts = [px \in DOMAIN truth |->
                  IF p.pileup /\ p.depth <= 8 THEN truth[px] % 256 ELSE truth[px]]

(* Every file has the counts of the iteration and the gate step its text    *)
(* says, whether they came in batches, in one sweep or step by step, and    *)
(* the sidecar counts the files.  (commands, decoder, _acquire_io,          *)
(* _paced_gated_io, save_acquisition against cSPAD.py)  It says of a        *)
(* calibration that it is done only if it was (or the camera did it when it *)
(* was connected), and running only beside a stop that has given up.        *)
FilesAreMeasured ==
  \A r \in DOMAIN runs :
    Alone(r) =>
      LET folder == folders[runs[r].folder]
      IN  /\ \A k \in DOMAIN folder.images :
               Shows(r, folder.images[k].counts, folder.images[k].frame, folder.images[k].step)
          /\ folder.sidecar # <<>> =>
               /\ folder.sidecar.params = SidecarParams(runs[r].params)
               /\ folder.sidecar.frames = Len(folder.images)
               /\ runs[r].status = "done" =>
                    Len(folder.images) = folder.sidecar.params.iterations
                      * (IF runs[r].params.mode = "gated" THEN folder.sidecar.params.steps ELSE 1)
               /\ \A kind \in CalibrationKinds :
                    LET asked == {c \in DOMAIN runs : runs[c].mode = kind}
                    IN  /\ folder.sidecar.calibration[kind] = "done" =>
                             kind = "breakdown"
                               \/ \E c \in asked : /\ runs[c].status = "done"
                                                  /\ (c < r \/ Together(c, r))
                        /\ folder.sidecar.calibration[kind] = "running" =>
                             \E c \in asked : Together(c, r)

(* The reducer's movie, read as the analysis scripts read it, gives for     *)
(* each gate step the frames taken at that offset.                          *)
CurvesOf(r) ==
  LET folder == folders[runs[r].folder]
  IN  folder.movie # <<>> =>
        IF runs[r].params.mode = "gated"
        THEN \A s \in 0..(folder.meta.GateSteps - 1), i \in 1..folder.meta.Frames :
               /\ (i - 1) * folder.meta.GateSteps + s + 1 \in DOMAIN folder.movie
               /\ Shows(r, GateFrames(folder.meta, folder.movie, s)[i], i - 1, s)
        ELSE /\ Len(folder.movie) = folder.meta.Frames
             /\ \A i \in DOMAIN folder.movie : Shows(r, folder.movie[i], i - 1, 0)

GateStepsAsked(r) ==
  IF runs[r].params.mode = "gated" THEN EffectiveSteps(runs[r].params) ELSE runs[r].done

(* It does for every run that was not stopped half way through its steps    *)
(* (the text of the files then tells of more steps than were taken).        *)
CurvesAreMeasured ==
  \A r \in DOMAIN runs : Alone(r) /\ runs[r].done = GateStepsAsked(r) => CurvesOf(r)

(* Twice the dark count of a pixel: half the repeats are below, half above; *)
(* the mean of one or two.                                                  *)
IsDark(twice, counts) ==
  IF Len(counts) < 3 THEN twice * Len(counts) = 2 * FoldSeq(LAMBDA a, b : a + b, 0, counts)
  ELSE /\ 2 * Cardinality({i \in DOMAIN counts : 2 * counts[i] <= twice}) >= Len(counts)
       /\ 2 * Cardinality({i \in DOMAIN counts : 2 * counts[i] >= twice}) >= Len(counts)

(* What a run was taken with; a list of offsets overrules the number of     *)
(* gate steps.                                                              *)
Config(p) ==
  [k \in DOMAIN p \ {"iterations", "dark", "name", "reducer"} |->
     IF k = "steps" THEN EffectiveSteps(p) ELSE p[k]]

(* A corrected view is, to the nearest count and never below zero, the      *)
(* signal less the dark counts measured with the same configuration at the  *)
(* same gate offset, in every repeat; and no run fails for its correction.  *)
(* (_resolve_dark_reference, build_reference, apply_dark_correction)        *)
CorrectionFits ==
  \A r \in DOMAIN runs :
    /\ runs[r].status # "uncorrectable"
    /\ runs[r].view # <<>> =>
         LET steps == IF runs[r].params.mode = "gated" THEN runs[r].done ELSE 1
         IN  \E d \in DOMAIN runs :
               /\ runs[d].via = "reference"
               /\ Config(runs[d].params) = Config(runs[r].params)
               /\ \A k \in DOMAIN runs[r].view :
                    LET s == (k - 1) % steps
                        i == (k - 1) \div steps
                        repeats == [j \in 1..runs[d].params.iterations |-> Truth(d, j - 1, s)]
                        light == Truth(r, i, s)
                        dark == runs[r].reference[s + 1]
                    IN  \A px \in DOMAIN light :
                          LET exact == Clip(2 * light[px] - dark[px])
                              shown == 2 * runs[r].view[k][px]
                          IN  /\ IsDark(dark[px], [j \in DOMAIN repeats |-> repeats[j][px]])
                              /\ shown - exact \in {-1, 0, 1}

(* A path in the log leads to the folder its run saved, complete and with   *)
(* the parameters of the run, or nowhere: never to another run's data, and  *)
(* whatever the save path was when the run was saved, when it was logged    *)
(* and now, and from one entry only, that of its job if it was scheduled.   *)
(* (display_path, resolve, _record_acquisition, ExperimentLog.update)       *)
LoggedIsSaved ==
  \A e \in DOMAIN log :
    LET r == log[e].run
        found == Opened(DOMAIN folders, savePath, log[e].path)
    IN  found # NoFolder =>
          /\ found = runs[r].folder
          /\ Alone(r) => folders[found].sidecar # <<>>
                         /\ folders[found].sidecar.params = SidecarParams(runs[r].params)
          /\ \A f \in DOMAIN log \ {e} : log[f].path = log[e].path => ~Alone(r)

(* An intensity or gated entry that is run again without changes takes the  *)
(* same measurement: the same parameters, but for the name and the reducer. *)
(* So does the entry of a job that has been run.                            *)
(* (experiments.rerun_entry, _intensity_params, _gated_params)              *)
Essence(p) == [k \in DOMAIN p \ {"name", "reducer"} |-> p[k]]

RerunReproduces ==
  \A r \in DOMAIN runs :
    runs[r].via = "rerun" =>
      LET e == log[runs[r].entry]
      IN  e.mode \in {"intensity", "gated"} /\ e.run # 0 /\ runs[r].body = e.params =>
            Essence(runs[r].params) = Essence(runs[e.run].params)
=============================================================================
