---------------------------- MODULE DecodeStaging ----------------------------
(***************************************************************************)
(* What a picture of DecodeRuntime is made of, and under which parameter   *)
(* sets it is decoded: vaRenderPicture stages buffers in the context,      *)
(* vaEndPicture builds the access unit and the codec's configuration and   *)
(* sends the latter only when it changed                                   *)
(* (vaapi_advc/advc_vaapi_decode_runtime.c).                               *)
(*                                                                         *)
(* A parameter set is a pair of an SPS and a PPS.  VA buffers are copied   *)
(* when they are rendered, so the table of buffers, which the client may   *)
(* fill as it likes, comes down to the choice of what is rendered; a       *)
(* buffer that is unknown, mapped or of the wrong shape changes nothing.   *)
(***************************************************************************)
EXTENDS DecodeRuntime

CONSTANTS Codecs,     \* the codecs a configuration may name
          ParamSets,  \* <<sps, pps>> of the streams
          Inband      \* ADVC_VAAPI_H264_INBAND_CONFIG_UPDATE: H.264 updates go in
                      \* front of the access unit

ASSUME StagingAssumption ==
    /\ Codecs \subseteq {"H264", "HEVC", "VP9"}
    /\ ParamSets \subseteq Nat \X Nat
    /\ Inband \in BOOLEAN

VARIABLES
    codec,   \* per context, the codec of its configuration
    staging, \* per context, what was rendered of the active picture
    config,  \* per context, last_config while it is configured
    unit,    \* the parameter sets of the picture vaEndPicture sends
    tuned    \* per context, the parameter sets its decoder took last

staged == <<codec, staging, config, unit, tuned>>
allvars == <<vars, staged>>

None == <<0, 0>>
InFrame == <<0, 1>>   \* VP9 has its parameters in the frame
NoUnit == [set |-> None, inband |-> FALSE]
Nothing == [picture |-> FALSE, iq |-> FALSE, slices |-> "none"]

StagingInit ==
    /\ Init
    /\ codec = [c \in Contexts |-> "none"]
    /\ staging = [c \in Contexts |-> Nothing]
    /\ config = [c \in Contexts |-> None]
    /\ unit = NoUnit
    /\ tuned = [c \in Contexts |-> None]
-----------------------------------------------------------------------------
(* vaRenderPicture, one buffer at a time: the loop stops at the first that *)
(* is refused and keeps what came before.                                  *)
RenderPictureParameters(c) ==
    /\ ~staging[c].picture
    /\ staging' = [staging EXCEPT ![c].picture = TRUE]

RenderIqMatrix(c) ==
    /\ ~staging[c].iq /\ codec[c] # "VP9"
    /\ staging' = [staging EXCEPT ![c].iq = TRUE]

(* A parameter group must be followed by its data; VP9 has one slice.      *)
append_slice_parameters(c) ==
    /\ staging[c].slices \in IF codec[c] = "VP9" THEN {"none"} ELSE {"none", "bound"}
    /\ staging' = [staging EXCEPT ![c].slices = "unbound"]

set_slice_data(c) ==
    /\ staging[c].slices = "unbound"
    /\ staging' = [staging EXCEPT ![c].slices = "bound"]

render_picture(c) ==
    /\ Unlocked /\ target[c] # NoSurface
    /\ \/ RenderPictureParameters(c) \/ RenderIqMatrix(c)
       \/ append_slice_parameters(c) \/ set_slice_data(c)
    /\ UNCHANGED <<vars, codec, config, unit, tuned>>
-----------------------------------------------------------------------------
(* reset_staging goes with every change of the target: vaBeginPicture and  *)
(* every way out of vaEndPicture and of the context.                       *)
reset_staging ==
    staging' = [c \in Contexts |->
                   IF target'[c] = target[c] THEN staging[c] ELSE Nothing]

Complete(c) == staging[c].picture /\ staging[c].slices = "bound"

SetsOf(c) == IF codec[c] = "VP9" THEN {InFrame} ELSE ParamSets

(* Which pictures may change the parameter sets, or come first.            *)
Acceptable(c, set, key) ==
    \/ key
    \/ codec[c] = "H264" /\ (config[c] # None => set[1] = config[c][1])
    \/ codec[c] # "H264" /\ set = config[c]

InFront(c, set) ==
    \/ codec[c] = "VP9"
    \/ codec[c] = "H264" /\ Inband /\ config[c] # None /\ set # config[c]

(* Mutant: an in-band update is committed when it is put in front.         *)
Committed_early(c, set) == [config EXCEPT ![c] = set]

(* In-band sets are committed only after the unit was queued.              *)
Committed(c, set) == config

EndPicture(c) ==
    /\ Complete(c)
    /\ end_picture(c)
    /\ \E set \in SetsOf(c), key \in BOOLEAN :
          /\ Acceptable(c, set, key)
          /\ unit' = [set |-> set, inband |-> InFront(c, set)]
          /\ ending'.stage = IF set # config[c] /\ ~InFront(c, set)
                             THEN "config" ELSE "reserve"
          /\ config' = Committed(c, set)
    /\ reset_staging
    /\ UNCHANGED <<codec, tuned>>

QueueConfig(c) ==
    /\ queue_config(c)
    /\ config' = [config EXCEPT ![c] = unit.set]
    /\ tuned' = [tuned EXCEPT ![c] = unit.set]
    /\ reset_staging
    /\ UNCHANGED <<codec, unit>>

QueueUnit(c) ==
    /\ queue_unit(c)
    /\ IF unit.inband
       THEN /\ config' = [config EXCEPT ![c] = unit.set]
            /\ tuned' = [tuned EXCEPT ![c] = unit.set]
       ELSE UNCHANGED <<config, tuned>>
    /\ unit' = NoUnit
    /\ reset_staging
    /\ UNCHANGED codec

(* The other steps of a vaEndPicture in progress.                          *)
Submitting(c) ==
    /\ \/ end_picture_refused(c) \/ queue_drains(c) \/ queue_drain_fails(c)
       \/ queue_fails(c) \/ reserve_surface_linear(c)
    /\ unit' = IF ending' = NotEnding THEN NoUnit ELSE unit
    /\ reset_staging
    /\ UNCHANGED <<codec, config, tuned>>
-----------------------------------------------------------------------------
CreateContext(c) ==
    /\ create_context(c)
    /\ \E k \in Codecs : codec' = [codec EXCEPT ![c] = k]
    /\ reset_staging
    /\ UNCHANGED <<config, unit, tuned>>

(* A context that goes takes its configuration and its decoder along.      *)
Gone ==
    /\ codec' = [c \in Contexts |-> IF session'[c] = 0 THEN "none" ELSE codec[c]]
    /\ config' = [c \in Contexts |-> IF session'[c] = 0 THEN None ELSE config[c]]
    /\ tuned' = [c \in Contexts |-> IF session'[c] = 0 THEN None ELSE tuned[c]]
    /\ reset_staging
    /\ UNCHANGED unit

(* What has to do with surfaces, outputs and the end of the stream alone.  *)
Elsewhere ==
    /\ \/ \E s \in Surfaces :
             create_surfaces(s) \/ destroy_surfaces(s) \/ sync_surface(s)
       \/ \E th \in Threads : begin_picture_synced(th) \/ begin_picture_resumes(th)
       \/ \E c \in Contexts :
             \/ \E s \in Surfaces :
                   begin_picture(c, s)
                   \/ \E th \in Threads : begin_picture_waits(th, c, s)
             \/ signal_eos(c) \/ progress_eos(c)
             \/ DecoderDrops(c) \/ ConnectionDies(c)
    /\ reset_staging
    /\ UNCHANGED <<codec, config, unit, tuned>>

StagingNext ==
    \/ runtime_destroy /\ Gone
    \/ \E c \in Contexts :
          \/ CreateContext(c) \/ (destroy_context(c) /\ Gone)
          \/ render_picture(c)
          \/ EndPicture(c) \/ QueueConfig(c) \/ QueueUnit(c) \/ Submitting(c)
    \/ Elsewhere

(* The fairness is that of DecodeRuntime: staging adds no wait.            *)
StagingSpec ==
    /\ StagingInit /\ [][StagingNext]_allvars
    /\ WF_vars(EndPictureMoves)
    /\ \A c \in Contexts : SF_vars(EosAnswers(c))
-----------------------------------------------------------------------------
(* A decoder takes every unit under the parameter sets of that unit,       *)
(* although they are sent only when they differ from the last ones, apart  *)
(* or in front of the unit, and either sending may fail: "Commit PPS state *)
(* only after the prefixed access unit was queued".                        *)
UnitMeetsItsConfig ==
    [][\A c \in Contexts :
         ~(decoder'[c] \subseteq decoder[c]) => tuned'[c] = unit.set]_allvars
=============================================================================
