------------------------------ MODULE Convert ------------------------------
(***************************************************************************)
(* The users of the encoders: a program that links the library, which sets *)
(* flags in its context and encodes events of its own (ctx.c), or convert  *)
(* (convert.c), which reads its options, runs a decoder, and encodes and   *)
(* prints each event the decoder hands to cbNewEvt.                        *)
(*                                                                         *)
(* The decoder is what IntDec, ApacheDec and JsonDec show of the three: it *)
(* hands over one event after another and returns a code.  Encoders is the *)
(* machine that runs when one of them is called.                           *)
(***************************************************************************)
EXTENDS Encoders

CONSTANTS Decoded,    \* events that decoders hand over
          Formats,    \* name lists that are given with -E
          MaxEvents   \* bound: events of one run of convert

ASSUME ConvertAssumption ==
  Decoded \subseteq Events /\ Formats \subseteq Seq(STRING) /\ MaxEvents \in Nat

VARIABLES
  step,             \* where main is, or "library" for a program of its own
  ctx,              \* ctx->flags, or None without a context
  encoder, encFmt,  \* the options -e and -E
  nr, cur,          \* how many events were handed over, the last one
  jobs,             \* encoders that are still to be called for it
  printed,          \* history: which event was printed in which format
  exit              \* the exit code, or None

options == <<encoder, encFmt>>
output  == <<nr, cur, jobs, printed>>
tool    == <<step, ctx, options, output, exit>>

\* what cbNewEvt calls for an event
Selected == IF encoder = "all" THEN <<"syslog", "json", "xml">> ELSE <<encoder>>

ConvertInit == /\ EncInit /\ step \in {"library", "start"}
               /\ ctx = None /\ encoder = "syslog" /\ encFmt = None
               /\ nr = 0 /\ cur = None /\ jobs = <<>> /\ printed = <<>> /\ exit = None

\* the process ends while no encoder runs
Stop(how, code) == /\ step' = how /\ exit' = code
                   /\ UNCHANGED <<encVars, options, output>>
errout == Stop("exited", 1) /\ UNCHANGED ctx
Abort  == Stop("crashed", None) /\ UNCHANGED ctx

Quiet(v) == UNCHANGED <<encVars, output, exit, v>>

initCtx == /\ step \in {"library", "start"} /\ ctx = None /\ ctx' = {}
           /\ step' = IF step = "start" THEN "options" ELSE step
           /\ Quiet(options)

----------------------------------------------------------------------------
(* A program of its own.  The flags are added to those that were set.      *)

setFlags(fl) == /\ step = "library" /\ pc = "client" /\ ctx # None
                /\ ctx' = ctx \cup fl /\ Quiet(<<step, options>>)

exitCtx == /\ step = "library" /\ pc = "client" /\ ctx # None
           /\ ctx' = None /\ Quiet(<<step, options>>)

\* only the JSON encoder looks at the flags
LibraryCalls == /\ step = "library" /\ ctx # None /\ EncNext
                /\ pc = "client" /\ enc' = "json" => flags' = ctx
                /\ UNCHANGED tool

----------------------------------------------------------------------------
(* main of convert: options, then the decoder.                             *)

\* no context, an unknown option, or a file that cannot be read
Refused == \/ step = "start" /\ errout
           \/ step = "options" /\ errout

ChooseEncoder(e) == /\ step = "options" /\ encoder' = e
                    /\ Quiet(<<step, ctx, encFmt>>)

\* the copy of the option may have no memory
ChooseFormat(list) == /\ step = "options" /\ encFmt' \in {list, None}
                      /\ Quiet(<<step, ctx, encoder>>)

setEncUltraCompact == /\ step = "options" /\ ctx' = ctx \cup {"ultra"}
                      /\ Quiet(<<step, options>>)

StartDecoder == /\ step = "options" /\ step' = "decoding"
                /\ Quiet(<<ctx, options>>)

\* The Apache decoder refuses its name list; without one it reads a NULL.
NameListFails == step = "options" /\ (errout \/ Abort)

Idle == step = "decoding" /\ pc = "client" /\ jobs = <<>>

\* the decoder calls cbNewEvt
HandOver(e) == /\ Idle /\ nr < MaxEvents
               /\ nr' = nr + 1 /\ cur' = e /\ jobs' = Selected
               /\ UNCHANGED <<encVars, step, ctx, options, printed, exit>>

DecoderDone == Idle /\ Stop("exited", 0) /\ ctx' = None

\* The message of the error may be missing: the decoder had no memory for it,
\* or it made none and errmsg was never set, so that anything may be there.
DecoderFails == Idle /\ (errout \/ Abort)

----------------------------------------------------------------------------
(* cbNewEvt: a call of an encoder for each job, whose code is ignored.     *)

CallEncoder ==
  /\ step = "decoding" /\ pc = "client" /\ jobs # <<>>
  /\ CASE Head(jobs) = "syslog" -> EncodeSyslog(cur)
       [] Head(jobs) = "json"   -> EncodeJSON(cur, ctx)
       [] Head(jobs) = "xml"    -> EncodeXML(cur)
       [] Head(jobs) = "csv"    -> encFmt # None /\ EncodeCSV(cur, encFmt)
  /\ UNCHANGED tool

\* the CSV encoder asserts that there is a format
NoFormat == /\ step = "decoding" /\ pc = "client" /\ jobs = <<"csv">> /\ encFmt = None
            /\ Abort

EncoderRuns == /\ step = "decoding" /\ (Append1 \/ AppendFails \/ Crash \/ Finish)
               /\ UNCHANGED tool

\* no string was made: one that was made may be empty, but then an append failed
NoOutput    == out = <<>> /\ r = "minus1" /\ fails = 0
EmptyOutput == NoOutput /\ enc = "csv"

\* Mutant of ShowOutput: an encoder that fails ends the callback.
ShowGivesUp ==
  /\ step = "decoding" /\ pc = "done" /\ Taken /\ (NoOutput => EmptyOutput)
  /\ printed' = Append(printed, [nr |-> nr, fmt |-> Head(jobs)])
  /\ jobs' = IF r = "nomem" THEN <<>> ELSE Tail(jobs)
  /\ UNCHANGED <<step, ctx, options, nr, cur, exit>>

\* what there is of the output is printed; the last job deletes the event
ShowOutput ==
  /\ step = "decoding" /\ pc = "done" /\ Taken /\ (NoOutput => EmptyOutput)
  /\ printed' = Append(printed, [nr |-> nr, fmt |-> Head(jobs)])
  /\ jobs' = Tail(jobs)
  /\ UNCHANGED <<step, ctx, options, nr, cur, exit>>

\* es_str2cstr reads a string that is NULL, or has no memory itself
ShowFails == step = "decoding" /\ pc = "done" /\ Abort

ConvertNext ==
  \/ initCtx \/ exitCtx \/ LibraryCalls
  \/ \E fl \in SUBSET {"ultra", "flat"} : setFlags(fl)
  \/ Refused \/ setEncUltraCompact \/ StartDecoder \/ NameListFails
  \/ \E e \in {"syslog", "json", "xml", "csv", "all"} : ChooseEncoder(e)
  \/ \E list \in Formats : ChooseFormat(list)
  \/ \E e \in Decoded : HandOver(e)
  \/ DecoderDone \/ DecoderFails
  \/ CallEncoder \/ NoFormat \/ EncoderRuns \/ ShowOutput \/ ShowFails

ConvertSpec == ConvertInit /\ [][ConvertNext]_<<encVars, tool>>

----------------------------------------------------------------------------
(* Properties.                                                             *)

(* convert prints each event that was decoded once in each format that was *)
(* chosen, in the order in which the decoder found them, with the context's *)
(* flags, and nothing else: also when an encoder failed on the way, and it *)
(* ends with 0 only after the last one (cbNewEvt, convert.c:71-131).       *)
PrintsEachOnce ==
  LET wanted(k) == [i \in DOMAIN Selected |-> [nr |-> k, fmt |-> Selected[i]]]
      left      == [i \in DOMAIN jobs |-> [nr |-> nr, fmt |-> jobs[i]]]
  IN  /\ printed \o left = FlattenSeq([k \in 1..nr |-> wanted(k)])
      /\ step = "decoding" /\ pc # "client" =>
           /\ event = cur /\ enc = Head(jobs)
           /\ enc = "json" => flags = ctx
      /\ step = "exited" /\ exit = 0 => jobs = <<>>
=============================================================================
