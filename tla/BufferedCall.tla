---------------------------- MODULE BufferedCall ----------------------------
(***************************************************************************)
(* The C functions that answer into a buffer of the caller's: the coinjoin *)
(* operations (wlcj), the observation of wallet facts (facts) and the      *)
(* signing of a planned spend (sign). A caller that does not know how much *)
(* room the answer takes asks, or tries, and calls again with what it was  *)
(* told. What the functions compute is modelled elsewhere; an answer here  *)
(* is the randomness it was made from, and has a size.                     *)
(***************************************************************************)
EXTENDS HashDrbg, Sequences, FiniteSets, SequencesExt, FiniteSetsExt

CONSTANTS
  Seeds,        \* bound: the entropy a caller may hand over, 0..n
  MaxBlocks,    \* bound: blocks one call draws
  MaxSize,      \* bound: the size of an answer and the capacity of a buffer
  MaxResponse,  \* WLCJ_MAX_RESPONSE_BYTES, MAX_RESPONSE_FRAME_BYTES
  MaxCalls      \* bound: calls of one caller

ASSUME CallAssumption ==
  /\ Seeds \subseteq Nat /\ IsFiniteSet(Seeds)
  /\ {MaxBlocks, MaxSize, MaxResponse, MaxCalls} \subseteq Nat

Entries == {"wlcj", "facts", "sign"}
Answers == {"wlcj", "facts"}   \* entries that report a length without a buffer

(* The checks a request passes before it is worked on, in order: what is   *)
(* wrong with it, and the status it then gets. The last ones stand for all *)
(* the refusals of the work itself, which leave buffers alone as well.     *)
Checks(entry) ==
  CASE entry = "wlcj" ->
         << <<"empty", "INVALID_FRAME">>, <<"long", "PAYLOAD_TOO_LARGE">>,
            <<"header", "INVALID_FRAME">>, <<"magic", "INVALID_FRAME">>,
            <<"abi", "UNSUPPORTED_ABI">>, <<"length", "INVALID_FRAME">>,
            <<"operation", "UNKNOWN_OP">>, <<"payload", "PAYLOAD_TOO_LARGE">>,
            <<"refused", "VALIDATION_FAILED">> >>
    [] entry = "facts" ->
         << <<"empty", "INVALID_ARGUMENT">>, <<"entropy", "INVALID_ARGUMENT">>,
            <<"long", "LIMIT_EXCEEDED">>, <<"zero epoch", "INVALID_ARGUMENT">>,
            <<"encoding", "INVALID_ENCODING">>, <<"epoch", "SOURCE_BINDING_MISMATCH">>,
            <<"other bytes", "INVALID_ENCODING">>, <<"refused", "OBSERVATION_REJECTED">> >>
    [] entry = "sign" ->
         << <<"empty", "INVALID_ARGUMENT">>, <<"long", "LIMIT_EXCEEDED">>,
            <<"entropy", "INVALID_ARGUMENT">>, <<"encoding", "INVALID_ENCODING">>,
            <<"descriptor", "INVALID_ARGUMENT">>, <<"refused", "PLAN_REJECTED">>,
            <<"signer", "SIGNER_REFUSED">> >>

VARIABLES
  entry,       \* the function called, and what is wrong with the request
  defect,
  draws,       \* the blocks it takes to work on the request
  sizes,       \* the size of an answer, by the first block it is made from
  cap,         \* the capacity of the buffer; zero is no buffer
  seed,        \* the entropy of this call
  calls,       \* calls begun
  pc,          \* where the call is
  rng,         \* the generator of the call
  stream,      \* the blocks drawn
  length,      \* what the caller's length holds
  buffer,      \* what its buffer holds: << >> if nothing was written
  status,      \* what the last call returned
  reported     \* the length the last call reported as too long, or zero

bufferVars == <<entry, defect, draws, sizes, cap, seed, calls, pc, rng, stream, length, buffer,
          status, reported>>

request == <<entry, defect, draws, sizes>>

Stale == MaxSize + 1   \* what a length holds that was never written

BufferInit ==
  /\ entry \in Entries
  /\ defect \in {"none"} \cup {Checks(entry)[i][1] : i \in DOMAIN Checks(entry)}
  /\ draws \in 0..MaxBlocks
  /\ sizes \in [0..Cardinality(Seeds) -> 1..MaxSize]
  /\ cap \in 0..MaxSize /\ seed \in Seeds
  /\ calls = 0 /\ pc = "idle" /\ rng = NewRng(seed) /\ stream = << >>
  /\ length = Stale /\ buffer = << >> /\ status = "none" /\ reported = 0

(* Slip: the generator goes on from where the last call left it.           *)
RngOfLastCall(s) == IF calls = 0 THEN NewRng(s) ELSE rng

RngOfCall(s) == NewRng(s)

(* The size of the answer made from the blocks drawn.                      *)
Size ==
  sizes[IF stream = << >> THEN 0
        ELSE (stream[1][1] + stream[1][2] + stream[1][3]) % (Cardinality(Seeds) + 1)]

(* A call enters: the two that answer queries clear the length first.      *)
Enter ==
  /\ pc = "idle" /\ calls < MaxCalls
  /\ calls' = calls + 1
  /\ length' = IF entry \in Answers THEN 0 ELSE length
  /\ buffer' = << >> /\ stream' = << >> /\ rng' = RngOfCall(seed)
  /\ pc' = "checks"
  /\ UNCHANGED <<request, cap, seed, status, reported>>

(* The checks a call fails. Signing wants a buffer where it wants entropy. *)
Failed ==
  {i \in DOMAIN Checks(entry) :
     \/ Checks(entry)[i][1] = defect
     \/ Checks(entry)[i][1] = "entropy" /\ entry = "sign" /\ cap = 0}

(* The first failed check ends the call.                                   *)
Check ==
  /\ pc = "checks"
  /\ IF Failed = {} THEN pc' = "work" /\ status' = status
     ELSE pc' = "ending" /\ status' = Checks(entry)[Min(Failed)][2]
  /\ UNCHANGED <<request, cap, seed, calls, rng, stream, length, buffer, reported>>

(* fill_bytes, a block at a time.                                          *)
DrawBlock ==
  /\ pc = "work" /\ Len(stream) < draws
  /\ stream' = Append(stream, Block(rng))
  /\ rng' = IF entry = "facts" THEN ReseedOrCount(rng) ELSE CountThenReseed(rng)
  /\ UNCHANGED <<request, cap, seed, calls, pc, length, buffer, status, reported>>

(* Slip: the length is published before the answer is known to be allowed. *)
PublishUnchecked ==
  /\ pc' = "published" /\ length' = Size /\ status' = status

(* The answer is complete: one too long for the interface is refused, any  *)
(* other has its length written.                                           *)
Publish ==
  IF entry \in Answers /\ Size > MaxResponse
  THEN /\ pc' = "ending" /\ length' = length
       /\ status' = IF entry = "wlcj" THEN "PAYLOAD_TOO_LARGE" ELSE "LIMIT_EXCEEDED"
  ELSE PublishUnchecked

Respond ==
  /\ pc = "work" /\ Len(stream) = draws
  /\ Publish
  /\ UNCHANGED <<request, cap, seed, calls, rng, stream, buffer, reported>>

Fits == cap > 0 /\ Size <= cap

Copy ==
  /\ pc = "published"
  /\ buffer' = IF Fits THEN <<stream, Size>> ELSE buffer
  /\ status' = IF Fits THEN "OK" ELSE "OUTPUT_CAPACITY"
  /\ pc' = "ending"
  /\ UNCHANGED <<request, cap, seed, calls, rng, stream, length, reported>>

(* A panic anywhere behind the unwind boundary; the length a call has      *)
(* written by then is written in the functions that answer queries only.   *)
Panic ==
  /\ pc \in {"checks", "work"} \cup (IF entry \in Answers THEN {"published"} ELSE {})
  /\ status' = "INTERNAL_ERROR" /\ pc' = "ending"
  /\ UNCHANGED <<request, cap, seed, calls, rng, stream, length, buffer, reported>>

(* The length a query function leaves behind.                              *)
Normalized == IF status \in {"OK", "OUTPUT_CAPACITY"} THEN length ELSE 0

End ==
  /\ pc = "ending"
  /\ length' = IF entry \in Answers THEN Normalized ELSE length
  /\ pc' = "returned"
  /\ UNCHANGED <<request, cap, seed, calls, rng, stream, buffer, status, reported>>

(* The caller makes the room it was told it needs and calls again: with    *)
(* the same request, of which the entropy is part, except that signing     *)
(* asks for fresh entropy.                                                 *)
CallAgain ==
  /\ pc = "returned" /\ status = "OUTPUT_CAPACITY" /\ calls < MaxCalls
  /\ reported' = length /\ cap' = length /\ pc' = "idle"
  /\ seed' \in IF entry = "sign" THEN Seeds \ {seed} ELSE {seed}
  /\ UNCHANGED <<request, calls, rng, stream, length, buffer, status>>

BufferNext ==
  \/ Enter \/ Check \/ DrawBlock \/ Respond \/ Copy \/ Panic \/ End \/ CallAgain

BufferSpec == BufferInit /\ [][BufferNext]_bufferVars

(***************************************************************************)
(* Properties                                                              *)
(***************************************************************************)

(* What the caller finds in its length and its buffer says how the call    *)
(* went, whatever was in them and wherever the call broke off: a whole     *)
(* answer and its size, the room it needs and an untouched buffer, or      *)
(* nothing at all. Signing leaves a length it did not reach alone, and a   *)
(* query function asks for no room beyond the limit it promises. The room  *)
(* it asked for is enough when the request comes again: the answer is made *)
(* from the same randomness, and two calls settle.                         *)
OutcomeIsWhole ==
  pc = "returned" =>
    /\ entry \in Answers => length <= MaxResponse
    /\ CASE status = "OK" -> length = Size /\ length <= cap /\ buffer = <<stream, length>>
         [] status = "OUTPUT_CAPACITY" -> length = Size /\ length > cap /\ buffer = << >>
         [] OTHER -> /\ buffer = << >>
                     /\ entry \in Answers => length = 0
                     /\ entry = "sign" => length = IF reported = 0 THEN Stale ELSE reported
    /\ entry \in Answers /\ reported > 0 =>
         status # "OUTPUT_CAPACITY" /\ (status = "OK" => length = reported)

(* No call draws a block twice, also where its counter starts over.        *)
BlocksAreFresh == IsInjective(stream)
=============================================================================
