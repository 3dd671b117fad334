---------------------------- MODULE ReusePlanning ----------------------------
(***************************************************************************)
(* Which part of a prompt is an unchanged prefix of an offline skill, and  *)
(* which token ranges of it are calibrated and reused.  Prompts and        *)
(* objects are sequences of tokens; positions count from zero and          *)
(* intervals are half open, as in the code.  A digest is equal only for    *)
(* equal tokens.                                                           *)
(***************************************************************************)
EXTENDS Integers, Sequences

\* s[from:to] of a sequence that is long enough
Slice(s, from, to) == SubSeq(s, from + 1, to)

\* A cached object: its tokens, the marker they begin with, the chunk size of its
\* digests, whether it has chunk digests at all, and the position its first token
\* was computed at.
TokenCount(object) == Len(object.tokens)

NoPrefix == [start |-> -1, end |-> -1]

------------------------------------------------------------------------------
(* locate_authenticated_skill_prefix                                       *)

MarkerStarts(prompt, marker) ==
  {s \in 0 .. Len(prompt) - Len(marker) : Slice(prompt, s, s + Len(marker)) = marker}

NewestMarker(prompt, marker) ==
  CHOOSE s \in MarkerStarts(prompt, marker) :
    \A t \in MarkerStarts(prompt, marker) : t <= s

ExactAt(prompt, object, start) ==
  /\ start + TokenCount(object) <= Len(prompt)
  /\ Slice(prompt, start, start + TokenCount(object)) = object.tokens

\* The digests cover the complete chunks only (fingerprint_full_token_chunks).
DigestCount(object) ==
  IF object.digests THEN TokenCount(object) \div object.chunk ELSE 0

ChunkMatches(prompt, object, start, k) ==
  LET from == k * object.chunk
      to == from + object.chunk
  IN start + to <= Len(prompt) /\ Slice(prompt, start + from, start + to) = Slice(object.tokens, from, to)

\* (variant) counts the chunks that match, wherever they are
MatchedAnywhere(prompt, object, start) ==
  CHOOSE n \in 0 .. DigestCount(object) :
    /\ n = 0 \/ ChunkMatches(prompt, object, start, n - 1)
    /\ \A k \in n .. DigestCount(object) - 1 : ~ChunkMatches(prompt, object, start, k)

\* Chunks are compared in order, up to the first that differs.
MatchedChunks(prompt, object, start) ==
  CHOOSE n \in 0 .. DigestCount(object) :
    /\ \A k \in 0 .. n - 1 : ChunkMatches(prompt, object, start, k)
    /\ n = DigestCount(object) \/ ~ChunkMatches(prompt, object, start, n)

Located(prompt, object) ==
  LET start == NewestMarker(prompt, object.marker)
      matched == MatchedChunks(prompt, object, start)
  IN IF MarkerStarts(prompt, object.marker) = {} THEN NoPrefix
     ELSE IF ExactAt(prompt, object, start)
          THEN [start |-> start, end |-> start + TokenCount(object)]
     ELSE IF matched = 0 THEN NoPrefix
     ELSE [start |-> start, end |-> start + matched * object.chunk]

------------------------------------------------------------------------------
(* prepare_reuse                                                           *)

Strategies == {"direct", "ratio_prefix", "deviation_topk"}

\* resolve_calibration_tokens: math.ceil(tokens * ratio) is any of these for some
\* ratio in (0, 1].
CalibrationTokens(strategy, matched) ==
  IF strategy = "ratio_prefix" THEN 1 .. matched ELSE {0}

\* (variant) what is calibrated counts as reusable
TooShortUncalibrated(prefix, calibration, minimum) ==
  prefix.end - prefix.start < minimum

\* prepare_reuse falls back when too little is left to reuse.
TooShort(prefix, calibration, minimum) ==
  prefix.end - (prefix.start + calibration) < minimum

Plan(prefix, object, strategy, calibration) ==
  [strategy |-> strategy,
   segmentStart |-> prefix.start, segmentEnd |-> prefix.end,
   calibrationStart |-> prefix.start, calibrationEnd |-> prefix.start + calibration,
   reuseStart |-> prefix.start + calibration, reuseEnd |-> prefix.end,
   sourceStart |-> object.position + calibration,
   sourceEnd |-> object.position + (prefix.end - prefix.start),
   sourceTokens |-> TokenCount(object)]

\* The position of the object's first token, as the plan tells it.
SourcePosition(plan) == plan.sourceStart - (plan.reuseStart - plan.segmentStart)

\* ReusePlan.validate
PlanOK(plan) ==
  /\ 0 <= plan.segmentStart
  /\ plan.segmentStart <= plan.calibrationStart
  /\ plan.calibrationStart <= plan.calibrationEnd
  /\ plan.calibrationEnd = plan.reuseStart
  /\ plan.reuseStart < plan.reuseEnd
  /\ plan.reuseEnd <= plan.segmentEnd
  /\ plan.strategy = "ratio_prefix" <=> plan.calibrationStart < plan.calibrationEnd
  /\ plan.sourceStart >= 0
  /\ plan.sourceTokens > 0
  /\ SourcePosition(plan) >= 0
  /\ plan.sourceEnd <= SourcePosition(plan) + plan.sourceTokens
  /\ plan.sourceEnd - plan.sourceStart = plan.reuseEnd - plan.reuseStart

==============================================================================
