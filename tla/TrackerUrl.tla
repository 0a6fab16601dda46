----------------------------- MODULE TrackerUrl -----------------------------
(***************************************************************************)
(* build_tracker_url: tracker.c, lines 416-680.  The capacity of the URL   *)
(* is computed from the lengths of one set of texts, the URL is filled     *)
(* with others, and only an exact fit is returned.                         *)
(***************************************************************************)
EXTENDS SizeT, Sequences

strlen(text) == Len(text)

\* The literals below.
ASSUME TextAssumption ==
  /\ strlen("?info_hash=&peer_id=&port=&uploaded=&downloaded=&left=&compact=1&event=") = 71
  /\ strlen("?info_hash=&peer_id=&port=&uploaded=&downloaded=&left=&compact=1") = 64
  /\ strlen("info_hash=") = 10 /\ strlen("&peer_id=") = 9 /\ strlen("&port=") = 6
  /\ strlen("&uploaded=") = 10 /\ strlen("&downloaded=") = 12 /\ strlen("&left=") = 6
  /\ strlen("&compact=") = 9 /\ strlen("&event=") = 7
  /\ strlen("started") = 7 /\ strlen("completed") = 9 /\ strlen("stopped") = 7
  /\ strlen("") = 0 /\ strlen("0") = 1 /\ strlen("1") = 1 /\ strlen("?") = 1 /\ strlen("&") = 1

QuestionMark == 63      \* '?'

TrackerEvents ==
  { "TRACKER_EVENT_NONE", "TRACKER_EVENT_STARTED", "TRACKER_EVENT_COMPLETED",
    "TRACKER_EVENT_STOPPED" }

HasEvent(request) == request.event # "TRACKER_EVENT_NONE"

EventValue(event) ==
  CASE event = "TRACKER_EVENT_STARTED"   -> "started"
    [] event = "TRACKER_EVENT_COMPLETED" -> "completed"
    [] event = "TRACKER_EVENT_STOPPED"   -> "stopped"
    [] OTHER                             -> ""

\* The length of a number as text; a uint16_t and a uint64_t fit the buffers
\* for them.
DecimalLength(number) ==
  LET digits[n \in 0 .. number] == IF n < 10 THEN 1 ELSE 1 + digits[n \div 10]
  IN digits[number]

-----------------------------------------------------------------------------
(* The capacity.                                                           *)

\* (The text without the event's name for every request is a plausible
\* mistake.)
StaticTextNoEvent(request) ==
  "?info_hash=&peer_id=&port=&uploaded=&downloaded=&left=&compact=1"

StaticText(request) ==
  IF HasEvent(request)
  THEN "?info_hash=&peer_id=&port=&uploaded=&downloaded=&left=&compact=1&event="
  ELSE "?info_hash=&peer_id=&port=&uploaded=&downloaded=&left=&compact=1"

Lengths(request) ==
  << Len(request.announce), strlen(request.info_hash_encoded), strlen(request.peer_id_encoded),
     DecimalLength(request.port), DecimalLength(request.uploaded),
     DecimalLength(request.downloaded), DecimalLength(request.left),
     strlen(StaticText(request)), strlen(EventValue(request.event)) >>

TooLong == -1

\* safely_increased_url_length
SafelyIncreased(length, increase) ==
  IF length = TooLong \/ length > SizeMax - increase THEN TooLong ELSE length + increase

\* One byte is for the end of the string.
Capacity(request) ==
  LET capacity[k \in 0 .. 9] ==
        IF k = 0 THEN 1 ELSE SafelyIncreased(capacity[k - 1], Lengths(request)[k])
  IN capacity[9]

-----------------------------------------------------------------------------
(* Filling it.  Only lengths matter.                                       *)

\* The parameters in their order, each with its prefix; the event is the last.
Parameters(request) ==
  << <<strlen("info_hash="), strlen(request.info_hash_encoded)>>,
     <<strlen("&peer_id="), strlen(request.peer_id_encoded)>>,
     <<strlen("&port="), DecimalLength(request.port)>>,
     <<strlen("&uploaded="), DecimalLength(request.uploaded)>>,
     <<strlen("&downloaded="), DecimalLength(request.downloaded)>>,
     <<strlen("&left="), DecimalLength(request.left)>>,
     <<strlen("&compact="), IF request.compact THEN strlen("1") ELSE strlen("0")>> >>

EventParameter(request) == <<strlen("&event="), strlen(EventValue(request.event))>>

\* A query that the announce URL already has is continued.  (Leaving the
\* separator to it then is a plausible mistake.)
SeparatorIfNoQuery(announce) ==
  IF \E k \in DOMAIN announce : announce[k] = QuestionMark THEN "" ELSE "?"

Separator(announce) ==
  IF \E k \in DOMAIN announce : announce[k] = QuestionMark THEN "&" ELSE "?"

DoesNotFit == -1

\* add_query_parameter_to_url, from a position to the next.
AddParameter(capacity, position, parameter) ==
  LET next == position + parameter[1] + parameter[2]
  IN IF position = DoesNotFit \/ next > capacity THEN DoesNotFit ELSE next

\* The position behind the announce URL and the separator.
Separated(request) ==
  LET position == Len(request.announce) + strlen(Separator(request.announce))
  IN IF position > Capacity(request) THEN DoesNotFit ELSE position

\* The position behind the last parameter.
Filled(request) ==
  LET filled[k \in 0 .. 7] ==
        IF k = 0 THEN Separated(request)
        ELSE AddParameter(Capacity(request), filled[k - 1], Parameters(request)[k])
  IN IF HasEvent(request)
     THEN AddParameter(Capacity(request), filled[7], EventParameter(request))
     ELSE filled[7]

FitsExactly(request) == Filled(request) = Capacity(request) - 1
=============================================================================
