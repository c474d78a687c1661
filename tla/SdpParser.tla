----------------------------- MODULE SdpParser -----------------------------
(***************************************************************************)
(* cRTSPprotocol::parseSDP: the session description of a DESCRIBE reply is *)
(* read line by line for the track SETUP will name.  A line is one of a    *)
(* few kinds, and the track is the number of the a=control line it came    *)
(* from; one step is one round of one of the three loops.  RtspProtocol    *)
(* says when the parser is called.                                         *)
(***************************************************************************)
EXTENDS Integers, Sequences, FiniteSetsExt

CONSTANT MaxLines   \* bound on the lines of a description

ASSUME SdpAssumption == MaxLines \in Nat \ {0}

\* What the line tests tell apart: an m= line of a video stream, any other m=
\* line, a=control, a=rtcp-mux, another valid line, no line of the form <char>=.
Kinds == {"video", "media", "control", "mux", "other", "invalid"}

VARIABLES
  sdp,                    \* the lines; the input, never changed
  sdpLine,                \* number of the current line, 0 for NULL
  loop,                   \* "before" the first m=, in the "outer" loop, in the loop over
                          \* the lines of a video "section", or "returned"
  fControlPath,           \* media[0], cleared by parse
  fMultiplexRTCPWithRTP

media0 == <<fControlPath, fMultiplexRTCPWithRTP>>
sdpVars == <<sdp, sdpLine, loop, media0>>

Descriptions == UNION {[1 .. n -> Kinds] : n \in 1 .. MaxLines}

SdpInit ==
  /\ sdp = <<>> /\ sdpLine = 0 /\ loop = "returned"
  /\ fControlPath = 0 /\ fMultiplexRTCPWithRTP = FALSE

\* parseSDP is called with description d.
SdpStart(d) == sdp' = d /\ sdpLine' = 1 /\ loop' = "before"

IsMedia(i) == sdp[i] \in {"video", "media"}

\* sdpLine = nextSDPLine: on to loop l, or out of the function at the end.
Advance(l) ==
  \/ sdpLine < Len(sdp) /\ sdpLine' = sdpLine + 1 /\ loop' = l
  \/ sdpLine = Len(sdp) /\ sdpLine' = 0 /\ loop' = "returned"

In(l) == loop = l /\ sdp[sdpLine] # "invalid"

---------------------------------------------------------------------------
(* Slips a change of parseSDP could make.                                  *)

\* Only an m= line of a video stream ends the section.
SectionRunsOn ==
  /\ In("section") /\ IsMedia(sdpLine)
  /\ Advance("section")
  /\ UNCHANGED <<sdp, media0>>

---------------------------------------------------------------------------
(* parseSDP *)

\* parseSDPLine fails: every loop gives up and keeps what was found.
Invalid ==
  /\ loop # "returned" /\ sdp[sdpLine] = "invalid"
  /\ loop' = "returned"
  /\ UNCHANGED <<sdp, sdpLine, media0>>

\* The lines before the first m= line are skipped.
Before ==
  /\ In("before")
  /\ \/ IsMedia(sdpLine) /\ loop' = "outer" /\ UNCHANGED sdpLine
     \/ ~IsMedia(sdpLine) /\ Advance("before")
  /\ UNCHANGED <<sdp, media0>>

\* catchVideoMedinSession looks for the m= line of a video stream.
Outer ==
  /\ In("outer")
  /\ Advance(IF sdp[sdpLine] = "video" THEN "section" ELSE "outer")
  /\ UNCHANGED <<sdp, media0>>

\* A line of a video section.  Every line but a=rtcp-mux clears the flag.
SectionLine ==
  /\ In("section") /\ ~IsMedia(sdpLine)
  /\ fMultiplexRTCPWithRTP' = (sdp[sdpLine] = "mux")
  /\ fControlPath' = IF sdp[sdpLine] = "control" THEN sdpLine ELSE fControlPath
  /\ Advance("section")
  /\ UNCHANGED sdp

\* The m= line that ends a video section is not looked at again.
SectionEnds ==
  /\ In("section") /\ IsMedia(sdpLine)
  /\ Advance("outer")
  /\ UNCHANGED <<sdp, media0>>

SdpNext == Invalid \/ Before \/ Outer \/ SectionLine \/ SectionEnds

---------------------------------------------------------------------------
(* Properties *)

\* Every variable keeps its range.
SdpTypeOK ==
  /\ sdpLine \in 0 .. Len(sdp)
  /\ loop \in {"before", "outer", "section", "returned"}
  /\ fControlPath \in 0 .. Len(sdp) /\ fMultiplexRTCPWithRTP \in BOOLEAN
  /\ loop # "returned" => sdpLine # 0

\* The m= line line i belongs to, 0 before the first one.
SectionOf(i) == Max({j \in 1 .. i : IsMedia(j)} \cup {0})

\* The track is never one of an audio stream or of the session: the a=control
\* line it came from is in a section of a video stream.
ControlFromVideo ==
  fControlPath # 0 => LET s == SectionOf(fControlPath) IN s # 0 /\ sdp[s] = "video"

\* The lines read before an invalid one.
Valid == {i \in DOMAIN sdp : \A j \in 1 .. i : sdp[j] # "invalid"}

\* The control lines of video sections that do not follow a video section.
Eligible ==
  {i \in Valid : /\ sdp[i] = "control"
                 /\ LET s == SectionOf(i) IN
                      /\ s # 0 /\ sdp[s] = "video"
                      /\ LET r == SectionOf(s - 1) IN r = 0 \/ sdp[r] # "video"}

\* Of those lines the last one is not lost: the track is that line or a later one.
LastControlFound == loop = "returned" => \A i \in Eligible : fControlPath >= i

\* The track SETUP asks for is a video stream's, and not an outdated one.
TrackOfVideo == ControlFromVideo /\ LastControlFound
=============================================================================
