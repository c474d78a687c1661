---------------------------- MODULE MCRtpStream ----------------------------
(* One server with one H.264 stream; a second source, and RTCP of the      *)
(* server itself under another payload type.                               *)
EXTENDS RtpStream

TwoSsrcs == {11, 22}
TwoTypes == {96, 72}
Others == {[sequenceNumber |-> s, ssrc |-> 22, payloadType |-> 96] : s \in {0, 2}}
            \cup {[sequenceNumber |-> 3, ssrc |-> 11, payloadType |-> 72]}
=============================================================================
