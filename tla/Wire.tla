--------------------------------- MODULE Wire ---------------------------------
(***************************************************************************)
(* The wire format (core/include/radio/proto.hpp, core/src/proto/proto.cpp *)
(* and protocol/specification.md 2-4): what the encoders put in a datagram *)
(* and which datagrams the parsers take.                                   *)
(*                                                                         *)
(* A datagram is its length, the fields of the common prefix and what the  *)
(* rest holds.  Flags are a set of bits; "reserved" stands for any bit     *)
(* that is not assigned, "Join" for the assigned types of later versions.  *)
(* Sizes count words of four bytes.                                        *)
(***************************************************************************)
EXTENDS Integers, FiniteSets

PrefixSize == 1
HeaderSize == 4    \* kMediaHeaderSize, kControlHeaderSize
PongBodySize == 4

CONSTANT MaxDatagram

ASSUME WireAssumption == MaxDatagram \in Nat /\ MaxDatagram > HeaderSize + PongBodySize

Version == 1

ControlTypes == {"Ping", "Pong", "Join"}

MediaFlags == {"start", "end", "fec", "dtx"}

\* What an encoder returns when the datagram does not fit.
NoDatagram == [size |-> 0]

EncodeMedia(flags, fields, payload) ==
  IF payload = 0 \/ HeaderSize + payload > MaxDatagram THEN NoDatagram
  ELSE [size |-> HeaderSize + payload, version |-> Version, type |-> "Audio",
        flags |-> flags, fields |-> fields]

EncodeControl(type, fields, body) ==
  IF HeaderSize + body > MaxDatagram THEN NoDatagram
  ELSE [size |-> HeaderSize + body, version |-> Version, type |-> type,
        flags |-> {}, fields |-> fields]

\* validate_prefix() and peek_type()
PrefixReject(d) ==
  IF d.size < PrefixSize THEN "TooShort"
  ELSE IF d.version # Version THEN "BadVersion"
  ELSE IF d.type \notin ControlTypes \cup {"Audio"} THEN "UnknownType"
  ELSE "None"

\* parse_media()
MediaReject(d) ==
  IF PrefixReject(d) # "None" THEN PrefixReject(d)
  ELSE IF d.type # "Audio" THEN "UnknownType"
  ELSE IF ~ (d.flags \subseteq MediaFlags) THEN "ReservedFlag"
  ELSE IF d.size <= HeaderSize \/ d.size > MaxDatagram THEN "BadLength"
  ELSE "None"

\* parse_control()
ControlReject(d) ==
  IF PrefixReject(d) # "None" THEN PrefixReject(d)
  ELSE IF d.type = "Audio" THEN "UnknownType"
  ELSE IF d.flags # {} THEN "ReservedFlag"
  ELSE IF d.size < HeaderSize \/ d.size > MaxDatagram THEN "BadLength"
  ELSE "None"

\* parse_pong_body(): the length is exact.
PongReject(d) ==
  IF ControlReject(d) # "None" THEN ControlReject(d)
  ELSE IF d.size - HeaderSize # PongBodySize THEN "BadLength" ELSE "None"
===============================================================================
