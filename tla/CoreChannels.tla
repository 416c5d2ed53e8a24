----------------------------- MODULE CoreChannels -----------------------------
(***************************************************************************)
(* The three buffered channels that NewMangoEngine (core/pkg/core/engine.go)*)
(* makes and cmd/server/main.go hands to the handlers and to the router.   *)
(* A send blocks while the buffer is full, a receive while it is empty.    *)
(***************************************************************************)
EXTENDS CoreTypes

VARIABLES
  engineFeed,    (* handlers -> engine: ClientToServer    *)
  computeSink,   (* engine -> router: DetectionRequest    *)
  computeFeed    (* router -> engine: DetectionStatus     *)

channels == <<engineFeed, computeSink, computeFeed>>

ChannelTypeOK ==
  /\ engineFeed \in Seq(ClientToServer) /\ Len(engineFeed) <= FeedBufferSize
  /\ computeSink \in Seq(Message) /\ Len(computeSink) <= ComputeBufferSize
  /\ computeFeed \in Seq(DetectionStatus) /\ Len(computeFeed) <= ComputeBufferSize

ChannelInit == /\ engineFeed = << >>
               /\ computeSink = << >>
               /\ computeFeed = << >>

(* A new process makes new channels.                                         *)
ChannelRestart == /\ engineFeed' = << >>
                  /\ computeSink' = << >>
                  /\ computeFeed' = << >>
=============================================================================
