---- MODULE MCListener ----
EXTENDS FeedListener

\* Every message of the feed has a payload of its own.
MCFeed == [s \in Sequence |-> 100 + s]
MCPayloads == 100..(100 + MaxSequence)
====
