---------------------------- MODULE MCPushPipeline ----------------------------
EXTENDS PushPipeline, TLC

\* the child ids come back with the entry's
FullReplies == { <<"LMT", "STP">> }

=============================================================================
