------------------------------ MODULE MCComposer ------------------------------
EXTENDS Composer

CONSTANTS counter, ping, vault, deep, pong, mid, end

\* ping and vault call pong back, vault decodes its answer; deep calls mid, which calls end.
MCReply ==
    [x \in Targets |->
        CASE x \in {ping, vault} -> pong [] x = deep -> mid [] x = mid -> end [] OTHER -> None]
=============================================================================
