-------------------------------- MODULE MCMqueue --------------------------------
EXTENDS Mqueue

CONSTANTS f, g, h, c1, c2, s1, s2
MCItems == {f, g, h}
MCChannelOf == f :> c1 @@ g :> c2 @@ h :> c2
MCShardOf == f :> s1 @@ g :> s2 @@ h :> s2
MCStoredOrder == <<f, h, g>>
=============================================================================
