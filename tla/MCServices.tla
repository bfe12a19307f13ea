------------------------------ MODULE MCServices -----------------------------
(* The parts around the connections, checked one at a time: the first      *)
(* state picks the part that runs.                                         *)
EXTENDS JwksRefresh, RealmsVersion, RakNetVersions, PackCache, Proxy, NbtCodec

VARIABLE part

Init ==
  /\ part \in {"jwks", "realms", "raknet", "cache", "proxy", "nbt"}
  /\ RakNetInit /\ CacheInit /\ ProxyInit
  /\ JwksInit /\ (part # "jwks" => keyless = {})
  /\ RealmsInit /\ (part # "realms" => supported = {})
  /\ NbtInit /\ (part # "nbt" => encoding = "networkLittleEndian")

Next ==
  /\ UNCHANGED part
  /\ \/ part = "jwks" /\ JwksNext /\ UNCHANGED <<realmsVars, rakNetVars, cacheVars, proxyVars, nbtVars>>
     \/ part = "realms" /\ RealmsNext /\ UNCHANGED <<jwksVars, rakNetVars, cacheVars, proxyVars, nbtVars>>
     \/ part = "raknet" /\ RakNetNext /\ UNCHANGED <<jwksVars, realmsVars, cacheVars, proxyVars, nbtVars>>
     \/ part = "cache" /\ CacheNext /\ UNCHANGED <<jwksVars, realmsVars, rakNetVars, proxyVars, nbtVars>>
     \/ part = "proxy" /\ ProxyNext /\ UNCHANGED <<jwksVars, realmsVars, rakNetVars, cacheVars, nbtVars>>
     \/ part = "nbt" /\ NbtNext /\ UNCHANGED <<jwksVars, realmsVars, rakNetVars, cacheVars, proxyVars>>

vars == <<part, jwksVars, realmsVars, rakNetVars, cacheVars, proxyVars, nbtVars>>

Spec ==
  /\ Init /\ [][Next]_vars
  /\ RealmsFairness /\ CacheFairness /\ ProxyFairness
==============================================================================
