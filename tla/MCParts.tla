------------------------------ MODULE MCParts -------------------------------
(***************************************************************************)
(* The components that work by themselves, in one run: they share no       *)
(* state, so a behaviour is one of one component and the others stay as    *)
(* they are.  MCImages and MCKeys hold their instances.                    *)
(***************************************************************************)
EXTENDS MCImages, MCKeys

VARIABLE part   \* the component a behaviour is of

imageVars == <<unpackVars, streamVars, sigVars, taskVars, resVars, bundleVars>>
keyVars == <<wrapVars, provVars, secretVars, attVars>>

PartsInit ==
  /\ part \in {"unpack", "stream", "signature", "registry", "resources", "bundle",
              "ocicrypt", "key provider", "secret", "attester"}
  /\ UnpackInit /\ StreamInit /\ SignatureInit /\ TaskInit /\ ResourcesInit /\ BundleInit
  /\ WrapInit /\ ProviderInit /\ SecretInit /\ AttestersInit

ImagesNext ==
  \/ /\ part = "unpack" /\ UnpackNext
     /\ UNCHANGED <<streamVars, sigVars, taskVars, resVars, bundleVars>>
  \/ /\ part = "stream" /\ StreamNext
     /\ UNCHANGED <<unpackVars, sigVars, taskVars, resVars, bundleVars>>
  \/ /\ part = "signature" /\ SignatureNext
     /\ UNCHANGED <<unpackVars, streamVars, taskVars, resVars, bundleVars>>
  \/ /\ part = "registry" /\ TaskNext
     /\ UNCHANGED <<unpackVars, streamVars, sigVars, resVars, bundleVars>>
  \/ /\ part = "resources" /\ ResourcesNext
     /\ UNCHANGED <<unpackVars, streamVars, sigVars, taskVars, bundleVars>>
  \/ /\ part = "bundle" /\ BundleNext
     /\ UNCHANGED <<unpackVars, streamVars, sigVars, taskVars, resVars>>

KeysNext ==
  \/ /\ part = "ocicrypt" /\ WrapNext
     /\ UNCHANGED <<provVars, secretVars, attVars>>
  \/ /\ part = "key provider" /\ ProviderNext
     /\ UNCHANGED <<wrapVars, secretVars, attVars>>
  \/ /\ part = "secret" /\ SecretNext
     /\ UNCHANGED <<wrapVars, provVars, attVars>>
  \/ /\ part = "attester" /\ AttestersNext /\ Few
     /\ UNCHANGED <<wrapVars, provVars, secretVars>>

PartsNext == \/ ImagesNext /\ UNCHANGED <<keyVars, part>>
             \/ KeysNext /\ UNCHANGED <<imageVars, part>>

PartsSpec == PartsInit /\ [][PartsNext]_<<imageVars, keyVars, part>>
=============================================================================
