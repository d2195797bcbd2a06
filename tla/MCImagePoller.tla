----------------------------- MODULE MCImagePoller -----------------------------
(* An instance of ImagePoller for TLC, and what its documents say of it.      *)
EXTENDS ImagePoller

\* A floating tag, which is no version, and a version with newer ones.
Config(enabled, once, refresh, guarded, tag, policy) ==
    [enabled |-> enabled, once |-> once, refresh |-> refresh,
     guarded |-> guarded, tag |-> tag, policy |-> policy]

MCConfigs == {Config(TRUE, FALSE, FALSE, TRUE, 1, "never"),
              Config(TRUE, FALSE, TRUE, FALSE, 2, "always"),
              Config(TRUE, TRUE, FALSE, FALSE, 1, "if-not-present"),
              Config(FALSE, FALSE, TRUE, TRUE, 2, "if-not-present")}

\* README.md:307: latestDigest is the digest of the latest semver tag.
LatestDigestIsOfLatest ==
    (state.latestTag # None /\ state.latestDigest # None) =>
        state.latestDigest[1] = state.latestTag
===============================================================================
