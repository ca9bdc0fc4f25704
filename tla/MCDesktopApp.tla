---------------------------- MODULE MCDesktopApp ----------------------------
EXTENDS DesktopApp, TLC

\* Version 0.1.0-beta.n, where one letter stands for "beta".
Beta(n) == [numbers |-> <<0, 1, 0>>, prerelease |-> <<<<10>>, n>>]

\* The second and the tenth beta, and the release.
MCReleases == <<Beta(<<2>>), Beta(<<1, 0>>), [numbers |-> <<0, 1, 0>>, prerelease |-> <<>>]>>
MCFirst == Beta(<<1, 0>>)
=============================================================================
