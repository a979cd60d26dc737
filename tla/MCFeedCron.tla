----------------------------- MODULE MCFeedCron -----------------------------
(* Small instances of FeedCron for TLC.                                    *)
EXTENDS FeedCron

CONSTANTS p1, p2, p3

\* A feed longer than the cap.
MCFeeds == {<<p1, p2, p3>>}
=============================================================================
