----------------------------- MODULE MCMongoLock -----------------------------
(* The MongoDB mutex with a few attempts.                                    *)
EXTENDS MongoLock
=============================================================================
