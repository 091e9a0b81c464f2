----------------------------- MODULE MCBucketJoin -----------------------------
(* Instances of BucketJoin for TLC: every function of the benchmark.          *)
EXTENDS BucketJoin

AllVariants == {Fast, L2Bucket, Ultimate, Fused, Cuda}
================================================================================
